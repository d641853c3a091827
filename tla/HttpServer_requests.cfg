CONSTANTS
    r1 = r1  r2 = r2  s1 = s1  s2 = s2
    catchAll = catchAll  channel = channel
    Requests = {r1}
    Stoppers = {s1, s2}
    Routes <- SomeRoutes
    Errors <- SomeErrors
    ErrorHandlers = {catchAll, channel}
    Takes <- WhoTakes
    CodeOf <- WhichCode
    Unencodable = {channel}
    NoRoute = NoRoute
SPECIFICATION FairSpec
INVARIANTS TypeOK  StatusAsAsked StopDrains
PROPERTIES StopComesBack
CHECK_DEADLOCK FALSE
