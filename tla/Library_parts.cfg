CONSTANTS
    k1 = k1  k2 = k2  c1 = c1  c2 = c2
    CacheKeys = {k1, k2}
    Callers = {c1, c2}
    CacheKinds = {"expiring", "fixed", "lru", "lruexpiring"}
    Size = 1
    Validities = {0, 1}
    MaxPuts = 2
    MaxClock = 2
    NoEntry = NoEntry
    i1 = i1  i2 = i2  wa = wa  wb = wb  wcron = wcron  wraw = wraw  name = name
    Instances = {i1, i2}
    WorkerIds = {wa, wb, wcron, wraw}
    Names = {name}
    NameOf <- OneName
    IntervalOf <- Intervals
    Slots = {1}
    MaxTerms = 2
    MaxRuns = 3
    NoInstance = NoInstance
    s1 = s1  s2 = s2  d1 = d1  d2 = d2
    Sends = {s1, s2}
    Responders = {d1, d2}
    Topics = {"topic"}
    MaxListens = 2
    Jobs = {"j1", "j2"}
    OptionsOf <- JobOptions
    Shared = {"j1", "j2"}
    Unhandled = {"j2"}
    Queues = {"mail", "default"}
    DefaultRetry = 1
    MaxPushes <- PushesOf
    MaxStrays = 1
    g1 = g1  g2 = g2
    Goroutines = {g1, g2}
    Nanos = {0, 1, 2, 5, 6, 7}
    NanoPerMilli = 6
    SeqTick = 2
    SeqWidth = 4
    Shapes <- SomeShapes
    Orders <- SomeOrders
    FlagSet <- SomeFlags
    ZeroDefault = {"a"}
    Overwritten = {"b"}
SPECIFICATION LibrarySpec
INVARIANTS LibraryTypeOK CacheServesFresh LostOnlyToRace OverlapNeedsElection LocksAreHeld
    AnswerIsOwn OwnIdUnlessShared AgainOnlyIfTakenBack ArchivedIsCounted OrderedUnlessOverlapped
    LastSayWins
CHECK_DEADLOCK FALSE
