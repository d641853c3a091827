CONSTANTS
    r1 = r1  r2 = r2  r3 = r3  r4 = r4  r5 = r5  k1 = k1
    Requests = {r1, r2, r3, r4, r5}
    Keys = {k1}
    NoKey = NoKey
    BadKey = BadKey
    KeyOf <- Mostly
    SkipMissingKeys = TRUE
    Codes = {ok}
    Bodies = {"whole"}
    OK = ok
    Nobody = Nobody
    Envs <- Weathers
SPECIFICATION FairSpec
INVARIANTS TypeOK OneAtATime HandledOnce ReplaysAgree
PROPERTIES KeyFreed
CHECK_DEADLOCK FALSE
