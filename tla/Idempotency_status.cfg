CONSTANTS
    r1 = r1  r2 = r2  r3 = r3  r4 = r4  r5 = r5  k1 = k1
    Requests = {r1, r2, r3}
    Keys = {k1}
    NoKey = NoKey
    BadKey = BadKey
    KeyOf <- Mostly
    SkipMissingKeys = TRUE
    Codes = {ok, created}
    Bodies = {"whole", "pieces"}
    OK = ok
    Nobody = Nobody
    Envs = {{}}
SPECIFICATION Spec
INVARIANTS ReplaysRecorded
CHECK_DEADLOCK FALSE
