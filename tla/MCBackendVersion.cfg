CONSTANTS
    N = 3
    Seeds = {s1, s2}
    NoSeed = NoSeed
    Versions = {v1, v2}
    ShareInputs <- MCShareInputs
    MaxInputGates = 1
SPECIFICATION Spec
INVARIANTS
    EvaluateOnlyAfterVerifiedHello
CHECK_DEADLOCK FALSE
