CONSTANTS
    N = 3
    Seeds = {s1, s2}
    NoSeed = NoSeed
    Versions = {v1}
    ShareInputs <- MCShareInputs
    MaxInputGates = 1
SPECIFICATION Spec
INVARIANTS
    SeedAgreement
PROPERTIES
    SessionEnds
CHECK_DEADLOCK FALSE
