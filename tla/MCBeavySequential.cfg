\* Each party runs its gate tasks one at a time in gate-id order (setup then
\* online of each gate); all random and input bits range over both values.
CONSTANTS
    Parties = {0, 1}
    Gates <- MCGates
    Kind <- MCKind
    InA <- MCInA
    InB <- MCInB
    Owner <- MCOwner
    ALL = ALL
    NoVal = NoVal
    Scheduler = "sequential"
    OnlineAfterSetup = FALSE
    Rand = {FALSE, TRUE}
SPECIFICATION Spec
INVARIANTS
    TypeOK
    SetupCorrelation
    ShareCorrectness
PROPERTIES
    ImplementsAbstract
CHECK_DEADLOCK FALSE
