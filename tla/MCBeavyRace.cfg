\* Parallel fibers with the online_after_setup barrier: the output is
\* reconstructed from public shares read without wait_online.
CONSTANTS
    Parties = {0, 1}
    Gates <- MCGatesOwned
    Kind <- MCKindOwned
    InA <- MCInAOwned
    InB <- MCInBOwned
    Owner <- MCOwnerOwned
    ALL = ALL
    NoVal = NoVal
    Scheduler = "fibers"
    OnlineAfterSetup = TRUE
    Rand = {FALSE, TRUE}
SPECIFICATION Spec
INVARIANTS
    OutputCorrect
CHECK_DEADLOCK FALSE
