\* Parallel fibers, no barrier between setup and online; random bits fixed
\* so that the interleavings, not the data, are enumerated.  CHECK_DEADLOCK
\* is off: the evaluation stops once every task is done (see Termination).
CONSTANTS
    Parties = {0, 1}
    Gates <- MCGatesOwned
    Kind <- MCKindOwned
    InA <- MCInAOwned
    InB <- MCInBOwned
    Owner <- MCOwnerOwned
    ALL = ALL
    NoVal = NoVal
    Scheduler = "fibers"
    OnlineAfterSetup = FALSE
    Rand = {FALSE}
SPECIFICATION Spec
INVARIANTS
    PublicShareAgreement
    NoStrayMessage
PROPERTIES
    WireFinal
CHECK_DEADLOCK FALSE
