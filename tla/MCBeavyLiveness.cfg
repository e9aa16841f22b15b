\* Parallel fibers, no barrier: every task ends and every frame is consumed.
\* CHECK_DEADLOCK is off because the evaluation really stops when all tasks
\* are done; a stop anywhere else violates Termination.
CONSTANTS
    Parties = {0, 1}
    Gates <- MCGatesAnd
    Kind <- MCKindAnd
    InA <- MCInAAnd
    InB <- MCInBAnd
    Owner <- MCOwnerAnd
    ALL = ALL
    NoVal = NoVal
    Scheduler = "fibers"
    OnlineAfterSetup = FALSE
    Rand = {FALSE}
SPECIFICATION Spec
PROPERTIES
    Termination
CHECK_DEADLOCK FALSE
