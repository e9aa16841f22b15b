\* Spec 8 scenario 4; permutation shares fixed (they do not affect what a party waits for), inputs free.
CONSTANTS
    N = 3
    Gates <- MCGatesAnd
    Kind <- MCKindAnd
    InA <- MCInAAnd
    InB <- MCInBAnd
    Owner <- MCOwnerAnd
    ALL = ALL
    NoVal = NoVal
    RandParties = {}
SPECIFICATION Spec
PROPERTIES
    Termination
    ImplementsAbstract
CHECK_DEADLOCK FALSE
