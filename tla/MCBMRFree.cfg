\* XOR, INV and AND with an output to party 2 only; parties 0 and 1 sample
\* their permutation shares freely.
CONSTANTS
    N = 3
    Gates <- MCGatesFree
    Kind <- MCKindFree
    InA <- MCInAFree
    InB <- MCInBFree
    Owner <- MCOwnerFree
    ALL = ALL
    NoVal = NoVal
    RandParties = {0, 1}
SPECIFICATION Spec
INVARIANTS
    NoStrayMessage
CHECK_DEADLOCK FALSE
