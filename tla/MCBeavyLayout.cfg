\* One lane exchange of an Input, AND or Output gate, up to 3 wires of up
\* to 3 SIMD lanes each.  The exchange ends after the receiver's step.
CONSTANTS
    MaxWires = 3
    MaxSimd = 3
    NoMsg = NoMsg
    NoVal = NoVal
SPECIFICATION Spec
INVARIANTS LanesRoundTrip FrameFitsFuture
CHECK_DEADLOCK FALSE
