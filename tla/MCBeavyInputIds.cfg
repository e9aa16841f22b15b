\* Every circuit of up to 3 input gates with up to 2 wires of up to 2 SIMD
\* lanes, owned by either party.  The run ends when both parties have
\* constructed and set up every input gate.
CONSTANTS
    MaxGates = 3
    MaxWires = 2
    MaxSimd = 2
    NoId = NoId
SPECIFICATION Spec
INVARIANTS PrgCorrelated FreshPrgBlocks
CHECK_DEADLOCK FALSE
