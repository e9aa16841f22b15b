--------------------------- MODULE BeavyInputIds ---------------------------
(***************************************************************************)
(* The input ids of the BEAVY Boolean input gates (src/unnamed/part_000)   *)
(* and the PRG blocks their setup reads.  Each of the two parties builds   *)
(* the same circuit with its own provider: a sender constructor (the       *)
(* input owner) or a receiver constructor takes input_id_ from             *)
(* get_next_input_id(num_wires).  In setup the sender masks wire i with    *)
(* its generator toward every peer at id input_id_ + i, and the receiver   *)
(* reads its generator of the owner at the same id; setups of different    *)
(* gates run in any order (one fiber per gate).                            *)
(*                                                                         *)
(* The provider and the generators are not under src/: get_next_input_id  *)
(* returns its counter and advances it by its argument (spec 3), and       *)
(* GetBits(id, num_simd) is the num_simd-bit block of the stream at id.    *)
(***************************************************************************)
EXTENDS Naturals, Sequences

CONSTANTS
    MaxGates,   \* bound on the number of input gates of the circuit
    MaxWires,   \* bound on num_wires of an input gate
    MaxSimd,    \* bound on num_simd of an input gate
    NoId        \* input_id_ of a gate not constructed yet

Parties == {0, 1}
Others(p) == Parties \ {p}

\* The arguments of an input gate's construction, as the circuit gives them.
GateArgs == [owner : Parties, wires : 1 .. MaxWires, simd : 1 .. MaxSimd]

VARIABLES
    circuit,   \* the input gates of the circuit, in construction order
    built,     \* built[p]: how many of them p's gate factory has constructed
    nextId,    \* nextId[p]: the input id counter of p's provider
    inputId,   \* inputId[p][k]: input_id_ of p's k-th input gate
    draws      \* draws[p]: the GetBits calls p's input gate setups made

vars == <<circuit, built, nextId, inputId, draws>>

\* BEAVYProvider::get_next_input_id(n): the current id, then n further.
GetNextInputId(p, n) ==
    /\ inputId' = [inputId EXCEPT ![p][built[p] + 1] = nextId[p]]
    /\ nextId' = [nextId EXCEPT ![p] = @ + n]

\* The ids each constructor reserves: input_id_(get_next_input_id(num_wires)).
SenderIdSpan(g) == g.wires

ReceiverIdSpanBits(g) == g.wires * g.simd

ReceiverIdSpan(g) == g.wires

Init ==
    /\ circuit \in UNION {[1 .. n -> GateArgs] : n \in 1 .. MaxGates}
    /\ built = [p \in Parties |-> 0]
    /\ nextId = [p \in Parties |-> 0]
    /\ inputId = [p \in Parties |-> [k \in 1 .. MaxGates |-> NoId]]
    /\ draws = [p \in Parties |-> {}]

(* The gate factory of p constructs the next input gate of the circuit:    *)
(* BooleanBEAVYInputGateSender at the owner, ...Receiver elsewhere.        *)
Construct(p) ==
    /\ built[p] < Len(circuit)
    /\ LET g == circuit[built[p] + 1]
       IN  GetNextInputId(p, IF g.owner = p THEN SenderIdSpan(g) ELSE ReceiverIdSpan(g))
    /\ built' = [built EXCEPT ![p] = @ + 1]
    /\ UNCHANGED <<circuit, draws>>

\* The PRG id wire i of an input gate reads: input_id_ + wire_i.
PrgIdNoWire(id, i) == id

PrgId(id, i) == id + i

Draw(stream, peer, k, id, i, n) ==
    [stream |-> stream, peer |-> peer, gate |-> k, wire |-> i, id |-> id, n |-> n]

(* BooleanBEAVYInputGateSender::evaluate_setup: for every wire, XOR in     *)
(* GetBits(input_id_ + wire_i, num_simd_) of my generator toward each peer.*)
SenderSetup(p, k) ==
    /\ k <= built[p] /\ circuit[k].owner = p
    /\ ~\E d \in draws[p] : d.gate = k
    /\ draws' = [draws EXCEPT ![p] = @ \cup
                   {Draw("my", q, k, PrgId(inputId[p][k], i), i, circuit[k].simd) :
                      q \in Others(p), i \in 0 .. circuit[k].wires - 1}]
    /\ UNCHANGED <<circuit, built, nextId, inputId>>

(* BooleanBEAVYInputGateReceiver::evaluate_setup: the secret share of each *)
(* wire is GetBits(input_id_ + wire_i, num_simd_) of the owner's generator.*)
ReceiverSetup(p, k) ==
    /\ k <= built[p] /\ circuit[k].owner # p
    /\ ~\E d \in draws[p] : d.gate = k
    /\ draws' = [draws EXCEPT ![p] = @ \cup
                   {Draw("their", circuit[k].owner, k, PrgId(inputId[p][k], i), i,
                         circuit[k].simd) : i \in 0 .. circuit[k].wires - 1}]
    /\ UNCHANGED <<circuit, built, nextId, inputId>>

Next ==
    \E p \in Parties :
        \/ Construct(p)
        \/ \E k \in 1 .. MaxGates : SenderSetup(p, k) \/ ReceiverSetup(p, k)

Spec == Init /\ [][Next]_vars

-----------------------------------------------------------------------------
(* Properties *)

(* The correlation every BEAVY input rests on (spec 4.3): for each wire of *)
(* each input gate, the block the owner XORs in from its generator toward  *)
(* the peer is the block the peer reads from its generator of the owner:   *)
(* same id, same size, whatever the gates and their wire counts before it  *)
(* and whichever party constructs or sets up first.                        *)
PrgCorrelated ==
    \A o \in Parties : \A d \in draws[o], e \in draws[1 - o] :
        (/\ d.stream = "my" /\ e.stream = "their" /\ e.peer = o
         /\ d.gate = e.gate /\ d.wire = e.wire)
            => d.id = e.id /\ d.n = e.n

(* No PRG block is read for two wires: within one party and one generator, *)
(* distinct (gate, wire) pairs read distinct ids, so no two input shares   *)
(* are masked with the same random bits.                                   *)
FreshPrgBlocks ==
    \A p \in Parties : \A d, e \in draws[p] :
        (d.stream = e.stream /\ d.peer = e.peer /\ d.id = e.id)
            => d.gate = e.gate /\ d.wire = e.wire

=============================================================================
