---------------------------- MODULE BeavyLayout ----------------------------
(***************************************************************************)
(* How the BEAVY gates of src/unnamed/part_000 lay the SIMD lanes of       *)
(* several wires out in one BitVector message and cut them back into       *)
(* wires: one exchange of an Input, AND or Output gate between a sending   *)
(* and a receiving party.  The sender Appends the lanes of every wire; the *)
(* receiver XORs the frame into its own packed shares (AND, Output) and    *)
(* slices it with BitVector::Subset, by wire_i * num_simd (Input, AND) or  *)
(* by a running bit_offset over per-wire sizes (Output).                   *)
(*                                                                         *)
(* Data abstraction.  A bit is symbolic: the set of independent source     *)
(* bits it is the XOR of, so XOR is symmetric difference and a lane that   *)
(* lands in the wrong wire or position carries the wrong symbols.  A read  *)
(* past the end of a BitVector yields Garbage, a symbol no share has.      *)
(***************************************************************************)
EXTENDS Naturals, Sequences, SequencesExt

CONSTANTS
    MaxWires,   \* bound on num_wires of a gate
    MaxSimd,    \* bound on num_simd of a wire
    NoMsg,      \* the future holds no frame yet
    NoVal       \* the wires have not been assigned yet

Kinds == {"Input", "AND", "Output"}

VARIABLES
    kind,   \* which gate exchanges lanes
    simd,   \* simd[i]: get_num_simd() of wire i, i \in 1..num_wires
    reg,    \* num_bits the receiver registered its future for
    msg,    \* the frame the sender sent, or NoMsg
    out     \* the receiver's output wires after the online step, or NoVal

vars == <<kind, simd, reg, msg, out>>

\* Symbolic bits: lane j of wire i contributed by src.
Lane(src, i, j) == {<<src, i, j>>}
Garbage == {<<"garbage", 0, 0>>}
XorBit(a, b) == (a \ b) \cup (b \ a)

\* The shares of one party's wires: wire i has simd[i] lanes.
Shares(src) == [i \in 1 .. Len(simd) |-> [j \in 1 .. simd[i] |-> Lane(src, i, j)]]

\* BitVector::Append of every wire in wire order.
Packed(src) == FlattenSeq(Shares(src))

\* BitVector::Subset(from, to): the bits at 0-based positions from .. to-1.
Subset(v, from, to) ==
    [k \in 1 .. to - from |-> IF from + k <= Len(v) THEN v[from + k] ELSE Garbage]

\* BitVector ^= : lane-wise XOR of v into u.
XorInto(u, v) ==
    [k \in 1 .. Len(u) |-> IF k <= Len(v) THEN XorBit(u[k], v[k]) ELSE Garbage]

\* count_bits: the sum of get_num_simd() over the wires.
CountBits(s) == FoldLeft(LAMBDA acc, n : acc + n, 0, s)

\* The num_bits a receiver's constructor registers for the frame.
RegisteredBitsUniform(k, s) == Len(s) * s[1]

RegisteredBits(k, s) ==
    IF k = "Input" THEN Len(s) * s[1] ELSE CountBits(s)

\* Constructors: an Input gate takes one num_simd for all its wires, an AND
\* gate has one (BasicBooleanBEAVYBinaryGate throws otherwise); the wires
\* an Output gate reads are not checked.
Shapes(k) ==
    IF k = "Output"
      THEN UNION {[1 .. n -> 1 .. MaxSimd] : n \in 1 .. MaxWires}
      ELSE {[i \in 1 .. n |-> m] : n \in 1 .. MaxWires, m \in 1 .. MaxSimd}

Init ==
    /\ kind \in Kinds
    /\ simd \in Shapes(kind)
    /\ reg = RegisteredBits(kind, simd)
    /\ msg = NoMsg
    /\ out = NoVal

(* The sender's online step: Append the lanes of its shares and send.     *)
Send ==
    /\ msg = NoMsg
    /\ msg' = Packed("sender")
    /\ UNCHANGED <<kind, simd, reg, out>>

\* Wire i of a gate with uniform num_simd s: Subset(i*s, (i+1)*s), 0-based i.
UniformSliceInclusiveEnd(v, i, s) == Subset(v, (i - 1) * s, i * s - 1)

UniformSlice(v, i, s) == Subset(v, (i - 1) * s, i * s)

\* Output gate: slices by a bit_offset advanced by each wire's num_simd.
OffsetSlices(v, s) ==
    LET offset[i \in 1 .. Len(s)] == IF i = 1 THEN 0 ELSE offset[i - 1] + s[i - 1]
    IN  [i \in 1 .. Len(s) |-> Subset(v, offset[i], offset[i] + s[i])]

(* The receiver's online step, once its future holds the frame.           *)
InputReceive ==
    /\ kind = "Input" /\ msg # NoMsg /\ out = NoVal
    /\ out' = [i \in 1 .. Len(simd) |-> UniformSlice(msg, i, simd[1])]
    /\ UNCHANGED <<kind, simd, reg, msg>>

ANDReceive ==
    /\ kind = "AND" /\ msg # NoMsg /\ out = NoVal
    /\ LET deltaY == XorInto(Packed("receiver"), msg)
       IN  out' = [i \in 1 .. Len(simd) |-> UniformSlice(deltaY, i, simd[1])]
    /\ UNCHANGED <<kind, simd, reg, msg>>

OutputReceive ==
    /\ kind = "Output" /\ msg # NoMsg /\ out = NoVal
    /\ LET mine == XorInto(Packed("receiver"), msg)
           pubs == Shares("public")
       IN  out' = [i \in 1 .. Len(simd) |-> XorInto(OffsetSlices(mine, simd)[i], pubs[i])]
    /\ UNCHANGED <<kind, simd, reg, msg>>

Next == Send \/ InputReceive \/ ANDReceive \/ OutputReceive

Spec == Init /\ [][Next]_vars

-----------------------------------------------------------------------------
(* Properties *)

\* What wire i lane j must hold: the XOR of the contributions it combines.
Expected(k) ==
    LET srcs == CASE k = "Input"  -> {"sender"}
                  [] k = "AND"    -> {"sender", "receiver"}
                  [] k = "Output" -> {"sender", "receiver", "public"}
    IN  [i \in 1 .. Len(simd) |->
           [j \in 1 .. simd[i] |-> {<<src, i, j>> : src \in srcs}]]

(* Every lane the receiver's gate assigns to its output wire i, position  *)
(* j, is exactly lane j of wire i of the shares it combines: the per-wire *)
(* Subset offsets of the Input receiver, the AND online step and the      *)
(* Output gate agree with the order the sender Appended in, for every     *)
(* number of wires and SIMD width.                                         *)
LanesRoundTrip == out # NoVal => out = Expected(kind)

(* The frame the sender's Append loop produces has exactly the num_bits   *)
(* the receiver's constructor registered its future with (count_bits,     *)
(* num_wires * num_simd), so the registry can match frame and future.     *)
FrameFitsFuture == msg # NoMsg => Len(msg) = reg

=============================================================================
