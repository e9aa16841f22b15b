----------------------------- MODULE BeavyGates -----------------------------
(***************************************************************************)
(* The BEAVY Boolean gate engine of MOTION2NX (src/unnamed/part_000,       *)
(* namespace MOTION::proto::beavy) for two parties evaluating one circuit. *)
(*                                                                         *)
(* Every gate of every party runs a setup task and an online task.  Each   *)
(* task is a sequence of atomic steps separated by the suspension points   *)
(* of the code (wait_setup, wait_online, future.get(), OT ComputeOutputs). *)
(* A wire is one SIMD lane of one wire: the per-wire loops and the         *)
(* flattening of BitVectors are data layout and are abstracted away.       *)
(*                                                                         *)
(* A read of a wire field the code performs without first waiting on the *)
(* wire's readiness event (a data race) returns any bit when the field is  *)
(* not final yet.                                                          *)
(***************************************************************************)
EXTENDS Integers, FiniteSets

CONSTANTS
    Parties,          \* the two parties {0, 1}
    Gates,            \* gate ids, a finite set of naturals
    Kind,             \* Kind[g] \in GateKinds
    InA, InB,         \* input gates of a gate (InB only for binary gates)
    Owner,            \* input owner of an Input gate, output owner of an Output gate
    ALL,              \* ALL_PARTIES: the output goes to every party
    NoVal,            \* an empty future / unset value
    Scheduler,        \* "fibers" or "sequential"
    OnlineAfterSetup, \* no online task starts before every setup task ended
    Rand              \* the bits BitVector::Random and the PRG may return

GateKinds == {"Input", "Output", "XOR", "INV", "AND"}

ASSUME Parties = {0, 1}
ASSUME Gates \subseteq Nat /\ Kind \in [Gates -> GateKinds]
ASSUME \A g \in Gates : Kind[g] \in {"Output", "XOR", "INV", "AND"} => InA[g] \in Gates /\ InA[g] < g
ASSUME \A g \in Gates : Kind[g] \in {"XOR", "AND"} => InB[g] \in Gates /\ InB[g] < g
ASSUME \A g \in Gates : Kind[g] \in {"Input", "Output"} => Owner[g] \in Parties \cup {ALL}
ASSUME \A g \in Gates : Kind[g] = "Input" => Owner[g] \in Parties
ASSUME Scheduler \in {"fibers", "sequential"} /\ OnlineAfterSetup \in BOOLEAN
ASSUME Rand \subseteq BOOLEAN /\ Rand # {}

VARIABLES
    pc,       \* pc[p][g]: where the setup/online task of gate g of party p is
    sec,      \* sec[p][w]: secret share delta of wire w at party p
    pub,      \* pub[p][w]: public share Delta of wire w at party p
    sready,   \* sready[p][w]: setup_ready fired
    oready,   \* oready[p][w]: online_ready fired
    dA, dB,   \* AND gate members delta_a_share_, delta_b_share_
    dY,       \* AND gate member Delta_y_share_
    pad,      \* pad[p][g]: output of the XCOT-bit sender of party p for AND gate g
    mySec,    \* Output gate local my_secret_share, kept across future.get()
    result,   \* result[p][g]: value set into the output promise of Output gate g
    tape,     \* tape[g]: PRG bits for input gate g, shared by owner and peer
    inval,    \* inval[g]: the clear input given to the input gate's owner
    net,      \* bit messages in transit
    box,      \* box[p][q][g]: message from q for gate g received by p
    stray     \* messages that arrived with no registered future

vars == <<pc, sec, pub, sready, oready, dA, dB, dY, pad, mySec, result,
          tape, inval, net, box, stray>>

Other(p) == 1 - p
InputGates == {g \in Gates : Kind[g] = "Input"}
a \oplus b == a # b

Msg == [from : Parties, to : Parties, gate : Gates, bits : BOOLEAN]

-----------------------------------------------------------------------------
(* Provider context and circuit structure.                                 *)

\* BEAVYProvider::is_my_job: exactly one party is designated per gate.
IsMyJob(p, g) == g % 2 = p

ForwardedMutant(p, g) == Kind[g] = "INV" /\ IsMyJob(p, g)

\* An INV gate of the party that is not designated re-uses its input wire
\* as output wire (BasicBooleanBEAVYUnaryGate with forward = TRUE).
Forwarded(p, g) == Kind[g] = "INV" /\ ~IsMyJob(p, g)

\* The wire object that is the output of gate g at party p.
RECURSIVE Wire(_, _)
Wire(p, g) == IF Forwarded(p, g) THEN Wire(p, InA[g]) ELSE g

\* The futures a party registers in its gate constructors, as <<sender, gate>>:
\* an input receiver awaits the input owner's Delta,
RegisteredInputs(p) ==
    {<<Owner[g], g>> : g \in {h \in Gates : Kind[h] = "Input" /\ Owner[h] # p}}

\* an output recipient awaits the delta of every other party,
RegisteredOutputs(p) ==
    {<<q, g>> : q \in Parties \ {p},
                g \in {h \in Gates : Kind[h] = "Output" /\ Owner[h] \in {ALL, p}}}

\* an AND gate awaits the peer's Delta_y share.
RegisteredAnd(p) == {<<Other(p), g>> : g \in {h \in Gates : Kind[h] = "AND"}}

Registered(p) == RegisteredInputs(p) \cup RegisteredOutputs(p) \cup RegisteredAnd(p)

\* What a read of a wire field returns: the value once the field is final,
\* any bit while its producer may still be writing it.
SecSeen(p, w) == IF sready[p][w] THEN {sec[p][w]} ELSE BOOLEAN
PubSeen(p, w) == IF oready[p][w] THEN {pub[p][w]} ELSE BOOLEAN

-----------------------------------------------------------------------------
(* The task scheduler.                                                     *)

SetupStages  == {"setup", "and_inputs", "and_ot"}
OnlineStages == {"online", "and_recv", "out_recv"}
Stages == SetupStages \cup OnlineStages \cup {"done"}

SetupDone(p, h) == pc[p][h] \notin SetupStages

\* A step of gate g's setup task may run.  Under the sequential scheduler a
\* party runs one gate task at a time in gate-id order.
MaySetup(p, g) ==
    \/ Scheduler = "fibers"
    \/ \A h \in Gates : h < g =>
          IF OnlineAfterSetup THEN SetupDone(p, h) ELSE pc[p][h] = "done"

\* A step of gate g's online task may run.
MayOnline(p, g) ==
    /\ OnlineAfterSetup => \A h \in Gates : SetupDone(p, h)
    /\ \/ Scheduler = "fibers"
       \/ \A h \in Gates : h < g => pc[p][h] = "done"

Step(p, g, from, to) ==
    /\ pc[p][g] = from
    /\ IF from \in SetupStages THEN MaySetup(p, g) ELSE MayOnline(p, g)
    /\ pc' = [pc EXCEPT ![p][g] = to]

\* broadcast_bits_message / send_bits_message.
Send(p, tos, g, bits) ==
    net' = net \cup {[from |-> p, to |-> q, gate |-> g, bits |-> bits] : q \in tos}

-----------------------------------------------------------------------------
(* Messaging substrate: a frame resolves the future registered for it.     *)

Deliver(m) ==
    /\ m \in net
    /\ net' = net \ {m}
    /\ IF <<m.from, m.gate>> \in Registered(m.to) /\ box[m.to][m.from][m.gate] = NoVal
         THEN /\ box' = [box EXCEPT ![m.to][m.from][m.gate] = m.bits]
              /\ UNCHANGED stray
         ELSE /\ stray' = stray \cup {m}
              /\ UNCHANGED box
    /\ UNCHANGED <<pc, sec, pub, sready, oready, dA, dB, dY, pad, mySec,
                   result, tape, inval>>

-----------------------------------------------------------------------------
Init ==
    /\ pc = [p \in Parties |-> [g \in Gates |-> "setup"]]
    /\ sec = [p \in Parties |-> [g \in Gates |-> FALSE]]
    /\ pub = [p \in Parties |-> [g \in Gates |-> FALSE]]
    /\ sready = [p \in Parties |-> [g \in Gates |-> FALSE]]
    /\ oready = [p \in Parties |-> [g \in Gates |-> FALSE]]
    /\ dA = [p \in Parties |-> [g \in Gates |-> FALSE]]
    /\ dB = [p \in Parties |-> [g \in Gates |-> FALSE]]
    /\ dY = [p \in Parties |-> [g \in Gates |-> FALSE]]
    /\ pad = [p \in Parties |-> [g \in Gates |-> FALSE]]
    /\ mySec = [p \in Parties |-> [g \in Gates |-> FALSE]]
    /\ result = [p \in Parties |-> [g \in Gates |-> NoVal]]
    /\ tape \in [InputGates -> Rand]
    /\ inval = [g \in Gates |-> NoVal]
    /\ net = {}
    /\ box = [p \in Parties |-> [q \in Parties |-> [g \in Gates |-> NoVal]]]
    /\ stray = {}

-----------------------------------------------------------------------------
(* Input gates: BooleanBEAVYInputGateSender / BooleanBEAVYInputGateReceiver *)

\* Sender setup: random delta; Delta starts as delta XOR the bits of "my
\* randomness generator" toward the peer at this input id.
InputSenderSetup(p, g) ==
    /\ Kind[g] = "Input" /\ Owner[g] = p
    /\ Step(p, g, "setup", "online")
    /\ \E d \in Rand :
          /\ sec' = [sec EXCEPT ![p][g] = d]
          /\ pub' = [pub EXCEPT ![p][g] = d \oplus tape[g]]
    /\ sready' = [sready EXCEPT ![p][g] = TRUE]
    /\ UNCHANGED <<oready, dA, dB, dY, pad, mySec, result, tape, inval, net, box, stray>>

\* Sender online: wait for the clear input, Delta ^= input, broadcast Delta.
InputSenderOnline(p, g) ==
    /\ Kind[g] = "Input" /\ Owner[g] = p
    /\ Step(p, g, "online", "done")
    /\ \E x \in BOOLEAN :
          /\ inval' = [inval EXCEPT ![g] = x]
          /\ pub' = [pub EXCEPT ![p][g] = @ \oplus x]
          /\ Send(p, Parties \ {p}, g, pub[p][g] \oplus x)
    /\ oready' = [oready EXCEPT ![p][g] = TRUE]
    /\ UNCHANGED <<sec, sready, dA, dB, dY, pad, mySec, result, tape, box, stray>>

\* Receiver setup: delta is drawn from "their randomness generator" of the
\* input owner at the same input id, which cancels the owner's contribution.
InputReceiverSetup(p, g) ==
    /\ Kind[g] = "Input" /\ Owner[g] # p
    /\ Step(p, g, "setup", "online")
    /\ sec' = [sec EXCEPT ![p][g] = tape[g]]
    /\ sready' = [sready EXCEPT ![p][g] = TRUE]
    /\ UNCHANGED <<pub, oready, dA, dB, dY, pad, mySec, result, tape, inval, net, box, stray>>

\* Receiver online: await the owner's Delta and take it.
InputReceiverOnline(p, g) ==
    /\ Kind[g] = "Input" /\ Owner[g] # p
    /\ Step(p, g, "online", "done")
    /\ box[p][Owner[g]][g] # NoVal
    /\ pub' = [pub EXCEPT ![p][g] = box[p][Owner[g]][g]]
    /\ oready' = [oready EXCEPT ![p][g] = TRUE]
    /\ UNCHANGED <<sec, sready, dA, dB, dY, pad, mySec, result, tape, inval, net, box, stray>>

-----------------------------------------------------------------------------
(* BooleanBEAVYOutputGate                                                   *)

IsOutputReceiver(p, g) == Owner[g] \in {ALL, p}

SendsShareAlways(p, g) == TRUE

\* Only a party that is not the sole recipient sends its delta.
SendsShare(p, g) == Owner[g] # p

ShareRecipientsNoAll(p, g) == {Owner[g]}

\* ALL_PARTIES is a broadcast, any other owner a point-to-point send.
ShareRecipients(p, g) == IF Owner[g] = ALL THEN Parties \ {p} ELSE {Owner[g]}

OutputPeersAll(p) == Parties

\* The parties whose share futures the recipient awaits (it skips itself).
OutputPeers(p) == Parties \ {p}

OutputSetup(p, g) ==
    /\ Kind[g] = "Output"
    /\ Step(p, g, "setup", "online")
    /\ UNCHANGED <<sec, pub, sready, oready, dA, dB, dY, pad, mySec, result, tape, inval, net, box, stray>>

\* Collect my delta of the input wire (read without wait_setup) and send it.
OutputSend(p, g) ==
    /\ Kind[g] = "Output"
    /\ Step(p, g, "online", IF IsOutputReceiver(p, g) THEN "out_recv" ELSE "done")
    /\ \E s \in SecSeen(p, Wire(p, InA[g])) :
          /\ mySec' = [mySec EXCEPT ![p][g] = s]
          /\ IF SendsShare(p, g) THEN Send(p, ShareRecipients(p, g), g, s)
                                 ELSE UNCHANGED net
    /\ UNCHANGED <<sec, pub, sready, oready, dA, dB, dY, pad, result, tape, inval, box, stray>>

OutputValueNoPublic(p, g, others, v) == mySec[p][g] \oplus others

\* delta of every party XORed, then Delta of the input wire.
OutputValue(p, g, others, v) == mySec[p][g] \oplus others \oplus v

\* Await the peers' deltas, reconstruct with Delta (read without
\* wait_online) and fulfil the output promise.
OutputReceive(p, g) ==
    /\ Kind[g] = "Output"
    /\ Step(p, g, "out_recv", "done")
    /\ \A q \in OutputPeers(p) : box[p][q][g] # NoVal
    /\ LET others == Cardinality({q \in OutputPeers(p) : box[p][q][g]}) % 2 = 1
       IN  \E v \in PubSeen(p, Wire(p, InA[g])) :
              result' = [result EXCEPT ![p][g] = OutputValue(p, g, others, v)]
    /\ UNCHANGED <<sec, pub, sready, oready, dA, dB, dY, pad, mySec, tape, inval, net, box, stray>>

-----------------------------------------------------------------------------
(* BooleanBEAVYINVGate and BooleanBEAVYXORGate: local, no communication.   *)

\* The designated party complements delta; the other one returns at once,
\* its output being the input wire itself.
INVSetup(p, g) ==
    /\ Kind[g] = "INV"
    /\ Step(p, g, "setup", "online")
    /\ \/ /\ ~IsMyJob(p, g)
          /\ UNCHANGED <<sec, sready>>
       \/ /\ IsMyJob(p, g)
          /\ sready[p][Wire(p, InA[g])]
          /\ sec' = [sec EXCEPT ![p][Wire(p, g)] = ~sec[p][Wire(p, InA[g])]]
          /\ sready' = [sready EXCEPT ![p][Wire(p, g)] = TRUE]
    /\ UNCHANGED <<pub, oready, dA, dB, dY, pad, mySec, result, tape, inval, net, box, stray>>

\* The designated party copies Delta.
INVOnline(p, g) ==
    /\ Kind[g] = "INV"
    /\ Step(p, g, "online", "done")
    /\ \/ /\ ~IsMyJob(p, g)
          /\ UNCHANGED <<pub, oready>>
       \/ /\ IsMyJob(p, g)
          /\ oready[p][Wire(p, InA[g])]
          /\ pub' = [pub EXCEPT ![p][Wire(p, g)] = pub[p][Wire(p, InA[g])]]
          /\ oready' = [oready EXCEPT ![p][Wire(p, g)] = TRUE]
    /\ UNCHANGED <<sec, sready, dA, dB, dY, pad, mySec, result, tape, inval, net, box, stray>>

XORSetup(p, g) ==
    LET wa == Wire(p, InA[g])
        wb == Wire(p, InB[g])
    IN  /\ Kind[g] = "XOR"
        /\ Step(p, g, "setup", "online")
        /\ sready[p][wa] /\ sready[p][wb]
        /\ sec' = [sec EXCEPT ![p][g] = sec[p][wa] \oplus sec[p][wb]]
        /\ sready' = [sready EXCEPT ![p][g] = TRUE]
        /\ UNCHANGED <<pub, oready, dA, dB, dY, pad, mySec, result, tape, inval, net, box, stray>>

XOROnline(p, g) ==
    LET wa == Wire(p, InA[g])
        wb == Wire(p, InB[g])
    IN  /\ Kind[g] = "XOR"
        /\ Step(p, g, "online", "done")
        /\ oready[p][wa] /\ oready[p][wb]
        /\ pub' = [pub EXCEPT ![p][g] = pub[p][wa] \oplus pub[p][wb]]
        /\ oready' = [oready EXCEPT ![p][g] = TRUE]
        /\ UNCHANGED <<sec, sready, dA, dB, dY, pad, mySec, result, tape, inval, net, box, stray>>

-----------------------------------------------------------------------------
(* BooleanBEAVYANDGate.  The binary-gate constructor takes (in_b, in_a), so *)
(* inputs_a_ is the circuit's second operand InB and inputs_b_ is InA.     *)

WireA(p, g) == Wire(p, InB[g])
WireB(p, g) == Wire(p, InA[g])

\* Setup, first step: fresh delta_c on the output, which is then setup-ready.
AndSetupOutputs(p, g) ==
    /\ Kind[g] = "AND"
    /\ Step(p, g, "setup", "and_inputs")
    /\ \E d \in Rand : sec' = [sec EXCEPT ![p][g] = d]
    /\ sready' = [sready EXCEPT ![p][g] = TRUE]
    /\ UNCHANGED <<pub, oready, dA, dB, dY, pad, mySec, result, tape, inval, net, box, stray>>

\* Setup, second step: wait for the inputs' setup, flatten delta_a, delta_b,
\* delta_c; SetChoices(delta_a), SendCorrections, SetCorrelations(delta_b),
\* SendMessages (the XCOT sender draws its random output pad).
AndSetupOT(p, g) ==
    /\ Kind[g] = "AND"
    /\ Step(p, g, "and_inputs", "and_ot")
    /\ sready[p][WireA(p, g)] /\ sready[p][WireB(p, g)]
    /\ dA' = [dA EXCEPT ![p][g] = sec[p][WireA(p, g)]]
    /\ dB' = [dB EXCEPT ![p][g] = sec[p][WireB(p, g)]]
    /\ dY' = [dY EXCEPT ![p][g] = sec[p][g]]
    /\ \E r \in Rand : pad' = [pad EXCEPT ![p][g] = r]
    /\ UNCHANGED <<sec, pub, sready, oready, mySec, result, tape, inval, net, box, stray>>

\* XCOT-bit: the peer's receiver got its corrections and this party's
\* sender its messages once the peer has passed its SendMessages.
OTPeerSent(p, g) == pc[Other(p)][g] \notin {"setup", "and_inputs"}

\* Outputs of my XCOT-bit sender and receiver: the sender gets a random pad,
\* the receiver the peer sender's pad XOR choice AND correlation.
OTSenderOut(p, g) == pad[p][g]
OTReceiverOut(p, g) == pad[Other(p)][g] \oplus (dA[p][g] /\ dB[Other(p)][g])

AndCrossTermNoReceiver(p, g) == (dA[p][g] /\ dB[p][g]) \oplus OTSenderOut(p, g)

\* delta_ab_share: local product XOR both OT outputs.
AndCrossTerm(p, g) ==
    (dA[p][g] /\ dB[p][g]) \oplus OTSenderOut(p, g) \oplus OTReceiverOut(p, g)

\* Setup, third step: ComputeOutputs on both OTs, Delta_y_share ^= delta_ab.
AndSetupFinish(p, g) ==
    /\ Kind[g] = "AND"
    /\ Step(p, g, "and_ot", "online")
    /\ OTPeerSent(p, g)
    /\ dY' = [dY EXCEPT ![p][g] = @ \oplus AndCrossTerm(p, g)]
    /\ UNCHANGED <<sec, pub, sready, oready, dA, dB, pad, mySec, result, tape, inval, net, box, stray>>

AndJobTermAlways(p, g, va, vb) == va /\ vb

\* Delta_a AND Delta_b is added by the designated party only.
AndJobTerm(p, g, va, vb) == IsMyJob(p, g) /\ va /\ vb

\* Online, first step: read Delta_a, Delta_b (without wait_online), add the
\* public terms to Delta_y_share and broadcast it.
AndOnlineSend(p, g) ==
    /\ Kind[g] = "AND"
    /\ Step(p, g, "online", "and_recv")
    /\ \E va \in PubSeen(p, WireA(p, g)), vb \in PubSeen(p, WireB(p, g)) :
          LET y == dY[p][g] \oplus (va /\ dB[p][g]) \oplus (vb /\ dA[p][g])
                   \oplus AndJobTerm(p, g, va, vb)
          IN  /\ dY' = [dY EXCEPT ![p][g] = y]
              /\ Send(p, Parties \ {p}, g, y)
    /\ UNCHANGED <<sec, pub, sready, oready, dA, dB, pad, mySec, result, tape, inval, box, stray>>

AndPublicNoPeer(p, g) == dY[p][g]

\* Delta_y: my share XOR the peer's share.
AndPublic(p, g) == dY[p][g] \oplus box[p][Other(p)][g]

\* Online, second step: await the peer's share and publish Delta_y.
AndOnlineFinish(p, g) ==
    /\ Kind[g] = "AND"
    /\ Step(p, g, "and_recv", "done")
    /\ box[p][Other(p)][g] # NoVal
    /\ dY' = [dY EXCEPT ![p][g] = AndPublic(p, g)]
    /\ pub' = [pub EXCEPT ![p][g] = AndPublic(p, g)]
    /\ oready' = [oready EXCEPT ![p][g] = TRUE]
    /\ UNCHANGED <<sec, sready, dA, dB, pad, mySec, result, tape, inval, net, box, stray>>

-----------------------------------------------------------------------------
(* The specification.                                                      *)

\* One step of the setup or online task of gate g of party p.
GateStep(p, g) ==
    \/ InputSenderSetup(p, g)   \/ InputSenderOnline(p, g)
    \/ InputReceiverSetup(p, g) \/ InputReceiverOnline(p, g)
    \/ OutputSetup(p, g) \/ OutputSend(p, g) \/ OutputReceive(p, g)
    \/ INVSetup(p, g) \/ INVOnline(p, g)
    \/ XORSetup(p, g) \/ XOROnline(p, g)
    \/ AndSetupOutputs(p, g) \/ AndSetupOT(p, g) \/ AndSetupFinish(p, g)
    \/ AndOnlineSend(p, g) \/ AndOnlineFinish(p, g)

Next ==
    \/ \E p \in Parties, g \in Gates : GateStep(p, g)
    \/ \E m \in net : Deliver(m)

\* The fiber pool runs a runnable task and the transport delivers a frame
\* whenever one can: no party aborts and no channel is lost.  As every task
\* takes finitely many steps and every frame is sent once, weak fairness of
\* Next already makes every runnable task and every frame progress.
Fairness == WF_vars(Next)

Spec == Init /\ [][Next]_vars /\ Fairness

-----------------------------------------------------------------------------
(* Properties.                                                             *)

TypeOK ==
    /\ pc \in [Parties -> [Gates -> Stages]]
    /\ sec \in [Parties -> [Gates -> BOOLEAN]]
    /\ pub \in [Parties -> [Gates -> BOOLEAN]]
    /\ sready \in [Parties -> [Gates -> BOOLEAN]]
    /\ oready \in [Parties -> [Gates -> BOOLEAN]]
    /\ dA \in [Parties -> [Gates -> BOOLEAN]]
    /\ dB \in [Parties -> [Gates -> BOOLEAN]]
    /\ dY \in [Parties -> [Gates -> BOOLEAN]]
    /\ pad \in [Parties -> [Gates -> BOOLEAN]]
    /\ mySec \in [Parties -> [Gates -> BOOLEAN]]
    /\ result \in [Parties -> [Gates -> BOOLEAN \cup {NoVal}]]
    /\ tape \in [InputGates -> Rand]
    /\ inval \in [Gates -> BOOLEAN \cup {NoVal}]
    /\ net \subseteq Msg
    /\ box \in [Parties -> [Parties -> [Gates -> BOOLEAN \cup {NoVal}]]]
    /\ stray \subseteq Msg

OutputGates == {g \in Gates : Kind[g] = "Output"}
AllDone == \A p \in Parties, g \in Gates : pc[p][g] = "done"
Supplied == \A i \in InputGates : inval[i] # NoVal

\* The clear value a wire carries: the circuit evaluated on the inputs.
RECURSIVE Clear(_)
Clear(g) ==
    CASE Kind[g] = "Input"  -> inval[g]
      [] Kind[g] = "XOR"    -> Clear(InA[g]) \oplus Clear(InB[g])
      [] Kind[g] = "AND"    -> Clear(InA[g]) /\ Clear(InB[g])
      [] Kind[g] = "INV"    -> ~Clear(InA[g])
      [] Kind[g] = "Output" -> Clear(InA[g])

\* Wire readiness is one-shot (spec 3, 4.1): once setup_ready (online_ready)
\* has fired on a wire, no gate of that party writes its delta (Delta) again.
\* Broken by a gate writing a wire it does not own, e.g. a shared INV wire.
WireFinal ==
    [][\A p \in Parties, w \in Gates :
         /\ sready[p][w] => sready'[p][w] /\ sec'[p][w] = sec[p][w]
         /\ oready[p][w] => oready'[p][w] /\ pub'[p][w] = pub[p][w]]_vars

\* Both parties hold the same public share Delta on every wire that is
\* online-ready at both: the AND reconstruction, the Input broadcast and the
\* forwarding of INV wires agree across parties.
PublicShareAgreement ==
    \A g \in Gates \ OutputGates :
        (oready[0][Wire(0, g)] /\ oready[1][Wire(1, g)])
            => pub[0][Wire(0, g)] = pub[1][Wire(1, g)]

\* After both parties ran the setup of an AND gate (and before online
\* starts), the XOR of their Delta_y_share is delta_c XOR delta_a * delta_b:
\* the two XCOT-bit instances produce exactly the cross terms.
SetupCorrelation ==
    \A g \in Gates :
        (Kind[g] = "AND" /\ \A p \in Parties : pc[p][g] = "online")
            => dY[0][g] \oplus dY[1][g]
                 = (sec[0][g] \oplus sec[1][g])
                   \oplus ((dA[0][g] \oplus dA[1][g]) /\ (dB[0][g] \oplus dB[1][g]))

\* Every frame that arrives matches a future registered by a gate
\* constructor, at most once (spec 4.5, 8 "message accounting").
NoStrayMessage == stray = {}

\* Correctness of clear reconstruction (spec 8): on every wire final at both
\* parties, Delta XOR delta_0 XOR delta_1 is the circuit's clear value.
ShareCorrectness ==
    \A g \in Gates \ OutputGates :
        (Supplied /\ \A p \in Parties : oready[p][Wire(p, g)])
            => pub[0][Wire(0, g)] \oplus sec[0][Wire(0, g)] \oplus sec[1][Wire(1, g)]
                 = Clear(g)

\* An output promise is only fulfilled with the clear value of the output
\* wire, after every input was given (spec 8 end-to-end scenarios).
OutputCorrect ==
    \A p \in Parties, g \in OutputGates :
        result[p][g] # NoVal => Supplied /\ result[p][g] = Clear(InA[g])

\* Every task of both parties ends, every frame is delivered and every
\* registered future is resolved: no gate waits forever.
Termination ==
    <>(/\ AllDone
       /\ net = {}
       /\ \A p \in Parties : \A r \in Registered(p) : box[p][r[1]][r[2]] # NoVal)

-----------------------------------------------------------------------------
(* Refinement of the ideal functionality.  The mapping is the identity on  *)
(* the clear inputs and the output promises; every share, event, frame and *)
(* task is internal to the implementation.                                 *)

Abstract == INSTANCE BeavyAbstract WITH inval <- inval, result <- result

\* The gate engine implements BeavyAbstract: InputSenderOnline is the only
\* step that supplies an input, OutputReceive the only step that fulfils a
\* promise, each at most once, with the circuit's value of inputs that all
\* exist; and every input and every recipient's output eventually happen.
ImplementsAbstract == Abstract!Spec

=============================================================================
