------------------------------ MODULE Backend ------------------------------
(***************************************************************************)
(* ABYN::ABYNBackend (src/src/abyncore/abynparty/abynbackend.cpp) run by   *)
(* every party of a session: creation of the per-party randomness          *)
(* generators, communication handlers, the hello handshake with the PRG    *)
(* seed exchange, input gate registration, the evaluation entry points,    *)
(* and the termination of communication.                                   *)
(*                                                                         *)
(* The PartyCommunicationHandler (not under src/) is modelled from spec 6: *)
(* a per-peer FIFO channel, a receive thread that resolves the hello and   *)
(* the end of the connection, and VerifyHelloMessage, which waits for the  *)
(* peer's hello, checks the reciprocal view and installs the seed as       *)
(* "their generator toward me".  The caller (the party object, not under   *)
(* src/) drives one backend through the order of spec 6: handlers, hello,  *)
(* verification, evaluation, termination, wait for the connection end.    *)
(***************************************************************************)
EXTENDS Naturals, Sequences, FiniteSets

CONSTANTS
    N,             \* abyn_config_->GetNumOfParties()
    Seeds,         \* values InitializeMyRandomnessGenerator may draw
    NoSeed,        \* the empty seed vector / a null seed pointer
    Versions,      \* ABYN::ABYN_VERSION of each party's build
    ShareInputs,   \* share_inputs_ of each party's backend
    MaxInputGates  \* bound on RegisterInputGate calls per party

Parties == 0 .. N - 1

ASSUME /\ N >= 2
       /\ NoSeed \notin Seeds
       /\ ShareInputs \in [Parties -> BOOLEAN]
       /\ MaxInputGates \in Nat

VARIABLES
    phase,      \* how far the caller has driven party p's backend
    version,    \* the ABYN_VERSION party p's build carries
    mySeed,     \* mySeed[p][q]: seed of p's generator toward party q
    theirSeed,  \* theirSeed[p][q]: seed p installed for q's generator toward p
    handlers,   \* parties q with a non-null communication_handlers_[q] at p
    chan,       \* chan[p][q]: frames p sent to q, in flight (FIFO)
    helloIn,    \* helloIn[p][q]: q's hello as received by p's handler
    endIn,      \* endIn[p][q]: p's handler has seen q terminate
    verifyOk,   \* the `success` VerifyHelloMessages computed at p
    inputGates  \* Len(input_gates_) at p

vars == <<phase, version, mySeed, theirSeed, handlers, chan, helloIn, endIn,
          verifyOk, inputGates>>

NoMsg == [kind |-> "none"]

Hello(from, to, seed, v) ==
    [kind |-> "hello", from |-> from, to |-> to, seed |-> seed, version |-> v]

Terminate == [kind |-> "end"]

(* Constructor: every configured peer party gets a freshly seeded "my"     *)
(* generator; there is no party object (nor generator) for my own id.      *)
Init ==
    /\ phase = [p \in Parties |-> "constructed"]
    /\ version \in [Parties -> Versions]
    /\ mySeed \in {s \in [Parties -> [Parties -> Seeds \cup {NoSeed}]] :
                     \A p, q \in Parties : (s[p][q] = NoSeed) <=> (p = q)}
    /\ theirSeed = [p \in Parties |-> [q \in Parties |-> NoSeed]]
    /\ handlers = [p \in Parties |-> {}]
    /\ chan = [p \in Parties |-> [q \in Parties |-> <<>>]]
    /\ helloIn = [p \in Parties |-> [q \in Parties |-> NoMsg]]
    /\ endIn = [p \in Parties |-> [q \in Parties |-> FALSE]]
    /\ verifyOk = [p \in Parties |-> TRUE]
    /\ inputGates = [p \in Parties |-> 0]

(* InitializeCommunicationHandlers: one handler per party but myself.      *)
InitializeCommunicationHandlers(p) ==
    /\ phase[p] = "constructed"
    /\ handlers' = [handlers EXCEPT ![p] = {i \in Parties : i # p}]
    /\ phase' = [phase EXCEPT ![p] = "handlers"]
    /\ UNCHANGED <<version, mySeed, theirSeed, chan, helloIn, endIn,
                   verifyOk, inputGates>>

(* RegisterInputGate: input_gates_.push_back, while the circuit is built.  *)
RegisterInputGate(p) ==
    /\ phase[p] \in {"constructed", "handlers", "hello_sent", "verified"}
    /\ inputGates[p] < MaxInputGates
    /\ inputGates' = [inputGates EXCEPT ![p] = @ + 1]
    /\ UNCHANGED <<phase, version, mySeed, theirSeed, handlers, chan, helloIn,
                   endIn, verifyOk>>

(* The destinations of the SendHelloToOthers loop (line 44 skips my id).   *)
HelloDestinations(p) == {d \in Parties : d # p}

(* The seed put into the hello to d: my generator toward d, when sharing.  *)
HelloSeedNextPeer(p, d) == IF ShareInputs[p] THEN mySeed[p][(d + 1) % N] ELSE NoSeed

HelloSeed(p, d) == IF ShareInputs[p] THEN mySeed[p][d] ELSE NoSeed

(* SendHelloToOthers: for every destination in increasing id order, Send   *)
(* the hello.  Send throws on its own id, which ends the loop after the    *)
(* sends to the smaller ids.                                               *)
SendHelloToOthers(p) ==
    LET sent == IF p \in HelloDestinations(p)
                  THEN {d \in HelloDestinations(p) : d < p}
                  ELSE HelloDestinations(p)
    IN  /\ phase[p] = "handlers"
        /\ chan' = [chan EXCEPT ![p] =
                      [q \in Parties |->
                         IF q \in sent
                           THEN Append(chan[p][q], Hello(p, q, HelloSeed(p, q), version[p]))
                           ELSE chan[p][q]]]
        /\ phase' = [phase EXCEPT ![p] =
                       IF p \in HelloDestinations(p) THEN "failed" ELSE "hello_sent"]
        /\ UNCHANGED <<version, mySeed, theirSeed, handlers, helloIn, endIn,
                       verifyOk, inputGates>>

(* The receive thread of p's handler for q takes the next frame of q.      *)
Receive(p, q) ==
    /\ q \in handlers[p]
    /\ chan[q][p] # <<>>
    /\ LET m == Head(chan[q][p]) IN
         /\ helloIn' = IF m.kind = "hello"
                         THEN [helloIn EXCEPT ![p][q] = m] ELSE helloIn
         /\ endIn' = IF m.kind = "end"
                       THEN [endIn EXCEPT ![p][q] = TRUE] ELSE endIn
    /\ chan' = [chan EXCEPT ![q][p] = Tail(@)]
    /\ UNCHANGED <<phase, version, mySeed, theirSeed, handlers, verifyOk,
                   inputGates>>

(* PartyCommunicationHandler::VerifyHelloMessage of p's handler for q.     *)
HelloConsistent(p, q) ==
    LET h == helloIn[p][q]
    IN  h.from = q /\ h.to = p /\ h.version = version[p]

(* VerifyHelloMessages: success &= every handler's verification; each     *)
(* handler waits for its hello and installs the seed it carries.  A        *)
(* failure is only logged (line 102): the function returns normally.       *)
VerifyHelloMessages(p) ==
    /\ phase[p] = "hello_sent"
    /\ \A q \in handlers[p] : helloIn[p][q] # NoMsg
    /\ verifyOk' = [verifyOk EXCEPT ![p] =
                      \A q \in handlers[p] : HelloConsistent(p, q)]
    /\ theirSeed' = [theirSeed EXCEPT ![p] =
                       [q \in Parties |->
                          IF q \in handlers[p] /\ helloIn[p][q].seed # NoSeed
                            THEN helloIn[p][q].seed ELSE theirSeed[p][q]]]
    /\ phase' = [phase EXCEPT ![p] = "verified"]
    /\ UNCHANGED <<version, mySeed, handlers, chan, helloIn, endIn, inputGates>>

(* EvaluateSequential / EvaluateParallel: TODO bodies that only read the   *)
(* input gates' wires; the evaluation starts whatever verification found.  *)
Evaluate(p) ==
    /\ phase[p] = "verified"
    /\ phase' = [phase EXCEPT ![p] = "evaluated"]
    /\ UNCHANGED <<version, mySeed, theirSeed, handlers, chan, helloIn, endIn,
                   verifyOk, inputGates>>

(* The handlers TerminateCommunication visits: every non-null entry.       *)
TermTargetsSkipLast(p) == {q \in handlers[p] : q < N - 1}

TermTargets(p) == handlers[p]

(* TerminateCommunication: each handler ends its side of the connection.   *)
TerminateCommunication(p) ==
    /\ phase[p] = "evaluated"
    /\ chan' = [chan EXCEPT ![p] =
                  [q \in Parties |->
                     IF q \in TermTargets(p) THEN Append(chan[p][q], Terminate)
                                             ELSE chan[p][q]]]
    /\ phase' = [phase EXCEPT ![p] = "terminated"]
    /\ UNCHANGED <<version, mySeed, theirSeed, handlers, helloIn, endIn,
                   verifyOk, inputGates>>

(* WaitForConnectionEnd: blocks on every handler until its peer ended.     *)
WaitForConnectionEnd(p) ==
    /\ phase[p] = "terminated"
    /\ \A q \in handlers[p] : endIn[p][q]
    /\ phase' = [phase EXCEPT ![p] = "ended"]
    /\ UNCHANGED <<version, mySeed, theirSeed, handlers, chan, helloIn, endIn,
                   verifyOk, inputGates>>

Next ==
    \E p \in Parties :
        \/ InitializeCommunicationHandlers(p)
        \/ RegisterInputGate(p)
        \/ SendHelloToOthers(p)
        \/ VerifyHelloMessages(p)
        \/ Evaluate(p)
        \/ TerminateCommunication(p)
        \/ WaitForConnectionEnd(p)
        \/ \E q \in Parties : Receive(p, q)

(* Every backend step and every frame delivery that is enabled is taken:   *)
(* each call returns once what it waits for has arrived, and the channels  *)
(* are reliable (spec 6).                                                  *)
Spec == Init /\ [][Next]_vars /\ WF_vars(Next)

-----------------------------------------------------------------------------
(* Properties *)

AfterVerification == {"verified", "evaluated", "terminated", "ended"}

(* Spec 6: "Failure to verify aborts the session".  No party evaluates     *)
(* (or goes on to terminate normally) after its VerifyHelloMessages found  *)
(* an inconsistent hello; checked with builds of differing versions, where *)
(* it asks whether the failure the code only logs stops the evaluation.    *)
EvaluateOnlyAfterVerifiedHello ==
    \A p \in Parties :
        phase[p] \in {"evaluated", "terminated", "ended"} => verifyOk[p]

(* The random-tape correlation of spec 3: once p has verified, for every   *)
(* peer q sharing inputs p's "their generator" for q carries the seed of   *)
(* q's "my generator toward p", and carries none when q does not share.    *)
SeedAgreement ==
    \A p, q \in Parties :
        (phase[p] \in AfterVerification /\ q # p) =>
            theirSeed[p][q] = IF ShareInputs[q] THEN mySeed[q][p] ELSE NoSeed

(* Every backend returns from WaitForConnectionEnd, with every frame       *)
(* (hellos and connection ends) consumed by its receiver.                  *)
SessionEnds ==
    <>(/\ \A p \in Parties : phase[p] = "ended"
       /\ \A p, q \in Parties : chan[p][q] = <<>>)

=============================================================================
