-------------------------------- MODULE BMR --------------------------------
(***************************************************************************)
(* The BMR gates of MOTION::Gates::BMR (src/src/motioncore/gate/           *)
(* bmr_gate.h) evaluated by N parties.  The header fixes what each gate    *)
(* waits for: an input gate registers one future for the owner's public    *)
(* values and one future per party for keys; an AND gate OT vectors toward *)
(* every party and one future per party for garbled rows; an output gate   *)
(* delegates to a GMW output gate; XOR and INV gates own no futures.  The  *)
(* method bodies are not in the repository: their steps follow spec 4.4.   *)
(*                                                                         *)
(* Data abstraction.  lam[p][w] is party p's share of the permutation bit  *)
(* of wire w, pubv[p][w] the public value p holds, and key[p][w][i] tells  *)
(* which of party i's two keys k^0/k^1 of wire w party p holds.  The OTs   *)
(* and the garbling are ideal: the garbled table every party assembles is  *)
(* the function the rows encrypt, and a row opens only under the keys of  *)
(* its index.  Each party runs its gates one at a time in gate-id order.   *)
(***************************************************************************)
EXTENDS Naturals, FiniteSets

CONSTANTS
    N,            \* number of parties
    Gates,        \* gate ids, positive naturals
    Kind, InA, InB, Owner,
    ALL,          \* output to every party
    NoVal,        \* unresolved future / no value yet
    RandParties   \* parties whose random permutation shares range over BOOLEAN

Parties == 0 .. N - 1
Done == 0

ASSUME N >= 2 /\ Done \notin Gates /\ RandParties \subseteq Parties
ASSUME \A g \in Gates : Kind[g] \in {"Output", "XOR", "INV", "AND"} => InA[g] < g
ASSUME \A g \in Gates : Kind[g] \in {"XOR", "AND"} => InB[g] < g

VARIABLES
    at, st,   \* the gate party p evaluates and the stage it is in
    lam,      \* lam[p][w]: p's permutation share of wire w
    pubv,     \* pubv[p][w]: the public value of wire w at p
    key,      \* key[p][w][i]: the index of party i's key of w that p holds
    posted,   \* posted[p]: AND gates whose OTs p has started
    table,    \* table[p][g]: the garbled table of AND gate g assembled at p
    inval,    \* inval[g]: the clear input given to input gate g's owner
    result,   \* result[p][g]: the output of Output gate g at p
    net,      \* frames in transit
    inbox,    \* inbox[p]: frames that resolved one of p's futures
    stray     \* frames that met no registered future

vars == <<at, st, lam, pubv, key, posted, table, inval, result, net, inbox, stray>>

Others(p) == Parties \ {p}
a \oplus b == a # b
InputGates == {g \in Gates : Kind[g] = "Input"}
AndGates == {g \in Gates : Kind[g] = "AND"}
OutputGates == {g \in Gates : Kind[g] = "Output"}

\* XOR of the shares of all parties.
Lam(w) == Cardinality({i \in Parties : lam[i][w]}) % 2 = 1

IsMyOutputOwnerOnly(p, g) == Owner[g] = p

\* is_my_output_ of BMROutputGate, with output_owner defaulting to ALL.
IsMyOutput(p, g) == Owner[g] \in {p, ALL}

\* Futures of the BMRInputGate constructor: received_public_values_ from the
\* owner, received_public_keys_ from every other party.
RegisteredInput(p) ==
    {<<Owner[g], g, "pub">> : g \in {h \in InputGates : Owner[h] # p}}
    \cup {<<i, g, "key">> : g \in InputGates, i \in Others(p)}

\* Futures of the BMRANDGate constructor: received_garbled_rows_ per party.
RegisteredAnd(p) == {<<i, g, "row">> : g \in AndGates, i \in Others(p)}

\* Futures of the GMW output gate out_ a BMROutputGate delegates to.
RegisteredOutput(p) ==
    {<<i, g, "out">> : g \in {h \in OutputGates : IsMyOutput(p, h)}, i \in Others(p)}

Registered(p) == RegisteredInput(p) \cup RegisteredAnd(p) \cup RegisteredOutput(p)

Got(p, q, g, k) == {m \in inbox[p] : m.from = q /\ m.gate = g /\ m.kind = k}
Received(p, q, g, k) == Got(p, q, g, k) # {}
Val(p, q, g, k) == (CHOOSE m \in Got(p, q, g, k) : TRUE).val

Send(p, tos, g, k, v) ==
    net' = net \cup {[from |-> p, to |-> q, gate |-> g, kind |-> k, val |-> v] : q \in tos}

\* The gate after g in gate-id order.
Succ(g) ==
    LET later == {h \in Gates : h > g}
    IN  IF later = {} THEN Done ELSE CHOOSE h \in later : \A k \in later : h <= k

Goto(p, s) == st' = [st EXCEPT ![p] = s] /\ UNCHANGED at
Finish(p) ==
    /\ at' = [at EXCEPT ![p] = Succ(at[p])]
    /\ st' = [st EXCEPT ![p] = "setup"]

\* The random streams are fixed per behaviour: a party's share of an input
\* or AND wire is what its generator yields; XOR/INV shares are derived.
Init ==
    /\ at = [p \in Parties |-> CHOOSE g \in Gates : \A h \in Gates : g <= h]
    /\ st = [p \in Parties |-> "setup"]
    /\ lam \in {l \in [Parties -> [Gates -> BOOLEAN]] :
                  \A p \in Parties, w \in Gates :
                      l[p][w] => p \in RandParties /\ Kind[w] \in {"Input", "AND"}}
    /\ pubv = [p \in Parties |-> [w \in Gates |-> NoVal]]
    /\ key = [p \in Parties |-> [w \in Gates |-> [i \in Parties |-> NoVal]]]
    /\ posted = [p \in Parties |-> {}]
    /\ table = [p \in Parties |-> [g \in Gates |-> NoVal]]
    /\ inval = [g \in Gates |-> NoVal]
    /\ result = [p \in Parties |-> [g \in Gates |-> NoVal]]
    /\ net = {} /\ inbox = [p \in Parties |-> {}] /\ stray = {}

\* A frame resolves a registered, still empty future, or is stray.
Deliver(m) ==
    /\ net' = net \ {m}
    /\ IF <<m.from, m.gate, m.kind>> \in Registered(m.to)
          /\ ~Received(m.to, m.from, m.gate, m.kind)
         THEN inbox' = [inbox EXCEPT ![m.to] = @ \cup {m}] /\ UNCHANGED stray
         ELSE stray' = stray \cup {m} /\ UNCHANGED inbox
    /\ UNCHANGED <<at, st, lam, pubv, key, posted, table, inval, result>>

-----------------------------------------------------------------------------
(* Input gate.  Setup: the owner's share and keys, the others' shares from *)
(* their generators toward the owner.  Online: the owner broadcasts the    *)
(* public value x XOR lambda and its key for it; every other party awaits  *)
(* the public value and forwards its own key for that choice; all await    *)
(* the keys of every other party.                                          *)

InputSetup(p, g) ==
    /\ at[p] = g /\ Kind[g] = "Input" /\ st[p] = "setup"
    /\ Goto(p, "online")
    /\ UNCHANGED <<lam, pubv, key, posted, table, inval, result, net, inbox, stray>>

InputOnlineOwner(p, g) ==
    /\ at[p] = g /\ Kind[g] = "Input" /\ st[p] = "online" /\ Owner[g] = p
    /\ \E x \in BOOLEAN :
         LET v == x \oplus Lam(g) IN
         /\ inval' = [inval EXCEPT ![g] = x]
         /\ pubv' = [pubv EXCEPT ![p][g] = v]
         /\ key' = [key EXCEPT ![p][g][p] = v]
         /\ net' = net \cup {[from |-> p, to |-> q, gate |-> g, kind |-> k, val |-> v] :
                               q \in Others(p), k \in {"pub", "key"}}
    /\ Goto(p, "keys")
    /\ UNCHANGED <<lam, posted, table, result, inbox, stray>>

\* The key a non-owner forwards for the public value v it received.
KeyChoice(p, g, v) == v

InputOnlineOther(p, g) ==
    /\ at[p] = g /\ Kind[g] = "Input" /\ st[p] = "online" /\ Owner[g] # p
    /\ Received(p, Owner[g], g, "pub")
    /\ LET v == Val(p, Owner[g], g, "pub") IN
         /\ pubv' = [pubv EXCEPT ![p][g] = v]
         /\ key' = [key EXCEPT ![p][g][p] = KeyChoice(p, g, v)]
         /\ Send(p, Others(p), g, "key", KeyChoice(p, g, v))
    /\ Goto(p, "keys")
    /\ UNCHANGED <<lam, posted, table, inval, result, inbox, stray>>

InputKeys(p, g) ==
    /\ at[p] = g /\ Kind[g] = "Input" /\ st[p] = "keys"
    /\ \A q \in Others(p) : Received(p, q, g, "key")
    /\ key' = [key EXCEPT ![p][g] =
                 [i \in Parties |-> IF i = p THEN @[p] ELSE Val(p, i, g, "key")]]
    /\ Finish(p)
    /\ UNCHANGED <<lam, pubv, posted, table, inval, result, net, inbox, stray>>

(* XOR (free-XOR) and INV: local, no communication in either phase.        *)

XORSetup(p, g) ==
    /\ at[p] = g /\ Kind[g] = "XOR" /\ st[p] = "setup"
    /\ lam' = [lam EXCEPT ![p][g] = lam[p][InA[g]] \oplus lam[p][InB[g]]]
    /\ Goto(p, "online")
    /\ UNCHANGED <<pubv, key, posted, table, inval, result, net, inbox, stray>>

XOROnline(p, g) ==
    /\ at[p] = g /\ Kind[g] = "XOR" /\ st[p] = "online"
    /\ pubv' = [pubv EXCEPT ![p][g] = pubv[p][InA[g]] \oplus pubv[p][InB[g]]]
    /\ key' = [key EXCEPT ![p][g] =
                 [i \in Parties |-> key[p][InA[g]][i] \oplus key[p][InB[g]][i]]]
    /\ Finish(p)
    /\ UNCHANGED <<lam, posted, table, inval, result, net, inbox, stray>>

INVSetup(p, g) ==
    /\ at[p] = g /\ Kind[g] = "INV" /\ st[p] = "setup"
    /\ lam' = [lam EXCEPT ![p][g] = lam[p][InA[g]]]
    /\ Goto(p, "online")
    /\ UNCHANGED <<pubv, key, posted, table, inval, result, net, inbox, stray>>

\* The key roles swap: holding k^b of the input is holding k^(1-b) of the output.
INVOnline(p, g) ==
    /\ at[p] = g /\ Kind[g] = "INV" /\ st[p] = "online"
    /\ pubv' = [pubv EXCEPT ![p][g] = ~pubv[p][InA[g]]]
    /\ key' = [key EXCEPT ![p][g] = [i \in Parties |-> ~key[p][InA[g]][i]]]
    /\ Finish(p)
    /\ UNCHANGED <<lam, posted, table, inval, result, net, inbox, stray>>

(* AND gate.  Setup: GenerateRandomness, the 1-bit and kappa-bit OTs with  *)
(* every other party (both directions), then the party's share of the four *)
(* garbled rows is broadcast and the rows of every other party awaited.    *)
(* Online: the row indexed by the two public values is decrypted with the  *)
(* keys held; no message (the header declares no online future).           *)

AndSetupOT(p, g) ==
    /\ at[p] = g /\ Kind[g] = "AND" /\ st[p] = "setup"
    /\ posted' = [posted EXCEPT ![p] = @ \cup {g}]
    /\ Goto(p, "rows")
    /\ UNCHANGED <<lam, pubv, key, table, inval, result, net, inbox, stray>>

\* The parties the garbled-row share is sent to.
RowPeersNoLast(p) == {q \in Others(p) : q < N - 1}

RowPeers(p) == Others(p)

\* The OT outputs exist once every peer has run its side of the OTs.
AndSetupRows(p, g) ==
    /\ at[p] = g /\ Kind[g] = "AND" /\ st[p] = "rows"
    /\ \A q \in Others(p) : g \in posted[q]
    /\ Send(p, RowPeers(p), g, "row", TRUE)
    /\ Goto(p, "table")
    /\ UNCHANGED <<lam, pubv, key, posted, table, inval, result, inbox, stray>>

\* The table the XOR of all parties' row shares forms: row (x, y) carries
\* the public value of the output for public input values x and y.
GarbledTable(g) ==
    [r \in BOOLEAN \X BOOLEAN |->
        ((r[1] \oplus Lam(InA[g])) /\ (r[2] \oplus Lam(InB[g]))) \oplus Lam(g)]

AndSetupTable(p, g) ==
    /\ at[p] = g /\ Kind[g] = "AND" /\ st[p] = "table"
    /\ \A q \in Others(p) : Received(p, q, g, "row")
    /\ table' = [table EXCEPT ![p][g] = GarbledTable(g)]
    /\ Goto(p, "online")
    /\ UNCHANGED <<lam, pubv, key, posted, inval, result, net, inbox, stray>>

\* Every party's keys of both inputs are those of the row's index.
RowOpens(p, g, x, y) ==
    \A i \in Parties : key[p][InA[g]][i] = x /\ key[p][InB[g]][i] = y

AndOnline(p, g) ==
    /\ at[p] = g /\ Kind[g] = "AND" /\ st[p] = "online"
    /\ LET x == pubv[p][InA[g]]
           y == pubv[p][InB[g]]
       IN  IF RowOpens(p, g, x, y)
             THEN /\ pubv' = [pubv EXCEPT ![p][g] = table[p][g][<<x, y>>]]
                  /\ key' = [key EXCEPT ![p][g] = [i \in Parties |-> table[p][g][<<x, y>>]]]
             ELSE \E v \in BOOLEAN, k \in [Parties -> BOOLEAN] :
                    pubv' = [pubv EXCEPT ![p][g] = v] /\ key' = [key EXCEPT ![p][g] = k]
    /\ Finish(p)
    /\ UNCHANGED <<lam, posted, table, inval, result, net, inbox, stray>>

(* Output gate: the GMW output over the permutation shares.  Every party   *)
(* sends its share of the input wire's lambda to each recipient; a         *)
(* recipient adds all shares to the public value.                          *)

OutputSetup(p, g) ==
    /\ at[p] = g /\ Kind[g] = "Output" /\ st[p] = "setup"
    /\ Goto(p, "online")
    /\ UNCHANGED <<lam, pubv, key, posted, table, inval, result, net, inbox, stray>>

OutRecipientsAll(p, g) == Others(p)

OutRecipients(p, g) == {q \in Others(p) : IsMyOutput(q, g)}

OutputOnline(p, g) ==
    /\ at[p] = g /\ Kind[g] = "Output" /\ st[p] = "online"
    /\ Send(p, OutRecipients(p, g), g, "out", lam[p][InA[g]])
    /\ IF IsMyOutput(p, g) THEN Goto(p, "recv") ELSE Finish(p)
    /\ UNCHANGED <<lam, pubv, key, posted, table, inval, result, inbox, stray>>

OutputValue(p, g) ==
    pubv[p][InA[g]] \oplus lam[p][InA[g]]
      \oplus (Cardinality({q \in Others(p) : Val(p, q, g, "out")}) % 2 = 1)

OutputReceive(p, g) ==
    /\ at[p] = g /\ Kind[g] = "Output" /\ st[p] = "recv"
    /\ \A q \in Others(p) : Received(p, q, g, "out")
    /\ result' = [result EXCEPT ![p][g] = OutputValue(p, g)]
    /\ Finish(p)
    /\ UNCHANGED <<lam, pubv, key, posted, table, inval, net, inbox, stray>>

GateStep(p, g) ==
    \/ InputSetup(p, g) \/ InputOnlineOwner(p, g) \/ InputOnlineOther(p, g)
    \/ InputKeys(p, g)
    \/ XORSetup(p, g) \/ XOROnline(p, g) \/ INVSetup(p, g) \/ INVOnline(p, g)
    \/ AndSetupOT(p, g) \/ AndSetupRows(p, g) \/ AndSetupTable(p, g) \/ AndOnline(p, g)
    \/ OutputSetup(p, g) \/ OutputOnline(p, g) \/ OutputReceive(p, g)

Next ==
    \/ \E p \in Parties, g \in Gates : GateStep(p, g)
    \/ \E m \in net : Deliver(m)

\* Every party keeps running its gate tasks and every frame is delivered.
Spec == Init /\ [][Next]_vars /\ WF_vars(Next)

-----------------------------------------------------------------------------
(* Properties *)

\* Message accounting (spec 4.5): every frame meets a future a gate
\* constructor registered, and no future receives two frames.
NoStrayMessage == stray = {}

\* Every party finishes every gate, every frame is delivered and every
\* future the header's gates register is resolved: the OT posting and the
\* row exchange of AND gates never leave a party waiting.
Termination ==
    <>(/\ \A p \in Parties : at[p] = Done
       /\ net = {}
       /\ \A p \in Parties : \A r \in Registered(p) : Received(p, r[1], r[2], r[3]))

-----------------------------------------------------------------------------
(* Refinement: the BMR evaluation implements the same ideal circuit        *)
(* functionality as BEAVY.  inval and result are the functionality's own   *)
(* variables; the keys, tables, lambdas and frames are hidden.             *)

Abstract == INSTANCE BeavyAbstract WITH Parties <- Parties, inval <- inval, result <- result

\* Every behaviour of the BMR gates is one of the ideal functionality: an
\* owner's input is fixed once, every output recipient's promise is set
\* exactly once, only after every input exists, to the plain circuit's
\* value, and every recipient eventually gets it.  Broken by an input gate
\* forwarding keys that open no garbled row, or a party never finishing.
ImplementsAbstract == Abstract!Spec

=============================================================================
