--------------------------- MODULE BeavyAbstract ---------------------------
(***************************************************************************)
(* What a circuit evaluation promises its users (spec 1, 8), whichever     *)
(* protocol runs it (BeavyGates and BMR both refine it): an ideal          *)
(* functionality with no shares, no messages and no phases.  Each          *)
(* input owner supplies its clear input once; every recipient of an        *)
(* Output gate eventually has its output promise fulfilled, exactly once,  *)
(* with the circuit evaluated on the supplied inputs, and only once every  *)
(* input exists.                                                           *)
(***************************************************************************)
EXTENDS FiniteSets

CONSTANTS Parties, Gates, Kind, InA, InB, Owner, ALL, NoVal

VARIABLES
    inval,   \* inval[g]: the clear input of Input gate g, or NoVal
    result   \* result[p][g]: what party p's promise of Output gate g holds

avars == <<inval, result>>

InputGates == {g \in Gates : Kind[g] = "Input"}
OutputGates == {g \in Gates : Kind[g] = "Output"}

\* Party p is told the value of Output gate g.
Recipient(p, g) == Owner[g] \in {p, ALL}

\* The plain Boolean circuit evaluated on the supplied inputs.
RECURSIVE CircuitValue(_)
CircuitValue(g) ==
    CASE Kind[g] = "Input"  -> inval[g]
      [] Kind[g] = "XOR"    -> CircuitValue(InA[g]) # CircuitValue(InB[g])
      [] Kind[g] = "AND"    -> CircuitValue(InA[g]) /\ CircuitValue(InB[g])
      [] Kind[g] = "INV"    -> ~CircuitValue(InA[g])
      [] Kind[g] = "Output" -> CircuitValue(InA[g])

Init ==
    /\ inval = [g \in Gates |-> NoVal]
    /\ result = [p \in Parties |-> [g \in Gates |-> NoVal]]

ProvideInput(g) ==
    /\ inval[g] = NoVal
    /\ \E x \in BOOLEAN : inval' = [inval EXCEPT ![g] = x]
    /\ UNCHANGED result

Reveal(p, g) ==
    /\ Recipient(p, g)
    /\ result[p][g] = NoVal
    /\ \A i \in InputGates : inval[i] # NoVal
    /\ result' = [result EXCEPT ![p][g] = CircuitValue(g)]
    /\ UNCHANGED inval

Next ==
    \/ \E g \in InputGates : ProvideInput(g)
    \/ \E p \in Parties, g \in OutputGates : Reveal(p, g)

Spec ==
    /\ Init
    /\ [][Next]_avars
    /\ \A g \in InputGates : WF_avars(ProvideInput(g))
    /\ \A p \in Parties, g \in OutputGates : WF_avars(Reveal(p, g))

=============================================================================
