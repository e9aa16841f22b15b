--------------------------- MODULE MCBeavyGates ----------------------------
(* Circuits for model checking BeavyGates.  Gate ids are assigned in       *)
(* construction order, so every gate's inputs have smaller ids.            *)
EXTENDS BeavyGates, TLC

\* out = (NOT (a AND b)) XOR a, revealed to both parties; a from party 0,
\* b from party 1.  The AND gate's designated party is 1, the INV's is 0.
MCGates == 1..6
MCKind  == [g \in MCGates |-> CASE g \in {1, 2} -> "Input"
                                [] g = 3 -> "AND"
                                [] g = 4 -> "INV"
                                [] g = 5 -> "XOR"
                                [] g = 6 -> "Output"]
MCInA   == (3 :> 2) @@ (4 :> 3) @@ (5 :> 4) @@ (6 :> 5) @@ [g \in MCGates |-> 0]
MCInB   == (3 :> 1) @@ (5 :> 1) @@ [g \in MCGates |-> 0]
MCOwner == (1 :> 0) @@ (2 :> 1) @@ (6 :> ALL) @@ [g \in MCGates |-> 0]

\* NOT (a AND b) revealed to party 1 only (spec 8, scenario 5).  The INV
\* gate's designated party is 0, so party 1 forwards the AND output wire.
MCGatesOwned == 1..5
MCKindOwned  == [g \in MCGatesOwned |-> CASE g \in {1, 2} -> "Input"
                                          [] g = 3 -> "AND"
                                          [] g = 4 -> "INV"
                                          [] g = 5 -> "Output"]
MCInAOwned   == (3 :> 1) @@ (4 :> 3) @@ (5 :> 4) @@ [g \in MCGatesOwned |-> 0]
MCInBOwned   == (3 :> 2) @@ [g \in MCGatesOwned |-> 0]
MCOwnerOwned == (1 :> 0) @@ (2 :> 1) @@ (5 :> 1) @@ [g \in MCGatesOwned |-> 0]

\* a AND b revealed to both parties (spec 8, scenario 1).
MCGatesAnd == 1..4
MCKindAnd  == [g \in MCGatesAnd |-> CASE g \in {1, 2} -> "Input"
                                      [] g = 3 -> "AND"
                                      [] g = 4 -> "Output"]
MCInAAnd   == (3 :> 1) @@ (4 :> 3) @@ [g \in MCGatesAnd |-> 0]
MCInBAnd   == (3 :> 2) @@ [g \in MCGatesAnd |-> 0]
MCOwnerAnd == (1 :> 0) @@ (2 :> 1) @@ (4 :> ALL) @@ [g \in MCGatesAnd |-> 0]
=============================================================================
