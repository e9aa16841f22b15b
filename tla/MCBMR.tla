------------------------------- MODULE MCBMR -------------------------------
(* Circuits for three parties.                                             *)
EXTENDS BMR, TLC

\* Spec 8 scenario 4: AND(AND(P0, P1), P2), revealed to ALL.
MCGatesAnd == 1 .. 6
MCKindAnd == (4 :> "AND") @@ (5 :> "AND") @@ (6 :> "Output")
               @@ [g \in 1 .. 3 |-> "Input"]
MCInAAnd == (4 :> 1) @@ (5 :> 4) @@ (6 :> 5) @@ [g \in 1 .. 6 |-> 0]
MCInBAnd == (4 :> 2) @@ (5 :> 3) @@ [g \in 1 .. 6 |-> 0]
MCOwnerAnd == (1 :> 0) @@ (2 :> 1) @@ (3 :> 2) @@ (6 :> ALL) @@ [g \in 1 .. 6 |-> 0]

\* AND(NOT(a XOR b), a) revealed to party 2 only.
MCGatesFree == 1 .. 6
MCKindFree == (3 :> "XOR") @@ (4 :> "INV") @@ (5 :> "AND") @@ (6 :> "Output")
                @@ [g \in 1 .. 2 |-> "Input"]
MCInAFree == (3 :> 1) @@ (4 :> 3) @@ (5 :> 4) @@ (6 :> 5) @@ [g \in 1 .. 6 |-> 0]
MCInBFree == (3 :> 2) @@ (5 :> 1) @@ [g \in 1 .. 6 |-> 0]
MCOwnerFree == (1 :> 0) @@ (2 :> 1) @@ (6 :> 2) @@ [g \in 1 .. 6 |-> 0]

=============================================================================
