----------------------------- MODULE MCBackend -----------------------------
(* Three parties; party 2 runs with share_inputs_ off, so both branches of *)
(* the seed selection in SendHelloToOthers occur.                          *)
EXTENDS Backend, TLC

MCShareInputs == [p \in Parties |-> p # 2]

=============================================================================
