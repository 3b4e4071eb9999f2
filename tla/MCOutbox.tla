------------------------------ MODULE MCOutbox ------------------------------
(* Small instances of Outbox for TLC. *)
EXTENDS Outbox

ThreeMessages == {1, 2, 3}
SecondIsPoison == {2}
=============================================================================
