---------------------------- MODULE MCIdempotency ----------------------------
(* Small instances of Idempotency for TLC. *)
EXTENDS Idempotency

\* One request comes to process "b", the others to "a".
OneElsewhere == [r \in Requests |-> IF r = "b1" THEN "b" ELSE "a"]
=============================================================================
