----------------------------- MODULE MCEventing -----------------------------
(* Small instances of Eventing for TLC. *)
EXTENDS Eventing

NoPoison == {}
=============================================================================
