-------------------------- MODULE MCClientSession --------------------------
(* Small instances of ClientSession for TLC. *)
EXTENDS ClientSession, TLC

Swapped == Permutations(Users)

PerApp == [x \in Apps |-> IF x = "console" THEN 2 ELSE 1]

BothApps == {"console", "dashboard"}
=============================================================================
