----------------------------- MODULE MCSessions -----------------------------
(***************************************************************************)
(* The two sides of a session on the server, for TLC: the rows and their   *)
(* rotation, and the per-request check with its caches.  Each has a state  *)
(* of its own, so one side moves in a behaviour and the other stays as it  *)
(* starts.                                                                 *)
(***************************************************************************)
EXTENDS SessionRotation, SessionLiveness, TLC

VARIABLE side

SessionsInit == side \in {"rows", "check"} /\ Init /\ CheckInit

SessionsNext ==
    /\ UNCHANGED side
    /\ \/ side = "rows" /\ Next /\ UNCHANGED checkVars
       \/ side = "check" /\ CheckNext /\ UNCHANGED vars

\* Requests are interchangeable, and so are sessions, lookups and instances.
Interchangeable == UNION {Permutations(S) : S \in {Requests, Sessions, Lookups, Instances}}
=============================================================================
