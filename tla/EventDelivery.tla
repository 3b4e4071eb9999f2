---------------------------- MODULE EventDelivery ----------------------------
(***************************************************************************)
(* What the eventing block promises its producers, IOutboxWriter's         *)
(* "durable, at-least-once delivery": an accepted event stays owed until   *)
(* every handler has completed it or it is parked as a dead letter, from   *)
(* where it can be put back; an event that is settled is never owed again, *)
(* and only a settled one may be forgotten.                                *)
(***************************************************************************)
CONSTANTS Messages, Handlers

VARIABLES
    state,   \* what is known of each event
    done     \* the handlers that have completed each event

deliveryVars == <<state, done>>

Init ==
    /\ state = [m \in Messages |-> "unsent"]
    /\ done = [m \in Messages |-> {}]

Moves(S, from, to) ==
    /\ S # {} /\ \A m \in S : state[m] = from
    /\ state' = [m \in Messages |-> IF m \in S THEN to ELSE state[m]]
    /\ UNCHANGED done

Accept(m) == Moves({m}, "unsent", "owed")

Complete(m, h) ==
    /\ state[m] = "owed"
    /\ done' = [done EXCEPT ![m] = @ \cup {h}]
    /\ UNCHANGED state

Settle(m) == done[m] = Handlers /\ Moves({m}, "owed", "settled")
Park(m) == Moves({m}, "owed", "parked")
PutBack(S) == Moves(S, "parked", "owed")
Forget(S) == Moves(S, "settled", "forgotten")

Next ==
    \/ \E m \in Messages : Accept(m) \/ Settle(m) \/ Park(m)
    \/ \E m \in Messages, h \in Handlers : Complete(m, h)
    \/ \E S \in SUBSET Messages : PutBack(S) \/ Forget(S)

\* An owed event does not stay owed.
Spec ==
    /\ Init /\ [][Next]_deliveryVars
    /\ \A m \in Messages : WF_deliveryVars(Settle(m) \/ Park(m))
=============================================================================
