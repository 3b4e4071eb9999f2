--------------------------- MODULE SessionLiveness ---------------------------
(***************************************************************************)
(* The per-request session check: SessionLiveness caches, on each instance *)
(* of the API, whether a session is live, and the instance that revokes a  *)
(* session puts a marker in its own cache after the save.  One session;    *)
(* MarkRevoked and the end of a lookup hold the gate, so each is one step. *)
(* Deadlines are kept as the ticks left until they pass.                   *)
(***************************************************************************)
EXTENDS Integers

CONSTANTS
    Instances,   \* instances of the API
    Lookups,     \* lookups in flight at once
    CacheFor,    \* CacheDuration, in ticks
    MaxLatency,  \* bound: ticks between a lookup's read and its store
    RowLifetime  \* RefreshTokenDays, in ticks

\* What the bounds and the parameters have to be.
Parameters ==
    /\ "none" \notin Instances
    /\ CacheFor \in Nat \ {0} /\ MaxLatency \in Nat /\ RowLifetime \in Nat \ {0}

ASSUME CheckAssumption == Parameters

VARIABLES
    row,      \* the UserSessions row
    cache,    \* each instance's entry for the session
    lookup,   \* lookups that have read the row and not yet stored the answer
    marking,  \* instances whose revocation is saved and not yet marked
    marked,   \* observation: instances that marked it and have not dropped the
              \* marker early with a lookup in flight since
    since     \* observation: ticks since the revocation and since the last renewal

checkVars == <<row, cache, lookup, marking, marked, since>>

Bound == CacheFor + MaxLatency + 1
State == [revoked : BOOLEAN, left : 0..RowLifetime]
NoEntry == [state |-> [revoked |-> FALSE, left |-> 0], fresh |-> 0]
RevokedMarker == [revoked |-> TRUE, left |-> 0]
NoLookup == [at |-> "none", read |-> RevokedMarker, age |-> 0]

Live(state) == ~state.revoked /\ state.left > 0
Cached(i) == cache[i].fresh > 0

CheckInit ==
    /\ row = [revoked |-> FALSE, left |-> RowLifetime]
    /\ cache = [i \in Instances |-> NoEntry]
    /\ lookup = [l \in Lookups |-> NoLookup]
    /\ marking = {} /\ marked = {}
    /\ since = [revoked |-> 0, renewed |-> 0]

-----------------------------------------------------------------------------
(* IsLiveAsync.  A cached answer changes nothing; a miss reads the row. *)

Store(i, state) == cache' = [cache EXCEPT ![i] = [state |-> state, fresh |-> CacheFor]]

LookupReads(l, i) ==
    /\ lookup[l].at = "none"
    /\ ~Cached(i)
    /\ lookup' = [lookup EXCEPT ![l] = [at |-> i, read |-> row, age |-> 0]]
    /\ UNCHANGED <<row, cache, marking, marked, since>>

\* Mutant: what a lookup read always goes in.
NeverOverruled(i) == FALSE

\* A revoked entry found under the gate wins over what this lookup read.
Overruled(i) == Cached(i) /\ cache[i].state.revoked

LookupStores(l) ==
    LET i == lookup[l].at IN
    /\ i \in Instances
    /\ IF Overruled(i) THEN UNCHANGED cache ELSE Store(i, lookup[l].read)
    /\ lookup' = [lookup EXCEPT ![l] = NoLookup]
    /\ UNCHANGED <<row, marking, marked, since>>

LookupFails(l) ==
    /\ lookup[l].at \in Instances
    /\ lookup' = [lookup EXCEPT ![l] = NoLookup]
    /\ UNCHANGED <<row, cache, marking, marked, since>>

-----------------------------------------------------------------------------
(* SessionService: the save, then MarkRevoked.  A caller that sees an     *)
(* exception from a save that committed never marks.                       *)

RevokeCommits(i, heard) ==
    /\ ~row.revoked
    /\ row' = [row EXCEPT !.revoked = TRUE]
    /\ marking' = IF heard THEN marking \cup {i} ELSE marking
    /\ UNCHANGED <<cache, lookup, marked, since>>

MarkRevoked(i) ==
    /\ i \in marking
    /\ Store(i, RevokedMarker)
    /\ marking' = marking \ {i}
    /\ marked' = marked \cup {i}
    /\ UNCHANGED <<row, lookup, since>>

\* A rotation extends the session.
Renew ==
    /\ Live(row)
    /\ row' = [row EXCEPT !.left = RowLifetime]
    /\ since' = [since EXCEPT !.renewed = 0]
    /\ UNCHANGED <<cache, lookup, marking, marked>>

-----------------------------------------------------------------------------
(* The process and the clock. *)

Restart(i) ==
    /\ cache' = [cache EXCEPT ![i] = NoEntry]
    /\ lookup' = [l \in Lookups |-> IF lookup[l].at = i THEN NoLookup ELSE lookup[l]]
    /\ marking' = marking \ {i}
    /\ UNCHANGED <<row, marked, since>>

\* MemoryCache at its size limit drops entries early.
Evict(i) ==
    /\ Cached(i)
    /\ cache' = [cache EXCEPT ![i] = NoEntry]
    /\ marked' = IF \E l \in Lookups : lookup[l].at = i THEN marked \ {i} ELSE marked
    /\ UNCHANGED <<row, lookup, marking, since>>

Less(n) == IF n = 0 THEN 0 ELSE n - 1
More(n) == IF n = Bound THEN n ELSE n + 1

CheckTick ==
    /\ \A l \in Lookups : lookup[l].at = "none" \/ lookup[l].age < MaxLatency
    /\ marking = {}   \* MarkRevoked follows its save with nothing awaited between
    /\ row' = [row EXCEPT !.left = Less(@)]
    /\ cache' = [i \in Instances |->
                   IF cache[i].fresh <= 1 THEN NoEntry
                   ELSE [state |-> [cache[i].state EXCEPT !.left = Less(@)],
                         fresh |-> cache[i].fresh - 1]]
    /\ lookup' = [l \in Lookups |->
                    IF lookup[l].at = "none" THEN NoLookup
                    ELSE [at |-> lookup[l].at, read |-> [lookup[l].read EXCEPT !.left = Less(@)],
                          age |-> lookup[l].age + 1]]
    /\ since' = [revoked |-> IF row.revoked THEN More(since.revoked) ELSE 0,
                 renewed |-> More(since.renewed)]
    /\ UNCHANGED <<marking, marked>>

CheckNext ==
    \/ \E l \in Lookups : (\E i \in Instances : LookupReads(l, i)) \/ LookupStores(l) \/ LookupFails(l)
    \/ \E i \in Instances :
         (\E heard \in BOOLEAN : RevokeCommits(i, heard)) \/ MarkRevoked(i) \/ Restart(i) \/ Evict(i)
    \/ Renew
    \/ CheckTick

CheckSpec == CheckInit /\ [][CheckNext]_checkVars

-----------------------------------------------------------------------------
(* Properties. *)

CheckTypeOK ==
    /\ row \in State
    /\ cache \in [Instances -> [state : State, fresh : 0..CacheFor]]
    /\ lookup \in [Lookups -> [at : Instances \cup {"none"}, read : State, age : 0..MaxLatency]]
    /\ marking \subseteq Instances /\ marked \subseteq Instances
    /\ since \in [revoked : 0..Bound, renewed : 0..Bound]

\* The instance answers the next request from its cache, and lets it in.
Admits(i) == Cached(i) /\ Live(cache[i].state)

\* No instance admits a revoked session for longer than an answer is trusted
\* and a lookup takes, with no word from the instance that revoked it.
RevocationReachesEveryone ==
    \A i \in Instances : since.revoked >= CacheFor + MaxLatency => ~Admits(i)

\* On the instance that marked the revocation nothing brings the live answer
\* back - not a lookup that read the row before the revocation, not the marker's
\* expiry, and not its eviction unless a lookup is in flight then - as long as
\* no lookup takes longer than a marker lasts.
RefusedWhereRevoked == MaxLatency < CacheFor => \A i \in marked : ~Admits(i)

\* A cached answer is no later than the row: nobody admits an expired session.
ExpiredIsRefused == \A i \in Instances : Admits(i) => row.left > 0

\* A renewed session is refused, on account of the expiry it had before, for no
\* longer than an answer is trusted and a lookup takes.
RefusalLapses ==
    \A i \in Instances :
        Live(row) /\ Cached(i) /\ ~Live(cache[i].state) => since.renewed < CacheFor + MaxLatency

\* What a cached answer may do to a session, all four bounds and the types.
AdmissionIsBounded ==
    /\ CheckTypeOK
    /\ RevocationReachesEveryone /\ RefusedWhereRevoked /\ ExpiredIsRefused /\ RefusalLapses
=============================================================================
