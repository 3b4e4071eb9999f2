--------------------------- MODULE KeyedAsyncLock ---------------------------
(***************************************************************************)
(* KeyedAsyncLock of each process, for one key: the dictionary holds the   *)
(* key's entry while a request waits for it or holds it, and the entry's   *)
(* semaphore admits one.  The wait and the release of the semaphore happen *)
(* outside the lock that guards the dictionary, so they are steps of their *)
(* own; entries are objects, and a removed one may still be referenced.    *)
(***************************************************************************)
EXTENDS Naturals, FiniteSets

CONSTANTS
    Instances,   \* processes, one dictionary each
    Requests,    \* requests that carry the key, each one used again once it is over
    Home,        \* the process each of them comes to
    Entries,     \* entry objects
    None

ASSUME EnoughEntries == Cardinality(Entries) >= Cardinality(Requests) /\ None \notin Entries
ASSUME FinitelyMany == IsFiniteSet(Requests) /\ IsFiniteSet(Entries)
ASSUME HomeAssumption == Home \in [Requests -> Instances]

VARIABLES
    table,   \* each dictionary's entry for the key
    entry,   \* the entry objects: the semaphore's permits and Waiters
    turn     \* where each request stands with the lock

lockVars == <<table, entry, turn>>

Entry == [permits : 0..1, waiters : 0..Cardinality(Requests), disposed : BOOLEAN]
FreshEntry == [permits |-> 1, waiters |-> 1, disposed |-> FALSE]
Disposed == [permits |-> 1, waiters |-> 0, disposed |-> TRUE]

\* "holding" is the life of the Handle; "leaving" has yet to drop its reference.
Turn == [pc : {"out", "waiting", "holding", "leaving"}, on : Entries \cup {None}]
Out == [pc |-> "out", on |-> None]

LockInit ==
    /\ table = [i \in Instances |-> None]
    /\ entry = [e \in Entries |-> Disposed]
    /\ turn = [r \in Requests |-> Out]

Referenced(e) == (\E i \in Instances : table[i] = e) \/ (\E r \in Requests : turn[r].on = e)

-----------------------------------------------------------------------------

\* TryAcquireAsync up to its wait: find the key's entry or add one.
Enters(r) ==
    LET i == Home[r]
        known == table[i] # None
        e == IF known THEN table[i] ELSE CHOOSE f \in Entries : ~Referenced(f)
    IN
    /\ turn[r].pc = "out"
    /\ table' = [table EXCEPT ![i] = e]
    /\ entry' = IF known THEN [entry EXCEPT ![e].waiters = @ + 1] ELSE [entry EXCEPT ![e] = FreshEntry]
    /\ turn' = [turn EXCEPT ![r] = [pc |-> "waiting", on |-> e]]

Acquires(r) ==
    LET e == turn[r].on IN
    /\ turn[r].pc = "waiting"
    /\ entry[e].permits > 0
    /\ entry' = [entry EXCEPT ![e].permits = @ - 1]
    /\ turn' = [turn EXCEPT ![r].pc = "holding"]
    /\ UNCHANGED table

\* Mutant: the wait that ended is not released at all.
GivesUpForgetting(r) ==
    /\ turn[r].pc = "waiting"
    /\ turn' = [turn EXCEPT ![r] = Out]
    /\ UNCHANGED <<table, entry>>

\* The wait timed out or was cancelled.
GivesUp(r) ==
    /\ turn[r].pc = "waiting"
    /\ turn' = [turn EXCEPT ![r].pc = "leaving"]
    /\ UNCHANGED <<table, entry>>

\* Mutant: the handle is not disposed when the response cannot be sent.
ReleasesUnlessItThrows(r) ==
    /\ turn[r].pc = "holding"
    /\ \E sent \in BOOLEAN :
         entry' = IF sent THEN [entry EXCEPT ![turn[r].on].permits = @ + 1] ELSE entry
    /\ turn' = [turn EXCEPT ![r].pc = "leaving"]
    /\ UNCHANGED table

\* Dispose: the permit goes back before the dictionary is locked.
ReleasesPermit(r) ==
    /\ turn[r].pc = "holding"
    /\ entry' = [entry EXCEPT ![turn[r].on].permits = @ + 1]
    /\ turn' = [turn EXCEPT ![r].pc = "leaving"]
    /\ UNCHANGED table

LastOut(e) == entry[e].waiters = 1

Leaves(r) ==
    LET e == turn[r].on
        i == Home[r]
        removes == LastOut(e) /\ table[i] = e
    IN
    /\ turn[r].pc = "leaving"
    /\ entry' = [entry EXCEPT ![e].waiters = @ - 1, ![e].disposed = removes]
    /\ table' = IF removes THEN [table EXCEPT ![i] = None] ELSE table
    /\ turn' = [turn EXCEPT ![r] = Out]

\* The process stops and takes its dictionary with it.
LockForgets(i) ==
    LET gone == {table[i]} \cup {turn[r].on : r \in {q \in Requests : Home[q] = i}} IN
    /\ table' = [table EXCEPT ![i] = None]
    /\ turn' = [r \in Requests |-> IF Home[r] = i THEN Out ELSE turn[r]]
    /\ entry' = [e \in Entries |-> IF e \in gone THEN Disposed ELSE entry[e]]

-----------------------------------------------------------------------------
(* Properties. *)

LockTypeOK ==
    /\ table \in [Instances -> Entries \cup {None}]
    /\ entry \in [Entries -> Entry]
    /\ turn \in [Requests -> Turn]

\* Requests of one process that wait for the key, hold it or are about to leave
\* all refer to the entry in the dictionary, and nobody has disposed it: no wait
\* throws, and no newcomer gets a second semaphore for the key.
LockInUseIsLive ==
    \A r \in Requests : turn[r].pc # "out" =>
        table[Home[r]] = turn[r].on /\ ~entry[turn[r].on].disposed

\* The last to leave - after its handler, a timeout or a cancelled wait -
\* removes the entry: the dictionary does not grow (TrackedKeys returns to 0).
NoEntryLeaks ==
    \A i \in Instances : table[i] # None => \E r \in Requests : Home[r] = i /\ turn[r].pc # "out"

\* One request per process holds the key, whichever waits were given up.
OneHolder ==
    \A r, s \in Requests :
        r # s /\ turn[r].pc = "holding" /\ turn[s].pc = "holding" => Home[r] # Home[s]

\* The per-key lock: what its users rely on, and that it leaks nothing.
LockIsSound == LockTypeOK /\ LockInUseIsLive /\ NoEntryLeaks /\ OneHolder
=============================================================================
