----------------------------- MODULE Idempotency -----------------------------
(***************************************************************************)
(* IdempotencyEndpointFilter: requests with one Idempotency-Key, from one  *)
(* caller to one endpoint, on several processes that share the distributed *)
(* cache.  A request is over when its filter returns; the same client then *)
(* may send another with the key.  What an entry holds is abstracted: a    *)
(* request that finds one ends, replayed or refused with 422, and changes  *)
(* nothing.                                                                *)
(***************************************************************************)
EXTENDS KeyedAsyncLock

CONSTANTS MaxFaults   \* faults counted up to here

ASSUME MaxFaultsAssumption == MaxFaults \in Nat

VARIABLES
    pc,       \* its place in InvokeAsync
    stored,   \* the cache has an entry for the key
    runs,     \* observation: handlers that succeeded, per process, while counted
    faults    \* observation: what excuses one more run

vars == <<table, entry, turn, pc, stored, runs, faults>>

Positions == {"idle", "probe", "enter", "lock", "reprobe", "timedOut", "handler", "store", "end"}

Init ==
    /\ LockInit
    /\ pc = [r \in Requests |-> "idle"]
    /\ stored = FALSE
    /\ runs = [i \in Instances |-> 0]
    /\ faults = 0

UpTo(n, max) == IF n < max THEN n + 1 ELSE n
Excused == faults' = UpTo(faults, MaxFaults)
Goes(r, from, to) == pc[r] = from /\ pc' = [pc EXCEPT ![r] = to]

-----------------------------------------------------------------------------
(* The probe and the lock. *)

Arrives(r) ==
    /\ Goes(r, "idle", "probe")
    /\ UNCHANGED <<lockVars, stored, runs, faults>>

\* A hit is answered; a miss, or a cache that does not answer, is queued.
Probes(r) ==
    /\ \/ stored /\ Goes(r, "probe", "end")
       \/ Goes(r, "probe", "enter")
    /\ UNCHANGED <<lockVars, stored, runs, faults>>

EntersLock(r) ==
    /\ Goes(r, "enter", "lock")
    /\ Enters(r)
    /\ UNCHANGED <<stored, runs, faults>>

AcquiresLock(r) ==
    /\ Goes(r, "lock", "reprobe")
    /\ Acquires(r)
    /\ UNCHANGED <<stored, runs, faults>>

\* Runs the handler without the lock, and without another probe.
TimesOut(r) ==
    /\ Goes(r, "lock", "timedOut")
    /\ GivesUp(r)
    /\ Excused
    /\ UNCHANGED <<stored, runs>>

LeavesTimedOut(r) ==
    /\ Goes(r, "timedOut", "handler")
    /\ Leaves(r)
    /\ UNCHANGED <<stored, runs, faults>>

\* Mutant: the lock is taken, but the cache is not asked again.
ReprobesNot(r) ==
    /\ Goes(r, "reprobe", "handler")
    /\ UNCHANGED <<lockVars, stored, runs, faults>>

Reprobes(r) ==
    /\ Goes(r, "reprobe", IF stored THEN "end" ELSE "handler")
    /\ UNCHANGED <<lockVars, stored, runs, faults>>

ReprobeFails(r) ==
    /\ Goes(r, "reprobe", "handler")
    /\ Excused
    /\ UNCHANGED <<lockVars, stored, runs>>

\* The client hangs up before the handler: the probe or the wait is cancelled.
ClientAborts(r) ==
    /\ \/ Goes(r, "probe", "end") /\ UNCHANGED lockVars
       \/ Goes(r, "reprobe", "end") /\ UNCHANGED lockVars
       \/ Goes(r, "lock", "end") /\ GivesUp(r)
    /\ UNCHANGED <<stored, runs, faults>>

-----------------------------------------------------------------------------
(* The handler, on a token that never fires. *)

HandlerSucceeds(r) ==
    /\ Goes(r, "handler", "store")
    /\ runs' = IF faults < MaxFaults THEN [runs EXCEPT ![Home[r]] = UpTo(@, MaxFaults + 1)]
                                     ELSE runs
    /\ UNCHANGED <<lockVars, stored, faults>>

\* It throws, possibly after a commit, or answers anything but a 2xx.
HandlerFails(r) ==
    /\ Goes(r, "handler", "end")
    /\ UNCHANGED <<lockVars, stored, runs, faults>>

Stores(r) ==
    /\ Goes(r, "store", "end")
    /\ stored' = TRUE
    /\ UNCHANGED <<lockVars, runs, faults>>

StoreFails(r) ==
    /\ Goes(r, "store", "end")
    /\ Excused
    /\ UNCHANGED <<lockVars, stored, runs>>

\* The response is flushed, or that fails; either way the handle is disposed.
DisposesHandle(r) ==
    /\ pc[r] = "end"
    /\ ReleasesPermit(r)
    /\ UNCHANGED <<pc, stored, runs, faults>>

LeavesLock(r) ==
    /\ pc[r] = "end"
    /\ Leaves(r)
    /\ UNCHANGED <<pc, stored, runs, faults>>

Returns(r) ==
    /\ turn[r].pc = "out"
    /\ Goes(r, "end", "idle")
    /\ UNCHANGED <<lockVars, stored, runs, faults>>

-----------------------------------------------------------------------------

\* DefaultTtl passes, or the cache drops the entry or cannot read it any more.
Expires ==
    /\ stored /\ stored' = FALSE
    /\ Excused
    /\ UNCHANGED <<lockVars, pc, runs>>

Crash(i) ==
    /\ \E r \in Requests : Home[r] = i /\ pc[r] # "idle"
    /\ LockForgets(i)
    /\ pc' = [r \in Requests |-> IF Home[r] = i THEN "idle" ELSE pc[r]]
    /\ Excused
    /\ UNCHANGED <<stored, runs>>

\* What a request does by itself when nothing goes wrong.
Advances(r) ==
    \/ Probes(r) \/ EntersLock(r) \/ LeavesTimedOut(r) \/ Reprobes(r)
    \/ HandlerSucceeds(r) \/ HandlerFails(r) \/ Stores(r)
    \/ DisposesHandle(r) \/ LeavesLock(r) \/ Returns(r)

Next ==
    \/ \E r \in Requests :
         \/ Arrives(r)
         \/ Advances(r)
         \/ AcquiresLock(r) \/ TimesOut(r) \/ ReprobeFails(r) \/ ClientAborts(r) \/ StoreFails(r)
    \/ Expires
    \/ \E i \in Instances : Crash(i)

\* Awaits return and handlers end.  SemaphoreSlim queues its waiters, so one is
\* not passed over for ever.  No wait has to time out.
Fairness == \A r \in Requests : WF_vars(Advances(r)) /\ SF_vars(AcquiresLock(r))

Spec == Init /\ [][Next]_vars /\ Fairness

-----------------------------------------------------------------------------
(* Properties. *)

TypeOK ==
    /\ LockTypeOK
    /\ pc \in [Requests -> Positions]
    /\ stored \in BOOLEAN
    /\ runs \in [Instances -> 0..(MaxFaults + 1)]
    /\ faults \in 0..MaxFaults

\* Within one process the handler succeeds once for the key, and once more for
\* each timeout, cache failure, expiry or crash: nothing else - no overlap of
\* duplicates, hang-up or failed handler - makes it run again.
OneRunPerProcess == \A i \in Instances : runs[i] <= 1 + faults

\* Once the handler has committed, a retry finds the entry - also if the client
\* hung up before the response - or the request that ran it is about to store it.
CommittedIsReplayable ==
    faults = 0 /\ (\E i \in Instances : runs[i] > 0) =>
        stored \/ \E r \in Requests : pc[r] = "store"

\* What a client that repeats its key may rely on.
RunsOnce == TypeOK /\ OneRunPerProcess /\ CommittedIsReplayable

\* Every request ends, without relying on the bound of the wait: no permit is lost.
EveryRequestEnds == \A r \in Requests : pc[r] # "idle" ~> pc[r] = "idle"
=============================================================================
