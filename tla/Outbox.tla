------------------------------- MODULE Outbox -------------------------------
(***************************************************************************)
(* The transactional outbox of BuildingBlocks/Eventing: the OutboxMessages *)
(* table, the dispatchers of the instances that drain it (ClaimBatchAsync, *)
(* the DispatchAsync loop, MarkAsProcessedAsync, MarkAsFailedAsync), the   *)
(* redrive of dead letters and the retention purge.                        *)
(*                                                                         *)
(* Every deadline column is kept as the time left until it passes, so one  *)
(* Tick moves the clock for all of them and the state space stays finite   *)
(* without a bound on time.  A null deadline and one that has passed are   *)
(* told apart by no guard of the code, and both are 0.                     *)
(***************************************************************************)
EXTENDS Integers, FiniteSets

CONSTANTS
    Dispatchers,   \* running instances of OutboxDispatcherHostedService
    Messages,      \* event ids, numbered in CreatedOnUtc order
    Poison,        \* messages whose payload no longer deserializes
    BatchSize,     \* OutboxBatchSize
    Lease,         \* OutboxClaimLeaseSeconds, in ticks
    MaxRetries,    \* OutboxMaxRetries
    BackoffBase,   \* OutboxRetryBaseDelaySeconds, in ticks
    BackoffMax,    \* OutboxRetryMaxDelaySeconds, in ticks
    Retention,     \* ProcessedRetentionDays, in ticks
    PurgeBatch,    \* RetentionDeleteBatchSize
    MaxFaults,     \* bound: crashes and failed saves in one behaviour
    LeaseHolds     \* TRUE when a batch always ends before its lease does

ASSUME MessagesAreOrdered == Messages \subseteq Nat /\ IsFiniteSet(Messages)
ASSUME PoisonAssumption == Poison \subseteq Messages
ASSUME OptionsAssumption ==
    /\ BatchSize \in Nat \ {0}   /\ Lease \in Nat \ {0}
    /\ MaxRetries \in Nat \ {0}  /\ Retention \in Nat \ {0}
    /\ BackoffBase \in Nat \ {0} /\ BackoffMax \in Nat \ {0}
    /\ PurgeBatch \in Nat \ {0}  /\ MaxFaults \in Nat
    /\ LeaseHolds \in BOOLEAN

VARIABLES
    rows,       \* the OutboxMessages table
    disp,       \* each dispatcher's loop: its claimed copies and position
    redrive,    \* dead letters a redrive has loaded and not yet saved
    published,  \* observation: messages the bus accepted at least once
    failures,   \* observation: failures saved since the row last left dead, up to MaxRetries
    faults      \* observation: crashes and failed saves so far

vars == <<rows, disp, redrive, published, failures, faults>>

-----------------------------------------------------------------------------
(* Rows and dispatchers. *)

Row == [at: {"unsent", "stored", "purged"},
        retry: 0..(MaxRetries + 1), dead: BOOLEAN, processed: BOOLEAN,
        backoff: 0..BackoffMax,    \* ticks until NextRetryAt
        lease: 0..Lease,           \* ticks until ClaimedUntilUtc
        age: 0..(Retention + 1)]   \* ticks since ProcessedOnUtc

\* A dispatcher's in-memory copy of a claimed row: what it may later write back.
Copy == [retry: 0..(MaxRetries + 1), processed: BOOLEAN]

Stages == {"idle", "next", "publishing", "marking", "poisoned", "failing"}

DispatcherState ==
    [pc: Stages, batch: SUBSET Messages, cur: Messages \cup {0}, copy: [Messages -> Copy]]

FreshCopy == [m \in Messages |-> [retry |-> 0, processed |-> FALSE]]
Idle == [pc |-> "idle", batch |-> {}, cur |-> 0, copy |-> FreshCopy]

Smaller(a, b) == IF a < b THEN a ELSE b

\* BackoffFor: base * 2^(retries-1), capped.
Backoff(retries) == Smaller(BackoffBase * 2 ^ (Smaller(retries - 1, 30)), BackoffMax)

\* Mutants of Claimable: the lease is not looked at; NextRetryAt has to be null.
ClaimableThoughLeased(m) ==
    rows[m].at = "stored" /\ ~rows[m].dead /\ ~rows[m].processed /\ rows[m].backoff = 0
ClaimableNeverTried(m) ==
    ClaimableThoughLeased(m) /\ rows[m].retry = 0 /\ rows[m].lease = 0

\* The rows the claim statement selects.
Claimable(m) ==
    /\ rows[m].at = "stored"
    /\ ~rows[m].dead /\ ~rows[m].processed
    /\ rows[m].backoff = 0 /\ rows[m].lease = 0

\* ORDER BY CreatedOnUtc LIMIT n
Oldest(S, n) == {m \in S : Cardinality({k \in S : k < m}) < n}

Init ==
    /\ rows = [m \in Messages |->
                 [at |-> "unsent", retry |-> 0, dead |-> FALSE, processed |-> FALSE,
                  backoff |-> 0, lease |-> 0, age |-> 0]]
    /\ disp = [d \in Dispatchers |-> Idle]
    /\ redrive = {}
    /\ published = {}
    /\ failures = [m \in Messages |-> 0]
    /\ faults = 0

-----------------------------------------------------------------------------
(* Producers. *)

AddAsync(m) ==
    /\ rows[m].at = "unsent"
    /\ rows' = [rows EXCEPT ![m].at = "stored"]
    /\ UNCHANGED <<disp, redrive, published, failures, faults>>

-----------------------------------------------------------------------------
(* Dispatchers. *)

\* One statement selects and stamps: concurrent claims partition the rows.
ClaimBatchAsync(d) ==
    LET claimed == Oldest({m \in Messages : Claimable(m)}, BatchSize) IN
    /\ disp[d].pc = "idle"
    /\ claimed # {}
    /\ rows' = [m \in Messages |-> IF m \in claimed
                                   THEN [rows[m] EXCEPT !.lease = Lease] ELSE rows[m]]
    /\ disp' = [disp EXCEPT ![d] =
                  [pc |-> "next", batch |-> claimed, cur |-> 0,
                   copy |-> [m \in Messages |-> IF m \in claimed
                               THEN [retry |-> rows[m].retry, processed |-> FALSE]
                               ELSE FreshCopy[m]]]]
    /\ UNCHANGED <<redrive, published, failures, faults>>

\* RETURNING gives the batch in no particular order.
TakeNext(d, m) ==
    /\ disp[d].pc = "next"
    /\ m \in disp[d].batch
    /\ disp' = [disp EXCEPT ![d].cur = m,
                            ![d].pc = IF m \in Poison THEN "poisoned" ELSE "publishing"]
    /\ UNCHANGED <<rows, redrive, published, failures, faults>>

PublishReturns(d) ==
    /\ disp[d].pc = "publishing"
    /\ disp' = [disp EXCEPT ![d].pc = "marking"]
    /\ published' = published \cup {disp[d].cur}
    /\ UNCHANGED <<rows, redrive, failures, faults>>

\* Mutant: the exception is swallowed.
PublishThrowsUnnoticed(d) ==
    /\ disp[d].pc = "publishing"
    /\ disp' = [disp EXCEPT ![d].pc = "marking"]
    /\ UNCHANGED <<rows, redrive, published, failures, faults>>

PublishThrows(d) ==
    /\ disp[d].pc = "publishing"
    /\ disp' = [disp EXCEPT ![d].pc = "failing"]
    /\ UNCHANGED <<rows, redrive, published, failures, faults>>

\* The loop moves on; after the last message DispatchAsync returns.
Advanced(d) ==
    LET rest == disp[d].batch \ {disp[d].cur} IN
    IF rest = {} THEN Idle
    ELSE [disp[d] EXCEPT !.pc = "next", !.batch = rest, !.cur = 0]

\* Mutant: a row that failed before is not processed.
WrittenAfresh(m, copy, dead, backoff) ==
    [rows[m] EXCEPT !.retry = copy.retry, !.processed = copy.processed /\ copy.retry = 0,
                    !.dead = dead, !.backoff = backoff, !.lease = 0, !.age = 0]

\* Update(message) writes every column from the copy, and both marks release the claim.
Written(m, copy, dead, backoff) ==
    [rows[m] EXCEPT !.retry = copy.retry, !.processed = copy.processed, !.dead = dead,
                    !.backoff = backoff, !.lease = 0,
                    !.age = IF rows[m].processed /\ copy.processed THEN @ ELSE 0]

\* The save commits and its caller hears so; commits and the caller sees an
\* exception; or leaves the table alone, by a fault or because the row is gone.
Saves(m, written) ==
    /\ rows[m].at = "stored"
    /\ rows' = [rows EXCEPT ![m] = written]
    /\ UNCHANGED faults

SavesUnheard(m, written) ==
    /\ rows[m].at = "stored"
    /\ faults < MaxFaults /\ faults' = faults + 1
    /\ rows' = [rows EXCEPT ![m] = written]

FailsToSave(m) ==
    /\ \/ rows[m].at = "purged" /\ UNCHANGED faults
       \/ rows[m].at = "stored" /\ faults < MaxFaults /\ faults' = faults + 1
    /\ UNCHANGED rows

MarkAsProcessedAsync(d) ==
    LET m == disp[d].cur
        copy == [disp[d].copy[m] EXCEPT !.processed = TRUE]
        written == Written(m, copy, FALSE, 0)
    IN
    /\ disp[d].pc = "marking"
    /\ \/ /\ Saves(m, written)
          /\ disp' = [disp EXCEPT ![d] = Advanced(d)]
       \/ /\ SavesUnheard(m, written) \/ FailsToSave(m)
          /\ disp' = [disp EXCEPT ![d].pc = "failing", ![d].copy[m] = copy]
    /\ UNCHANGED <<redrive, published, failures>>

\* Mutant: the budget is one short.
IsDeadEarly(d) ==
    disp[d].pc = "poisoned" \/ disp[d].copy[disp[d].cur].retry + 2 >= MaxRetries

\* A payload that does not deserialize is dead at once; in the catch block the
\* retry budget decides.
IsDead(d) ==
    disp[d].pc = "poisoned" \/ disp[d].copy[disp[d].cur].retry + 1 >= MaxRetries

\* An exception here leaves the try block's own call for the catch block, and
\* the catch block's call for the hosted service: the rest of the batch is left.
MarkAsFailedAsync(d) ==
    LET m == disp[d].cur
        copy == [disp[d].copy[m] EXCEPT !.retry = @ + 1]
        written == Written(m, copy, IsDead(d), IF IsDead(d) THEN 0 ELSE Backoff(copy.retry))
        counted == [failures EXCEPT ![m] = Smaller(@ + 1, MaxRetries)]
    IN
    /\ disp[d].pc \in {"poisoned", "failing"}
    /\ \/ /\ Saves(m, written)
          /\ failures' = counted
          /\ disp' = [disp EXCEPT ![d] = Advanced(d)]
       \/ /\ \/ SavesUnheard(m, written) /\ failures' = counted
             \/ FailsToSave(m) /\ UNCHANGED failures
          /\ disp' = [disp EXCEPT ![d] =
                        IF disp[d].pc = "poisoned"
                        THEN [disp[d] EXCEPT !.pc = "failing", !.copy[m] = copy]
                        ELSE Idle]
    /\ UNCHANGED <<redrive, published>>

\* The process stops, and its claims stay until they expire.
Crash(d) ==
    /\ disp[d].pc # "idle"
    /\ faults < MaxFaults
    /\ faults' = faults + 1
    /\ disp' = [disp EXCEPT ![d] = Idle]
    /\ UNCHANGED <<rows, redrive, published, failures>>

-----------------------------------------------------------------------------
(* Operators and retention. *)

RedriveLoad ==
    /\ redrive = {}
    /\ \E ids \in SUBSET {m \in Messages : rows[m].at = "stored" /\ rows[m].dead} :
         ids # {} /\ redrive' = ids
    /\ UNCHANGED <<rows, disp, published, failures, faults>>

\* Only the columns the load saw change are written: IsDead and RetryCount.
RedriveSave ==
    /\ redrive # {}
    /\ IF \A m \in redrive : rows[m].at = "stored"
       THEN /\ rows' = [m \in Messages |-> IF m \in redrive
                          THEN [rows[m] EXCEPT !.dead = FALSE, !.retry = 0] ELSE rows[m]]
            /\ failures' = [m \in Messages |-> IF m \in redrive /\ rows[m].dead
                                               THEN 0 ELSE failures[m]]
       ELSE UNCHANGED <<rows, failures>>
    /\ redrive' = {}
    /\ UNCHANGED <<disp, published, faults>>

Expired(m) ==
    /\ rows[m].at = "stored"
    /\ ~rows[m].dead /\ rows[m].processed
    /\ rows[m].age > Retention

PurgeOutboxAsync ==
    /\ \E S \in SUBSET {m \in Messages : Expired(m)} :
         /\ S # {} /\ Cardinality(S) <= PurgeBatch
         /\ rows' = [m \in Messages |-> IF m \in S THEN [rows[m] EXCEPT !.at = "purged"]
                                                    ELSE rows[m]]
    /\ UNCHANGED <<disp, redrive, published, failures, faults>>

-----------------------------------------------------------------------------
(* Time. *)

Less(n) == IF n = 0 THEN 0 ELSE n - 1

\* OutboxClaimLeaseSeconds "must exceed the worst-case time to publish a batch":
\* where that is kept, no lease runs out under a dispatcher that still works.
Tick ==
    /\ LeaseHolds => \A d \in Dispatchers : \A m \in disp[d].batch : rows[m].lease # 1
    /\ rows' = [m \in Messages |->
                  [rows[m] EXCEPT !.backoff = Less(@), !.lease = Less(@),
                                  !.age = IF rows[m].processed
                                          THEN Smaller(@ + 1, Retention + 1) ELSE @]]
    /\ UNCHANGED <<disp, redrive, published, failures, faults>>

-----------------------------------------------------------------------------
(* The specification. *)

DispatcherStep(d) ==
    \/ ClaimBatchAsync(d)
    \/ \E m \in Messages : TakeNext(d, m)
    \/ PublishReturns(d)
    \/ PublishThrows(d)
    \/ MarkAsProcessedAsync(d)
    \/ MarkAsFailedAsync(d)

Next ==
    \/ \E m \in Messages : AddAsync(m)
    \/ \E d \in Dispatchers : DispatcherStep(d) \/ Crash(d)
    \/ RedriveLoad
    \/ RedriveSave
    \/ PurgeOutboxAsync
    \/ Tick

Spec == Init /\ [][Next]_vars

\* The hosted service's loop never ends while its process runs, and time passes.
\* Nobody owes an operator's redrive or the retention job's next run.
Fairness ==
    /\ \A d \in Dispatchers : WF_vars(DispatcherStep(d))
    /\ WF_vars(Tick)

FairSpec == Spec /\ Fairness

-----------------------------------------------------------------------------
(* Properties. *)

TypeOK ==
    /\ rows \in [Messages -> Row]
    /\ disp \in [Dispatchers -> DispatcherState]
    /\ redrive \subseteq Messages
    /\ published \subseteq Messages
    /\ failures \in [Messages -> 0..MaxRetries]
    /\ faults \in 0..MaxFaults

\* No two instances work on one publishable message at a time, whatever crashes,
\* failed saves, retries and redrives come between claiming it and marking it.
\* (A poison message is never published: its first mark releases the claim even
\* when the caller sees an exception, so a redrive may hand it on meanwhile.)
OnePublisher ==
    LeaseHolds => \A d, e \in Dispatchers :
                    d # e => disp[d].batch \cap disp[e].batch \subseteq Poison

\* A row that counts as processed, or that retention has deleted, was accepted
\* by the bus: no order of failures, stale writes and purges drops a message.
ProcessedWasPublished ==
    \A m \in Messages : rows[m].processed \/ rows[m].at = "purged" => m \in published

\* A message that deserializes is dead-lettered only after MaxRetries failed
\* attempts of its own since it was added or redriven.
DeadIsExhausted ==
    LeaseHolds => \A m \in Messages : rows[m].dead => m \in Poison \/ failures[m] = MaxRetries

\* Once a row is processed nothing makes it pending again: neither a save that
\* failed halfway nor the copy another instance still holds.
ProcessedIsFinal ==
    [][LeaseHolds => \A m \in Messages : rows[m].processed => rows'[m].processed]_vars

\* Every message added is in the end processed or dead-lettered.
EveryMessageSettles ==
    \A m \in Messages : rows[m].at = "stored" ~> rows[m].processed \/ rows[m].dead
=============================================================================
