---------------------------- MODULE AuditPipeline ----------------------------
(***************************************************************************)
(* The audit pipeline of one process (Modules/Auditing/Core): requests     *)
(* publish events into two bounded channels - one drops its oldest event   *)
(* when full, the other, for security events, makes the publisher wait -   *)
(* and one worker drains both into a batch that it writes tenant by tenant *)
(* to the database, and to a dead-letter file when that keeps failing.     *)
(*                                                                         *)
(* An event is its place in `events`.  Its content is its tenant.          *)
(***************************************************************************)
EXTENDS Naturals, SequencesExt

CONSTANTS
    Tenants,
    Capacity, SecurityCapacity,     \* of the two channels
    AuditBatch,                     \* batchSize
    AuditRetries,                   \* MaxRetries: attempts to write a batch
    MaxEvents,
    MaxOutages                      \* failed writes, stops and tenants that go

ASSUME AuditAssumption ==
    /\ Tenants # {}
    /\ \A n \in {Capacity, SecurityCapacity, AuditBatch, AuditRetries} : n \in Nat \ {0}
    /\ MaxEvents \in Nat /\ MaxOutages \in Nat

VARIABLES
    events,     \* what was published: [lane, tenant]
    lane,       \* the channels: sequences of events
    blocked,    \* events whose publisher waits for room in the security channel, in order
    batch,      \* what the worker has drained
    worker,     \* its place - "down" where there is no process - the attempt it is at, and the
                \* tenants that one has written
    sql, dlq,   \* events in the database, in the dead-letter file
    excused,    \* observation: events dropped for a reason, or never accepted
    troubles    \* observation: [failed : failed writes, torn : a batch was written in part,
                \*               all : everything that went wrong]

auditVars == <<events, lane, blocked, batch, worker, sql, dlq, excused, troubles>>

Event == 1..Len(events)
TenantOf(e) == events[e].tenant
Lanes == {"standard", "security"}
Room == [standard |-> Capacity, security |-> SecurityCapacity]
At(place) == [at |-> place, attempt |-> 1, wrote |-> {}]

AuditInitAt(place) ==
    /\ events = <<>> /\ blocked = <<>> /\ batch = <<>>
    /\ lane = [l \in Lanes |-> <<>>]
    /\ worker = At(place)
    /\ sql = {} /\ dlq = {} /\ excused = {}
    /\ troubles = [failed |-> 0, torn |-> FALSE, all |-> 0]

AuditInit == AuditInitAt("security")

Trouble == troubles.all < MaxOutages

(***************************************************************************)
(* Publishers.                                                             *)
(***************************************************************************)
Full(l) == Len(lane[l]) >= Room[l]

\* TryWrite of a channel that drops its oldest item.
PublishStandard(t) ==
    /\ Len(events) < MaxEvents
    /\ LET e == Len(events) + 1
           kept == IF Full("standard") THEN Tail(lane["standard"]) ELSE lane["standard"]
       IN  /\ events' = Append(events, [lane |-> "standard", tenant |-> t])
           /\ lane' = [lane EXCEPT !["standard"] = Append(kept, e)]
           /\ excused' = IF Full("standard") THEN excused \cup {Head(lane["standard"])} ELSE excused
    /\ UNCHANGED <<blocked, batch, worker, sql, dlq, troubles>>

\* WriteAsync: when the channel is full the publisher waits in line.
PublishSecurity(t) ==
    /\ Len(events) < MaxEvents
    /\ events' = Append(events, [lane |-> "security", tenant |-> t])
    /\ LET e == Len(events) + 1 IN
       IF Full("security")
       THEN blocked' = Append(blocked, e) /\ UNCHANGED lane
       ELSE lane' = [lane EXCEPT !["security"] = Append(@, e)] /\ UNCHANGED blocked
    /\ UNCHANGED <<batch, worker, sql, dlq, excused, troubles>>

\* The request that publishes is aborted while it waits.
PublisherAborts(e) ==
    /\ \E i \in DOMAIN blocked : blocked[i] = e /\ blocked' = RemoveAt(blocked, i)
    /\ excused' = excused \cup {e}
    /\ UNCHANGED <<events, lane, batch, worker, sql, dlq, troubles>>

(***************************************************************************)
(* The worker drains, the security lane first.                             *)
(***************************************************************************)
\* Reading an item lets the first publisher in line write its own.
Admits(l) == l = "security" /\ blocked # <<>>

DrainAvailableItem(l) ==
    /\ worker.at = l
    /\ Len(batch) < AuditBatch /\ lane[l] # <<>>
    /\ batch' = Append(batch, Head(lane[l]))
    /\ lane' = [lane EXCEPT ![l] = IF Admits(l) THEN Append(Tail(@), Head(blocked)) ELSE Tail(@)]
    /\ blocked' = IF Admits(l) THEN Tail(blocked) ELSE blocked
    /\ UNCHANGED <<events, worker, sql, dlq, excused, troubles>>

Drained(l) ==
    /\ worker.at = l
    /\ Len(batch) >= AuditBatch \/ lane[l] = <<>>
    /\ worker' = At(IF l = "security" THEN "standard"
                    ELSE IF Len(batch) >= AuditBatch THEN "flush" ELSE "wait")
    /\ UNCHANGED <<events, lane, blocked, batch, sql, dlq, excused, troubles>>

\* Either lane has data.
DataReady ==
    /\ worker.at = "wait" /\ \E l \in Lanes : lane[l] # <<>>
    /\ worker' = At("security")
    /\ UNCHANGED <<events, lane, blocked, batch, sql, dlq, excused, troubles>>

\* Mutant: only a full batch is written.
IntervalElapses_FullOnly ==
    /\ worker.at = "wait"
    /\ worker' = At("security")
    /\ UNCHANGED <<events, lane, blocked, batch, sql, dlq, excused, troubles>>

\* The flush interval is over.
IntervalElapses ==
    /\ worker.at = "wait"
    /\ worker' = At(IF batch # <<>> THEN "flush" ELSE "security")
    /\ UNCHANGED <<events, lane, blocked, batch, sql, dlq, excused, troubles>>

(***************************************************************************)
(* FlushAsync: the sink saves the batch one tenant at a time.              *)
(***************************************************************************)
\* The group of the first event whose tenant has not been written in this attempt.
Unwritten == {i \in DOMAIN batch : TenantOf(batch[i]) \notin worker.wrote}
Current == TenantOf(batch[Min(Unwritten)])
Group == {e \in Range(batch) : TenantOf(e) = Current}

\* When the attempts are used up the batch goes to the dead-letter file.
AttemptFails ==
    worker' = IF worker.attempt < AuditRetries
              THEN [worker EXCEPT !.attempt = @ + 1, !.wrote = {}]
              ELSE At("dlq")

\* A key the database already has makes the whole group, and the attempt, fail.
SavesGroup ==
    /\ worker.at = "flush" /\ Unwritten # {}
    /\ IF Group \cap sql = {}
       THEN /\ sql' = sql \cup Group
            /\ worker' = [worker EXCEPT !.wrote = @ \cup {Current}]
       ELSE AttemptFails /\ UNCHANGED sql
    /\ UNCHANGED <<events, lane, blocked, batch, dlq, excused, troubles>>

\* The save fails, or it commits and its answer is lost.
SaveFails ==
    /\ worker.at = "flush" /\ Unwritten # {} /\ Group \cap sql = {} /\ Trouble
    /\ sql' \in {sql, sql \cup Group}
    /\ AttemptFails
    /\ troubles' = [failed |-> troubles.failed + 1, all |-> troubles.all + 1,
                    torn |-> troubles.torn \/ Range(batch) \cap sql' # {}]
    /\ UNCHANGED <<events, lane, blocked, batch, dlq, excused>>

\* The tenant is not in the catalog any more: its group is skipped.
UnknownTenant ==
    /\ worker.at = "flush" /\ Unwritten # {} /\ Trouble
    /\ excused' = excused \cup (Group \ sql)
    /\ worker' = [worker EXCEPT !.wrote = @ \cup {Current}]
    /\ troubles' = [troubles EXCEPT !.all = @ + 1]
    /\ UNCHANGED <<events, lane, blocked, batch, sql, dlq>>

Flushed ==
    /\ worker.at = "flush" /\ Unwritten = {}
    /\ batch' = <<>> /\ worker' = At("security")
    /\ UNCHANGED <<events, lane, blocked, sql, dlq, excused, troubles>>

\* Mutant: an exhausted batch is dropped.
DeadLetters_Never ==
    /\ worker.at = "dlq"
    /\ batch' = <<>> /\ worker' = At("security")
    /\ UNCHANGED <<events, lane, blocked, sql, dlq, excused, troubles>>

\* The file sink never throws: what it cannot write is logged as lost.
DeadLetters ==
    /\ worker.at = "dlq"
    /\ batch' = <<>> /\ worker' = At("security")
    /\ \/ dlq' = dlq \cup Range(batch) /\ UNCHANGED <<excused, troubles>>
       \/ /\ Trouble
          /\ excused' = excused \cup Range(batch)
          /\ troubles' = [troubles EXCEPT !.all = @ + 1]
          /\ UNCHANGED dlq
    /\ UNCHANGED <<events, lane, blocked, sql>>

\* The process stops, and another starts: FinalFlushAsync finds the token cancelled, so what
\* lanes, batch and waiting publishers hold is gone.
Stops ==
    /\ Trouble /\ troubles' = [troubles EXCEPT !.all = @ + 1]
    /\ excused' = excused \cup (Event \ (sql \cup dlq))
    /\ lane' = [l \in Lanes |-> <<>>] /\ blocked' = <<>> /\ batch' = <<>>
    /\ worker' = At("security")
    /\ UNCHANGED <<events, sql, dlq>>

-----------------------------------------------------------------------------
WorkerStep ==
    \/ \E l \in Lanes : DrainAvailableItem(l) \/ Drained(l)
    \/ DataReady \/ IntervalElapses \/ SavesGroup \/ Flushed \/ DeadLetters

AuditNext ==
    \/ \E t \in Tenants : PublishStandard(t) \/ PublishSecurity(t)
    \/ \E e \in Event : PublisherAborts(e)
    \/ WorkerStep \/ SaveFails \/ UnknownTenant \/ Stops

\* The worker loops until the process stops; its timer is an interval of a second.
AuditFairness ==
    /\ WF_auditVars(WorkerStep)
    /\ WF_auditVars(IntervalElapses)

AuditSpec == AuditInit /\ [][AuditNext]_auditVars /\ AuditFairness

(***************************************************************************)
(* Properties.                                                             *)
(***************************************************************************)
InLanes == UNION {Range(lane[l]) : l \in Lanes}
InMemory == InLanes \cup Range(blocked) \cup Range(batch)
Settled == sql \cup dlq \cup excused

AuditTypeOK ==
    /\ \A e \in Event : events[e].lane \in Lanes /\ events[e].tenant \in Tenants
    /\ \A l \in Lanes : Len(lane[l]) <= Room[l] /\ \A e \in Range(lane[l]) : events[e].lane = l
    /\ Len(batch) <= AuditBatch
    /\ worker.at \in Lanes \cup {"wait", "flush", "dlq", "down"}
    /\ worker.attempt \in 1..AuditRetries /\ worker.wrote \subseteq Tenants

\* No event is lost but for a reason the code names - an activity event pushed out of a full
\* lane, a request aborted while it waits, a tenant that is gone, a dead-letter file that
\* fails, a stop - however lanes, batch and sinks pass it on (ChannelAuditPublisher.cs:52-54).
EventsKept == Event = InMemory \cup Settled

\* The trail of a tenant is written in the order of its events, lane by lane, also when
\* publishers had to wait in line and when a batch needs several attempts.
TrailInOrder ==
    \A e, f \in Event :
        /\ e < f /\ events[e] = events[f] /\ f \in (sql \cup dlq) \ excused
        => e \in Settled

\* Events reach the dead-letter file only after AuditRetries failed writes, or when a failure
\* left a part of the batch in the database: then every further attempt fails on its keys.
DeadLettersAreDue ==
    dlq # {} => troubles.failed >= AuditRetries \/ troubles.torn

\* What the trail tells of what happened.
AuditTells == AuditTypeOK /\ EventsKept /\ TrailInOrder /\ DeadLettersAreDue

\* Back-pressure ends, and every event is settled, whatever the database does
\* (ChannelAuditPublisher.cs:52-54, AuditBackgroundWorker.cs:135-140).
AuditSettles == <>[](Event \subseteq Settled)
=============================================================================
