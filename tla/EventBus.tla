------------------------------ MODULE EventBus ------------------------------
(***************************************************************************)
(* InMemoryEventBus and the inbox: one PublishAsync call per dispatcher    *)
(* runs the handlers of an event one after the other, each only when the   *)
(* inbox has no row for it, and records each that returned.  The module    *)
(* has no Next of its own: Eventing drives it from the outbox dispatchers. *)
(***************************************************************************)
EXTENDS Integers

CONSTANTS
    Dispatchers,     \* callers of PublishAsync
    Messages,        \* events
    NumHandlers,     \* handlers registered for the event, in resolution order
    InboxRetention,  \* ProcessedRetentionDays, in ticks
    MaxRuns          \* bound: completed runs of a handler counted up to here

VARIABLES
    call,       \* each dispatcher's PublishAsync call
    inbox,      \* the InboxMessages table: ticks since ProcessedOnUtc, or NoRow
    runs,       \* observation: completed runs of each handler on each event
    forgotten   \* observation: inbox rows that retention has deleted

busVars == <<call, inbox, runs, forgotten>>

Handlers == 1..NumHandlers
NoRow == -1
NotCalled == [step |-> "none", h |-> 0]

Steps == {"none", "lookup", "handling", "recording", "returned", "threw"}

BusTypeOK ==
    /\ call \in [Dispatchers -> [step : Steps, h : 0..NumHandlers]]
    /\ inbox \in [Messages \X Handlers -> NoRow..(InboxRetention + 1)]
    /\ runs \in [Messages \X Handlers -> 0..MaxRuns]
    /\ forgotten \subseteq Messages \X Handlers

BusInit ==
    /\ call = [d \in Dispatchers |-> NotCalled]
    /\ inbox = [e \in Messages \X Handlers |-> NoRow]
    /\ runs = [e \in Messages \X Handlers |-> 0]
    /\ forgotten = {}

-----------------------------------------------------------------------------

\* Mutant: the last handler is left out.
FromButLast(h) == IF h < NumHandlers THEN [step |-> "lookup", h |-> h]
                                     ELSE [step |-> "returned", h |-> 0]

\* The call once the handlers before h are done with.
From(h) == IF h \in Handlers THEN [step |-> "lookup", h |-> h]
                             ELSE [step |-> "returned", h |-> 0]

Threw == [step |-> "threw", h |-> 0]

\* PublishSingleAsync throws before any handler when the event names no tenant
\* and is not global, or when the tenant scope refuses its tenant.
PublishSingleAsync(d) ==
    /\ call[d].step = "none"
    /\ \/ call' = [call EXCEPT ![d] = From(1)]
       \/ call' = [call EXCEPT ![d] = Threw]
    /\ UNCHANGED <<inbox, runs, forgotten>>

\* Mutant: the inbox is not asked.
NeverSkips(d, m) ==
    /\ call[d].step = "lookup"
    /\ call' = [call EXCEPT ![d].step = "handling"]
    /\ UNCHANGED <<inbox, runs, forgotten>>

ShouldSkipProcessedEventAsync(d, m) ==
    /\ call[d].step = "lookup"
    /\ call' = [call EXCEPT ![d] = IF inbox[<<m, @.h>>] # NoRow THEN From(@.h + 1)
                                   ELSE [@ EXCEPT !.step = "handling"]]
    /\ UNCHANGED <<inbox, runs, forgotten>>

HandlerReturns(d, m) ==
    /\ call[d].step = "handling"
    /\ runs' = [runs EXCEPT ![<<m, call[d].h>>] = IF @ < MaxRuns THEN @ + 1 ELSE @]
    /\ call' = [call EXCEPT ![d].step = "recording"]
    /\ UNCHANGED <<inbox, forgotten>>

HandlerThrows(d) ==
    /\ call[d].step = "handling"
    /\ call' = [call EXCEPT ![d] = Threw]
    /\ UNCHANGED <<inbox, runs, forgotten>>

\* Insert if absent: the primary key (Id, HandlerName) decides between racers.
MarkProcessedAsync(d, m) ==
    /\ call[d].step = "recording"
    /\ inbox' = [inbox EXCEPT ![<<m, call[d].h>>] = IF @ = NoRow THEN 0 ELSE @]
    /\ call' = [call EXCEPT ![d] = From(@.h + 1)]
    /\ UNCHANGED <<runs, forgotten>>

\* Any DbUpdateException passes for a lost race, whatever its cause: the row is
\* not there and the call goes on.  Any other exception leaves PublishAsync.
MarkProcessedFails(d) ==
    /\ call[d].step = "recording"
    /\ \/ call' = [call EXCEPT ![d] = From(@.h + 1)]
       \/ call' = [call EXCEPT ![d] = Threw]
    /\ UNCHANGED <<inbox, runs, forgotten>>

\* The caller has its answer, or its process is gone.
Ends(d) ==
    /\ call' = [call EXCEPT ![d] = NotCalled]
    /\ UNCHANGED <<inbox, runs, forgotten>>

-----------------------------------------------------------------------------

PurgeInboxAsync ==
    /\ \E e \in Messages \X Handlers :
         /\ inbox[e] > InboxRetention
         /\ inbox' = [inbox EXCEPT ![e] = NoRow]
         /\ forgotten' = forgotten \cup {e}
    /\ UNCHANGED <<call, runs>>

InboxAges ==
    /\ inbox' = [e \in Messages \X Handlers |->
                   IF inbox[e] \in {NoRow, InboxRetention + 1} THEN inbox[e] ELSE inbox[e] + 1]
    /\ UNCHANGED <<call, runs, forgotten>>
=============================================================================
