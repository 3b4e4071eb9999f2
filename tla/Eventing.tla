------------------------------ MODULE Eventing ------------------------------
(***************************************************************************)
(* The eventing block put together: outbox dispatchers (Outbox) publish    *)
(* through the bus and its inbox (EventBus), and both tables have their    *)
(* retention.  The result is compared with EventDelivery.                  *)
(***************************************************************************)
EXTENDS Outbox

CONSTANTS NumHandlers, MaxRuns   \* see EventBus

ASSUME BusAssumption == NumHandlers \in Nat /\ MaxRuns \in Nat \ {0}

VARIABLES call, inbox, runs, forgotten

Bus == INSTANCE EventBus WITH InboxRetention <- Retention

busVars == <<call, inbox, runs, forgotten>>
eventingVars == <<rows, disp, redrive, published, failures, faults, call, inbox, runs, forgotten>>
Handlers == Bus!Handlers

EventingInit == Init /\ Bus!BusInit

-----------------------------------------------------------------------------
(* Steps of the bus inside a dispatcher's PublishAsync call. *)

BusStep(d) ==
    LET m == disp[d].cur IN
    /\ disp[d].pc = "publishing"
    /\ \/ /\ \/ Bus!PublishSingleAsync(d)
             \/ Bus!ShouldSkipProcessedEventAsync(d, m)
             \/ Bus!HandlerReturns(d, m)
             \/ Bus!HandlerThrows(d)
             \/ Bus!MarkProcessedAsync(d, m)
          /\ UNCHANGED vars
       \/ /\ Bus!MarkProcessedFails(d)
          /\ faults < MaxFaults /\ faults' = faults + 1
          /\ UNCHANGED <<rows, disp, redrive, published, failures>>

BusReturns(d) ==
    /\ call[d].step = "returned"
    /\ PublishReturns(d)
    /\ Bus!Ends(d)

BusThrows(d) ==
    /\ call[d].step = "threw"
    /\ PublishThrows(d)
    /\ Bus!Ends(d)

\* Steps of the dispatcher outside that call.
LoopStep(d) ==
    /\ \/ ClaimBatchAsync(d)
       \/ \E m \in Messages : TakeNext(d, m)
       \/ MarkAsProcessedAsync(d)
       \/ MarkAsFailedAsync(d)
    /\ UNCHANGED busVars

InstanceStep(d) == BusStep(d) \/ BusReturns(d) \/ BusThrows(d) \/ LoopStep(d)

InstanceCrashes(d) == Crash(d) /\ Bus!Ends(d)

-----------------------------------------------------------------------------

Produce(m) == AddAsync(m) /\ UNCHANGED busVars

Redrive == (RedriveLoad \/ RedriveSave) /\ UNCHANGED busVars

\* EventingRetentionJob.RunAsync: statement by statement.
RetentionStep ==
    \/ PurgeOutboxAsync /\ UNCHANGED busVars
    \/ Bus!PurgeInboxAsync /\ UNCHANGED vars

TimePasses == Tick /\ Bus!InboxAges

EventingNext ==
    \/ \E m \in Messages : Produce(m)
    \/ \E d \in Dispatchers : InstanceStep(d) \/ InstanceCrashes(d)
    \/ Redrive
    \/ RetentionStep
    \/ TimePasses

EventingSpec ==
    /\ EventingInit /\ [][EventingNext]_eventingVars
    /\ \A d \in Dispatchers : WF_eventingVars(InstanceStep(d))
    /\ WF_eventingVars(TimePasses)

-----------------------------------------------------------------------------
(* Properties. *)

EventingTypeOK == TypeOK /\ Bus!BusTypeOK

\* No event is lost: a row that is processed, or gone, has been through every
\* handler at least once, also when leases overrun and copies are stale.
NoEventLost ==
    \A m \in Messages : rows[m].processed \/ rows[m].at = "purged" =>
        \A h \in Handlers : runs[<<m, h>>] > 0

\* The inbox makes redelivery harmless: while leases hold, a handler completes
\* an event again only where a crash or a failed save, or retention deleting
\* its inbox row, came in between - however often other handlers fail, the
\* event is retried or a dead letter is redriven.
HandledOnce ==
    LeaseHolds => \A e \in Messages \X Handlers :
                    e \in forgotten \/ runs[e] <= 1 + faults

\* What holds of tables, bus and dispatchers in every state.
EventingSafe == EventingTypeOK /\ HandledOnce

\* The refinement mapping.
DeliveryState(m) ==
    CASE rows[m].at = "unsent" -> "unsent"
      [] rows[m].at = "purged" -> "forgotten"
      [] rows[m].at = "stored" /\ rows[m].processed -> "settled"
      [] rows[m].at = "stored" /\ ~rows[m].processed /\ rows[m].dead -> "parked"
      [] OTHER -> "owed"

Delivery == INSTANCE EventDelivery WITH
    state <- [m \in Messages |-> DeliveryState(m)],
    done <- [m \in Messages |-> {h \in Handlers : runs[<<m, h>>] > 0}]

\* While leases hold, the tables and the dispatchers implement at-least-once
\* delivery, including that no event stays owed for ever.
ImplementsDelivery == Delivery!Spec
=============================================================================
