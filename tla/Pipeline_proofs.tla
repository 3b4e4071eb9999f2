---------------------------- MODULE Pipeline_proofs ----------------------------
(***************************************************************************)
(* Proofs about the usage wait and the post-merge gate for every set of    *)
(* phases and models, every budget and poll interval, and every list of    *)
(* gates, healing attempts and signals.  Each has an invariant of its own, *)
(* as they share no state.                                                 *)
(***************************************************************************)
EXTENDS MCSandcastle, TLAPS

-----------------------------------------------------------------------------
(* The usage wait. *)

\* Nothing runs before the startup checks are through, the wait is on only with a CLI that can
\* probe, and the fallback takes part only with a token that works and is the one that pays.
StartupInv ==
    /\ stage # "ready" => accounts = {Main} /\ \A p \in Phases : pc[p] = "idle"
    /\ waitOn => cli
    /\ Fallback \in accounts => tokenOk /\ resolveFallbackAccount(env) = "enabled"

\* A slot in which a claude process is asking is the only one that has one.
ProbeInv == \A q \in Pairs : calls[q] = IF slot[q] = "asking" THEN 1 ELSE 0

\* A call awaits only while the wait is on; its budget runs since the first failure that nothing
\* answered, and it polls and gives up only on a budget.
Fits(place, account, budget, since) ==
    /\ place \in Awaiting => waitOn
    /\ budget = NoHit <=> since = NoHit
    /\ budget # NoHit => budget + since = MaxWait
    /\ place \in {"tryOther", "pollMain", "pollOther"} => budget # NoHit
    /\ place = "gaveUp" => budget = 0
    /\ place = "pollOther" => Fallback \in accounts
    /\ place = "tryOther" => Other(account) \in accounts

CallFits(p) == Fits(pc[p], on[p], left[p], ago[p])

WaitInv == TypeOK /\ StartupInv /\ ProbeInv /\ \A p \in Phases : CallFits(p)

-----------------------------------------------------------------------------
(* The gate. *)

\* Who hears Ctrl+C while the child runs and while its group is reaped, how far each is, and
\* that the execution that is in progress is counted.
PlaceInv ==
    /\ gatePc = "running" => listener = "forward" /\ (killing # "no" => timedOut \/ interrupted)
    /\ gatePc = "reaping" => listener = "reap" /\ leader \in {"ok", "red", "signal"}
    /\ listener = "reap" => gatePc = "reaping"
    /\ gatePc = "settled" => result # "none"
    /\ gatePc = "healing" => attempt < HealAttempts
    /\ outcome # "none" => gatePc = "done"
    /\ gatePc \in {"running", "reaping", "settled", "healing"} => Gate!This \in ran

\* What the child's exit and the result made of it say about HEAD: the gates before passed.
HeadInv ==
    /\ gatePc # "dead" => \A i \in 1..(gate - 1) : i \notin bad
    /\ gatePc \in {"running", "reaping"} /\ leader = "ok" => gate \notin bad
    /\ gatePc \in {"running", "reaping"} /\ leader = "red" =>
          gate \in bad \/ blip \/ timedOut \/ interrupted
    /\ gatePc = "settled" /\ result = "ok" => gate \notin bad
    /\ gatePc = "settled" /\ result = "red" => gate \in bad \/ blip

\* The verdict that was frozen at the close is the exit, and a warning is of survivors.
TellsInv ==
    /\ gatePc = "reaping" /\ verdict # "none" =>
          ~timedOut /\ ~interrupted /\ leader = verdict
    /\ gatePc = "settled" /\ warning => Gate!This \in survivors

GateInv == Gate!GateTells /\ PlaceInv /\ HeadInv /\ TellsInv

\* Executions come one after the other, and the one in progress is the last.
OrderInv ==
    /\ \A y \in ran : \/ y = Gate!This /\ gatePc # "start"
                      \/ y[1] < attempt
                      \/ y[1] = attempt /\ y[2] < gate
                      \/ y[1] = attempt /\ y[2] = gate /\ y[3] < try
    /\ gatePc \in {"start", "running", "reaping"} => Gate!This \notin survivors

\* The warnings of the gates that passed are of this call, and handed on when it returns.
CallInv ==
    /\ \A x \in warnings : x[1] = attempt /\ x[2] < gate
    /\ gatePc \in {"healing", "done"} => warnings = {}
    /\ gatePc = "done" => collected \subseteq told
    /\ abort => gatePc = "reaping" \/ (gatePc = "dead" /\ (Gate!This \in survivors => Gate!This \in told))

\* Where the code drops the warning of an execution: it is run again, or a later gate of the same
\* call failed.
Dropped(x) ==
    \/ gatePc = "start" /\ try = 2 /\ x = <<attempt, gate, 1>>
    \/ /\ Gate!RunAfter(x)
       /\ \/ Gate!Retried(x) \/ x[1] < attempt \/ gatePc = "healing"
          \/ gatePc = "done" /\ outcome # "green"

\* Where the warning of each execution that left processes behind is.
Kept(x) ==
    \/ x \in told \/ x \in collected \/ x \in warnings
    \/ gatePc = "settled" /\ warning /\ x = Gate!This

SurvivorsInv ==
    /\ OrderInv /\ CallInv
    /\ gatePc # "dead" => \A x \in survivors : Kept(x) \/ Dropped(x)

-----------------------------------------------------------------------------
(* The usage wait: startup. *)

LEMMA Constants ==
    /\ Poll \in Nat \ {0} /\ MaxWait \in Nat \ {0} /\ NoHit = MaxWait + 1
    /\ Main \in Accounts /\ Fallback \in Accounts /\ Main # Fallback
    /\ \A p \in Phases, a \in Accounts : <<a, ModelOf[p]>> \in Pairs
    /\ \A a \in Accounts : Other(a) \in Accounts
BY UsageAssumption DEF NoHit, Accounts, Pairs, Other

LEMMA WaitStarts ==
    ASSUME NEW s \in {"config", "refused"}, InitAt(s)
    PROVE  WaitInv
<1>1. TypeOK
  <2>1. /\ env \in FallbackEnv /\ cli \in BOOLEAN /\ tokenOk \in BOOLEAN /\ up \in [Pairs -> BOOLEAN]
        /\ stage \in {"config", "usage", "fallback", "ready", "refused"} /\ waitOn \in BOOLEAN
        /\ accounts \in {{Main}, Accounts} /\ active \in accounts
    BY DEF InitAt
  <2>2. /\ cool \in 0..Poll /\ due \in [Pairs -> 0..Poll] /\ calls \in [Pairs -> Nat]
        /\ slot \in [Pairs -> {"free", "sleeping", "asking"}]
    BY Constants DEF InitAt
  <2>3. /\ pc \in [Phases -> {"idle", "running"} \cup Awaiting \cup Settled]
        /\ on \in [Phases -> accounts] /\ heard \in [Phases -> {"nothing", "yes", "no"}]
        /\ left \in [Phases -> 0..NoHit] /\ ago \in [Phases -> 0..NoHit]
    BY Constants DEF InitAt
  <2>. QED
    BY <2>1, <2>2, <2>3 DEF TypeOK
<1>2. StartupInv /\ ProbeInv
  BY Constants DEF InitAt, StartupInv, ProbeInv
<1>3. \A p \in Phases : CallFits(p)
  BY Constants DEF InitAt, CallFits, Fits, Awaiting
<1>. QED
  BY <1>1, <1>2, <1>3 DEF WaitInv

LEMMA StartupKeeps ==
    ASSUME WaitInv, ResolveConfig \/ \E m \in Models : checkUsageProbe(m) \/ checkFallbackAccount(m)
    PROVE  WaitInv'
<1>1. /\ stage \in {"config", "usage", "fallback"} /\ stage' \in {"usage", "fallback", "ready", "refused"}
      /\ UNCHANGED <<world, active, cool, probes, call>>
      /\ waitOn' \in BOOLEAN /\ accounts' \in {{Main}, Accounts}
      /\ stage' # "ready" => accounts' = accounts
  <2>1. CASE ResolveConfig
    BY <2>1 DEF WaitInv, TypeOK, ResolveConfig, pool
  <2>2. ASSUME NEW m \in Models, checkUsageProbe(m)
        PROVE  /\ stage = "usage" /\ stage' = "fallback" /\ waitOn' \in BOOLEAN
               /\ UNCHANGED <<world, accounts, active, cool, probes, call>>
    BY <2>2 DEF checkUsageProbe, WaitStaysOn
  <2>3. ASSUME NEW m \in Models, checkFallbackAccount(m)
        PROVE  /\ stage = "fallback" /\ stage' = "ready" /\ accounts' \in {{Main}, Accounts}
               /\ UNCHANGED <<world, waitOn, active, cool, probes, call>>
    BY <2>3 DEF checkFallbackAccount
  <2>. QED
    BY <2>1, <2>2, <2>3 DEF WaitInv, TypeOK
<1>2. accounts = {Main} /\ \A p \in Phases : pc[p] = "idle" /\ on[p] = Main
  BY <1>1 DEF WaitInv, StartupInv, TypeOK
<1>3. waitOn' => cli
  <2>1. CASE waitOn' = waitOn
    BY <2>1 DEF WaitInv, StartupInv
  <2>2. ASSUME NEW m \in Models, checkUsageProbe(m)
        PROVE  waitOn' => cli
    BY <2>2 DEF checkUsageProbe, Outputs, WaitStaysOn, classifyProbeOutput
  <2>. QED
    BY <2>1, <2>2 DEF ResolveConfig, checkFallbackAccount, pool
<1>4. Fallback \in accounts' => tokenOk /\ resolveFallbackAccount(env) = "enabled"
  <2>1. CASE accounts' = accounts
    BY <2>1 DEF WaitInv, StartupInv
  <2>2. ASSUME NEW m \in Models, checkFallbackAccount(m)
        PROVE  Fallback \in accounts' => tokenOk /\ resolveFallbackAccount(env) = "enabled"
    <3>1. CASE waitOn /\ resolveFallbackAccount(env) = "enabled"
      <4>1. PICK o \in Outputs(Fallback, m) :
               accounts' = IF FallbackStays(classifyProbeOutput(o)) THEN Accounts ELSE {Main}
        BY <2>2, <3>1 DEF checkFallbackAccount
      <4>2. ~tokenOk => ~FallbackStays(classifyProbeOutput(o))
        BY <4>1 DEF Outputs, FallbackStays, classifyProbeOutput
      <4>. QED
        BY <3>1, <4>1, <4>2, Constants
    <3>2. CASE ~(waitOn /\ resolveFallbackAccount(env) = "enabled")
      BY <2>2, <3>2, Constants DEF checkFallbackAccount
    <3>. QED
      BY <3>1, <3>2
  <2>. QED
    BY <2>1, <2>2 DEF ResolveConfig, checkUsageProbe, pool
<1>5. TypeOK'
  BY <1>1, <1>2, Constants DEF WaitInv, TypeOK, world, probes, call, Accounts
<1>6. StartupInv' /\ ProbeInv'
  BY <1>1, <1>2, <1>3, <1>4 DEF WaitInv, StartupInv, ProbeInv, world, probes, call,
     resolveFallbackAccount
<1>7. ASSUME NEW p \in Phases
      PROVE  CallFits(p)'
  BY <1>1, <1>2 DEF WaitInv, CallFits, Fits, call, Awaiting
<1>. QED
  BY <1>5, <1>6, <1>7 DEF WaitInv

-----------------------------------------------------------------------------
(* The usage wait: probes. *)

\* A call that needs an answer joins the probe of its pair or starts the only one.
LEMMA AnswersFit ==
    ASSUME WaitInv, NEW p \in Phases, NEW a \in Accounts, NEW after \in 0..Poll, answers(p, a, after)
    PROVE  /\ slot' \in [Pairs -> {"free", "sleeping", "asking"}] /\ due' \in [Pairs -> 0..Poll]
           /\ calls' \in [Pairs -> Nat] /\ heard' \in [Phases -> {"nothing", "yes", "no"}]
           /\ ProbeInv'
<1>. DEFINE q == <<a, ModelOf[p]>>
<1>1. q \in Pairs /\ heard' = [heard EXCEPT ![p] = "nothing"] /\ TypeOK /\ ProbeInv
  BY Constants DEF answers, WaitInv
<1>2. CASE Joins(q)
  BY <1>1, <1>2 DEF answers, probes, TypeOK, ProbeInv
<1>3. CASE ~Joins(q)
  <2>1. /\ slot' = [slot EXCEPT ![q] = IF after > 0 THEN "sleeping" ELSE "asking"]
        /\ due' = [due EXCEPT ![q] = after]
        /\ calls' = [calls EXCEPT ![q] = IF after > 0 THEN @ ELSE @ + 1]
    BY <1>3 DEF answers
  <2>2. calls[q] = 0 /\ slot[q] = "free"
    BY <1>1, <1>3 DEF ProbeInv, Joins
  <2>. HIDE DEF q
  <2>3. calls' = [calls EXCEPT ![q] = IF after > 0 THEN 0 ELSE 1]
    BY <2>1, <2>2
  <2>. QED
    BY <1>1, <2>1, <2>2, <2>3 DEF TypeOK, ProbeInv
<1>. QED
  BY <1>2, <1>3

LEMMA ProbesKeep ==
    ASSUME WaitInv, NEW q \in Pairs, Wake(q) \/ ProbeEnds(q) \/ LimitChanges(q)
    PROVE  WaitInv'
<1>1. /\ UNCHANGED <<env, cli, tokenOk, stage, pool, pc, on, left, ago>>
  BY DEF Wake, ProbeEnds, LimitChanges, world, call
<1>2. /\ TypeOK /\ ProbeInv
  BY DEF WaitInv
<1>3. /\ slot' \in [Pairs -> {"free", "sleeping", "asking"}] /\ due' \in [Pairs -> 0..Poll]
      /\ calls' \in [Pairs -> Nat] /\ heard' \in [Phases -> {"nothing", "yes", "no"}]
      /\ up' \in [Pairs -> BOOLEAN] /\ ProbeInv'
  <2>1. CASE Wake(q)
    <3>0. calls[q] = 0
      BY <1>2, <2>1 DEF Wake, ProbeInv
    <3>1. calls' = [calls EXCEPT ![q] = 1] /\ slot' = [slot EXCEPT ![q] = "asking"]
      BY <2>1, <3>0 DEF Wake
    <3>. QED
      BY <1>2, <2>1, <3>1 DEF Wake, TypeOK, ProbeInv, world, call
  <2>2. CASE ProbeEnds(q)
    <3>0. calls[q] = 1
      BY <1>2, <2>2 DEF ProbeEnds, ProbeInv
    <3>1. calls' = [calls EXCEPT ![q] = 0] /\ slot' = [slot EXCEPT ![q] = "free"]
      BY <2>2, <3>0 DEF ProbeEnds
    <3>2. heard' \in [Phases -> {"nothing", "yes", "no"}]
      BY <1>2, <2>2 DEF ProbeEnds, TypeOK
    <3>. QED
      BY <1>2, <2>2, <3>1, <3>2 DEF ProbeEnds, TypeOK, ProbeInv, world
  <2>3. CASE LimitChanges(q)
    BY <1>2, <2>3 DEF LimitChanges, TypeOK, ProbeInv, probes, call
  <2>. QED
    BY <2>1, <2>2, <2>3
<1>4. TypeOK'
  BY <1>1, <1>2, <1>3 DEF TypeOK, pool
<1>5. StartupInv'
  BY <1>1 DEF WaitInv, StartupInv, pool, resolveFallbackAccount
<1>6. ASSUME NEW p \in Phases
      PROVE  CallFits(p)'
  BY <1>1 DEF WaitInv, CallFits, Fits, pool
<1>. QED
  BY <1>3, <1>4, <1>5, <1>6 DEF WaitInv

-----------------------------------------------------------------------------
(* The usage wait: time. *)

LEMMA TickKeeps ==
    ASSUME WaitInv, Tick
    PROVE  WaitInv'
<1>1. TypeOK /\ UNCHANGED <<world, stage, waitOn, accounts, active, slot, calls, pc, on, heard>>
  BY DEF WaitInv, Tick
<1>2. \A n \in Nat : Less(n) \in Nat /\ Less(n) <= n
  BY DEF Less
<1>3. cool' \in 0..Poll /\ due' \in [Pairs -> 0..Poll]
  BY <1>1, <1>2, Constants DEF Tick, TypeOK
<1>4. ASSUME NEW p \in Phases
      PROVE  /\ left'[p] \in 0..NoHit /\ ago'[p] \in 0..NoHit
             /\ CallFits(p)'
  <2>1. /\ left[p] \in 0..NoHit /\ ago[p] \in 0..NoHit
        /\ left'[p] = IF left[p] = NoHit THEN NoHit ELSE IF left[p] = 0 THEN 0 ELSE left[p] - 1
        /\ ago'[p] = IF ago[p] < MaxWait THEN ago[p] + 1 ELSE ago[p]
    BY <1>1 DEF Tick, TypeOK, Less
  <2>2. left[p] = NoHit <=> ago[p] = NoHit
    BY DEF WaitInv, CallFits, Fits
  <2>3. left[p] # NoHit => left[p] + ago[p] = MaxWait
    BY DEF WaitInv, CallFits, Fits
  <2>4. /\ left'[p] \in 0..NoHit /\ ago'[p] \in 0..NoHit
        /\ left'[p] = NoHit <=> left[p] = NoHit
        /\ left'[p] = NoHit <=> ago'[p] = NoHit
        /\ left'[p] # NoHit => left'[p] + ago'[p] = MaxWait
        /\ left[p] = 0 => left'[p] = 0
    BY <2>1, <2>2, <2>3, Constants
  <2>. QED
    BY <1>1, <2>4 DEF WaitInv, CallFits, Fits
<1>5. left' \in [Phases -> 0..NoHit] /\ ago' \in [Phases -> 0..NoHit]
  BY <1>4 DEF Tick
<1>6. TypeOK'
  BY <1>1, <1>3, <1>5 DEF TypeOK, world
<1>7. StartupInv' /\ ProbeInv'
  BY <1>1 DEF WaitInv, StartupInv, ProbeInv, world, resolveFallbackAccount
<1>. QED
  BY <1>4, <1>6, <1>7 DEF WaitInv

-----------------------------------------------------------------------------
(* The usage wait: phases. *)

Places == {"idle", "running"} \cup Awaiting \cup Settled

\* What an action of one phase has to show of that phase.
LEMMA PhaseKeeps ==
    ASSUME WaitInv, NEW p \in Phases, stage = "ready", UNCHANGED <<world, stage, waitOn, accounts>>,
           active' \in accounts, cool' \in 0..Poll,
           slot' \in [Pairs -> {"free", "sleeping", "asking"}], due' \in [Pairs -> 0..Poll],
           calls' \in [Pairs -> Nat], heard' \in [Phases -> {"nothing", "yes", "no"}], ProbeInv',
           NEW x \in Places, NEW a \in accounts, NEW l \in 0..NoHit, NEW g \in 0..NoHit,
           Fits(x, a, l, g),
           pc' = [pc EXCEPT ![p] = x], on' = [on EXCEPT ![p] = a],
           left' = [left EXCEPT ![p] = l], ago' = [ago EXCEPT ![p] = g]
    PROVE  WaitInv'
<1>1. TypeOK
  BY DEF WaitInv
<1>2. /\ pc' \in [Phases -> Places] /\ on' \in [Phases -> accounts]
      /\ left' \in [Phases -> 0..NoHit] /\ ago' \in [Phases -> 0..NoHit]
  BY <1>1 DEF TypeOK, Places
<1>3. TypeOK'
  BY <1>1, <1>2 DEF TypeOK, world, Places
<1>4. StartupInv'
  BY DEF WaitInv, StartupInv, world, resolveFallbackAccount
<1>5. ASSUME NEW q \in Phases
      PROVE  CallFits(q)'
  <2>1. CASE q = p
    <3>1. pc'[q] = x /\ on'[q] = a /\ left'[q] = l /\ ago'[q] = g
      BY <1>1, <2>1 DEF TypeOK
    <3>. QED
      BY <3>1 DEF CallFits, Fits
  <2>2. CASE q # p
    <3>1. pc'[q] = pc[q] /\ on'[q] = on[q] /\ left'[q] = left[q] /\ ago'[q] = ago[q]
      BY <1>1, <2>2 DEF TypeOK
    <3>. QED
      BY <3>1 DEF WaitInv, CallFits, Fits
  <2>. QED
    BY <2>1, <2>2
<1>. QED
  BY <1>3, <1>4, <1>5 DEF WaitInv

\* What is known of a phase between its steps, and of a phase that has begun.
LEMMA PhaseHas ==
    ASSUME WaitInv, NEW p \in Phases
    PROVE  /\ pc[p] \in Places /\ on[p] \in accounts /\ on[p] \in Accounts
           /\ left[p] \in 0..NoHit /\ ago[p] \in 0..NoHit /\ heard[p] \in {"nothing", "yes", "no"}
           /\ Fits(pc[p], on[p], left[p], ago[p])
           /\ active \in accounts /\ active \in Accounts /\ cool \in 0..Poll
           /\ Main \in accounts /\ accounts \subseteq Accounts
           /\ pc[p] # "idle" => stage = "ready"
           /\ left = [left EXCEPT ![p] = left[p]] /\ ago = [ago EXCEPT ![p] = ago[p]]
           /\ on = [on EXCEPT ![p] = on[p]]
           /\ slot \in [Pairs -> {"free", "sleeping", "asking"}] /\ due \in [Pairs -> 0..Poll]
           /\ calls \in [Pairs -> Nat] /\ [heard EXCEPT ![p] = "nothing"] \in [Phases -> {"nothing", "yes", "no"}]
           /\ ProbeInv
<1>1. TypeOK /\ ProbeInv /\ CallFits(p)
  BY DEF WaitInv
<1>2. Main \in accounts /\ accounts \subseteq Accounts
  BY <1>1 DEF TypeOK, Accounts
<1>3. pc[p] # "idle" => stage = "ready"
  BY DEF WaitInv, StartupInv
<1>4. /\ pc[p] \in Places /\ on[p] \in accounts
      /\ left[p] \in 0..NoHit /\ ago[p] \in 0..NoHit /\ heard[p] \in {"nothing", "yes", "no"}
      /\ active \in accounts /\ cool \in 0..Poll
      /\ slot \in [Pairs -> {"free", "sleeping", "asking"}] /\ due \in [Pairs -> 0..Poll]
      /\ calls \in [Pairs -> Nat]
  BY <1>1 DEF TypeOK, Places
<1>5. /\ left = [left EXCEPT ![p] = left[p]] /\ ago = [ago EXCEPT ![p] = ago[p]]
      /\ on = [on EXCEPT ![p] = on[p]]
      /\ [heard EXCEPT ![p] = "nothing"] \in [Phases -> {"nothing", "yes", "no"}]
  BY <1>1 DEF TypeOK
<1>. QED
  BY <1>1, <1>2, <1>3, <1>4, <1>5 DEF CallFits

LEMMA RunKeeps ==
    ASSUME WaitInv, NEW p \in Phases, NEW a \in accounts, RunOn(p, a), stage = "ready",
           UNCHANGED <<world, stage, waitOn, accounts>>, active' \in accounts, cool' \in 0..Poll,
           NEW l \in 0..NoHit, NEW g \in 0..NoHit, Fits("running", a, l, g),
           left' = [left EXCEPT ![p] = l], ago' = [ago EXCEPT ![p] = g]
    PROVE  WaitInv'
<1>1. /\ pc' = [pc EXCEPT ![p] = "running"] /\ on' = [on EXCEPT ![p] = a]
      /\ heard' = [heard EXCEPT ![p] = "nothing"] /\ UNCHANGED <<slot, due, calls>>
  BY DEF RunOn, probes
<1>2. "running" \in Places /\ ProbeInv'
  BY <1>1, PhaseHas DEF Places, ProbeInv
<1>. QED
  BY <1>1, <1>2, PhaseHas, PhaseKeeps

LEMMA SettleKeeps ==
    ASSUME WaitInv, NEW p \in Phases, NEW how \in Settled, Settle(p, how), stage = "ready",
           UNCHANGED <<world, stage, waitOn, accounts>>, active' \in accounts, cool' \in 0..Poll,
           NEW l \in 0..NoHit, NEW g \in 0..NoHit, Fits(how, on[p], l, g),
           left' = [left EXCEPT ![p] = l], ago' = [ago EXCEPT ![p] = g]
    PROVE  WaitInv'
<1>1. /\ pc' = [pc EXCEPT ![p] = how] /\ on' = [on EXCEPT ![p] = on[p]]
      /\ heard' = [heard EXCEPT ![p] = "nothing"] /\ UNCHANGED <<slot, due, calls>>
  BY PhaseHas DEF Settle, probes
<1>2. how \in Places /\ ProbeInv'
  BY <1>1, PhaseHas DEF Places, ProbeInv
<1>. QED
  BY <1>1, <1>2, PhaseHas, PhaseKeeps

LEMMA AskKeeps ==
    ASSUME WaitInv, NEW p \in Phases, NEW x \in Awaiting, NEW b \in Accounts, NEW after \in 0..Poll,
           pc' = [pc EXCEPT ![p] = x], answers(p, b, after), UNCHANGED on, stage = "ready",
           UNCHANGED <<world, stage, waitOn, accounts>>, active' \in accounts, cool' \in 0..Poll,
           NEW l \in 0..NoHit, NEW g \in 0..NoHit, Fits(x, on[p], l, g),
           left' = [left EXCEPT ![p] = l], ago' = [ago EXCEPT ![p] = g]
    PROVE  WaitInv'
<1>1. x \in Places /\ on' = [on EXCEPT ![p] = on[p]]
  BY PhaseHas DEF Places
<1>. QED
  BY <1>1, PhaseHas, AnswersFit, PhaseKeeps

\* The deadline is over, or another poll begins.
LEMMA PollKeeps ==
    ASSUME WaitInv, NEW p \in Phases, NEW l \in 0..NoHit, NEW g \in 0..NoHit, PollOrGiveUp(p, l),
           stage = "ready", waitOn, l # NoHit, g # NoHit, l + g = MaxWait,
           UNCHANGED <<world, stage, waitOn, accounts>>, active' \in accounts, cool' \in 0..Poll,
           left' = [left EXCEPT ![p] = l], ago' = [ago EXCEPT ![p] = g]
    PROVE  WaitInv'
<1>1. CASE l = 0
  <2>1. "gaveUp" \in Settled /\ Settle(p, "gaveUp") /\ Fits("gaveUp", on[p], l, g)
    BY <1>1, Constants DEF PollOrGiveUp, Settled, Fits, Awaiting
  <2>. QED
    BY <2>1, SettleKeeps
<1>2. CASE l # 0
  <2>1. /\ pc' = [pc EXCEPT ![p] = "pollMain"] /\ answers(p, Main, Poll) /\ UNCHANGED on
        /\ "pollMain" \in Awaiting /\ Poll \in 0..Poll
        /\ Fits("pollMain", on[p], l, g)
    BY <1>2, Constants DEF PollOrGiveUp, Fits, Awaiting
  <2>. QED
    BY <2>1, AskKeeps, Constants
<1>. QED
  BY <1>1, <1>2

LEMMA SwitchFits ==
    ASSUME WaitInv, NEW a \in accounts, switchTo(a)
    PROVE  active' \in accounts /\ cool' \in 0..Poll
BY Constants DEF WaitInv, TypeOK, switchTo

LEMMA StartKeeps ==
    ASSUME WaitInv, NEW p \in Phases, Start(p)
    PROVE  WaitInv'
<1>1. /\ stage = "ready" /\ UNCHANGED <<world, stage>>
      /\ left' = [left EXCEPT ![p] = NoHit] /\ ago' = [ago EXCEPT ![p] = NoHit]
      /\ NoHit \in 0..NoHit
  BY Constants DEF Start, NewBudget
<1>2. CASE StartsAsIs /\ RunOn(p, IF waitOn THEN active ELSE Main) /\ UNCHANGED pool
  <2>1. /\ (IF waitOn THEN active ELSE Main) \in accounts /\ active' \in accounts /\ cool' \in 0..Poll
        /\ UNCHANGED <<waitOn, accounts>>
    BY <1>2, PhaseHas DEF pool
  <2>2. Fits("running", IF waitOn THEN active ELSE Main, NoHit, NoHit)
    BY Constants DEF Fits, Awaiting
  <2>. QED
    BY <1>1, <1>2, <2>1, <2>2, RunKeeps
<1>3. CASE /\ ~StartsAsIs /\ cool' = Poll /\ pc' = [pc EXCEPT ![p] = "checkMain"]
           /\ answers(p, Main, 0) /\ UNCHANGED <<on, waitOn, accounts, active>>
  <2>1. active' \in accounts /\ cool' \in 0..Poll /\ 0 \in 0..Poll /\ "checkMain" \in Awaiting
    BY <1>3, PhaseHas, Constants DEF Awaiting
  <2>2. Fits("checkMain", on[p], NoHit, NoHit)
    BY <1>3, Constants DEF Fits, StartsAsIs
  <2>. QED
    BY <1>1, <1>3, <2>1, <2>2, AskKeeps, Constants
<1>. QED
  BY <1>2, <1>3 DEF Start

LEMMA CheckedKeeps ==
    ASSUME WaitInv, NEW p \in Phases, CheckedMain(p)
    PROVE  WaitInv'
<1>1. /\ pc[p] = "checkMain" /\ RunOn(p, active') /\ UNCHANGED <<world, stage, waitOn, accounts, left, ago>>
      /\ stage = "ready"
  BY PhaseHas DEF CheckedMain
<1>2. active' \in accounts /\ cool' \in 0..Poll
  BY PhaseHas, SwitchFits DEF CheckedMain
<1>3. Fits("running", active', left[p], ago[p])
  BY PhaseHas DEF Fits, Awaiting
<1>4. left' = [left EXCEPT ![p] = left[p]] /\ ago' = [ago EXCEPT ![p] = ago[p]]
  BY <1>1, PhaseHas
<1>. DEFINE l == left[p]
            g == ago[p]
<1>5. l \in 0..NoHit /\ g \in 0..NoHit
  BY PhaseHas
<1>. HIDE DEF l, g
<1>. QED
  BY <1>1, <1>2, <1>3, <1>4, <1>5, RunKeeps DEF l, g

\* A phase that returns or throws, for a real reason or with the wait off.
LEMMA ReturnKeeps ==
    ASSUME WaitInv, NEW p \in Phases, NEW how \in {"ok", "threw"}, Settle(p, how), stage = "ready",
           UNCHANGED <<world, stage, pool, left, ago>>
    PROVE  WaitInv'
<1>1. /\ UNCHANGED <<waitOn, accounts>> /\ active' \in accounts /\ cool' \in 0..Poll /\ how \in Settled
  BY PhaseHas DEF pool, Settled
<1>2. Fits(how, on[p], left[p], ago[p])
  BY PhaseHas DEF Fits, Awaiting
<1>3. left' = [left EXCEPT ![p] = left[p]] /\ ago' = [ago EXCEPT ![p] = ago[p]]
      /\ left[p] \in 0..NoHit /\ ago[p] \in 0..NoHit
  BY PhaseHas
<1>. QED
  BY <1>1, <1>2, <1>3, SettleKeeps

LEMMA FailKeeps ==
    ASSUME WaitInv, NEW p \in Phases, Fail(p)
    PROVE  WaitInv'
<1>1. /\ pc[p] = "running" /\ UNCHANGED <<world, stage, pool, left, ago>> /\ stage = "ready"
  BY PhaseHas DEF Fail
<1>2. CASE ~waitOn /\ Settle(p, "threw")
  BY <1>1, <1>2, ReturnKeeps
<1>3. CASE /\ waitOn /\ pc' = [pc EXCEPT ![p] = "diagnose"] /\ answers(p, on[p], 0) /\ UNCHANGED on
  <2>1. /\ UNCHANGED <<waitOn, accounts>> /\ active' \in accounts /\ cool' \in 0..Poll
        /\ "diagnose" \in Awaiting /\ 0 \in 0..Poll /\ on[p] \in Accounts
    BY <1>1, PhaseHas, Constants DEF pool, Awaiting
  <2>2. Fits("diagnose", on[p], left[p], ago[p])
    BY <1>3, PhaseHas DEF Fits
  <2>3. left' = [left EXCEPT ![p] = left[p]] /\ ago' = [ago EXCEPT ![p] = ago[p]]
        /\ left[p] \in 0..NoHit /\ ago[p] \in 0..NoHit
    BY <1>1, PhaseHas
  <2>. QED
    BY <1>1, <1>3, <2>1, <2>2, <2>3, AskKeeps
<1>. QED
  BY <1>2, <1>3 DEF Fail

LEMMA DiagnosedKeeps ==
    ASSUME WaitInv, NEW p \in Phases, Diagnosed(p)
    PROVE  WaitInv'
<1>1. /\ pc[p] = "diagnose" /\ UNCHANGED <<world, stage, pool>> /\ stage = "ready" /\ waitOn
  BY PhaseHas DEF Diagnosed, Fits, Awaiting
<1>2. CASE heard[p] = "yes"
  BY <1>1, <1>2, ReturnKeeps DEF Diagnosed
<1>3. CASE heard[p] = "no"
  <2>. DEFINE l == Budget(p)
              g == IF ago[p] = NoHit THEN 0 ELSE ago[p]
  <2>1. /\ left' = [left EXCEPT ![p] = l] /\ ago' = [ago EXCEPT ![p] = g]
        /\ IF l > 0 /\ HasOther(p)
              THEN /\ pc' = [pc EXCEPT ![p] = "tryOther"] /\ answers(p, Other(on[p]), 0)
                   /\ UNCHANGED on
              ELSE PollOrGiveUp(p, l)
    BY <1>3 DEF Diagnosed
  <2>2. l \in 0..NoHit /\ g \in 0..NoHit /\ l # NoHit /\ g # NoHit /\ l + g = MaxWait
    BY PhaseHas, Constants DEF Budget, Fits
  <2>3. UNCHANGED <<waitOn, accounts>> /\ active' \in accounts /\ cool' \in 0..Poll
    BY <1>1, PhaseHas DEF pool
  <2>. HIDE DEF l, g
  <2>4. CASE l > 0 /\ HasOther(p)
    <3>1. /\ Fits("tryOther", on[p], l, g) /\ "tryOther" \in Awaiting
          /\ Other(on[p]) \in Accounts /\ 0 \in 0..Poll
      BY <1>1, <2>2, <2>4, PhaseHas, Constants DEF Fits, HasOther, Awaiting
    <3>. QED
      BY <1>1, <2>1, <2>2, <2>3, <2>4, <3>1, AskKeeps
  <2>5. CASE ~(l > 0 /\ HasOther(p))
    BY <1>1, <2>1, <2>2, <2>3, <2>5, PollKeeps
  <2>. QED
    BY <2>4, <2>5
<1>. QED
  BY <1>2, <1>3 DEF Diagnosed

\* An account answered in time: the phase moves there.
LEMMA MoveKeeps ==
    ASSUME WaitInv, NEW p \in Phases, NEW a \in accounts, switchTo(a), RunOn(p, a), stage = "ready",
           UNCHANGED <<world, stage, waitOn, accounts, left, ago>>
    PROVE  WaitInv'
<1>1. active' \in accounts /\ cool' \in 0..Poll
  BY SwitchFits
<1>2. Fits("running", a, left[p], ago[p])
  BY PhaseHas DEF Fits, Awaiting
<1>3. left' = [left EXCEPT ![p] = left[p]] /\ ago' = [ago EXCEPT ![p] = ago[p]]
      /\ left[p] \in 0..NoHit /\ ago[p] \in 0..NoHit
  BY PhaseHas
<1>. QED
  BY <1>1, <1>2, <1>3, RunKeeps

\* No account answered: the budget decides.
LEMMA WaitOnKeeps ==
    ASSUME WaitInv, NEW p \in Phases, PollOrGiveUp(p, left[p]), stage = "ready",
           pc[p] \in {"tryOther", "pollMain", "pollOther"},
           UNCHANGED <<world, stage, waitOn, accounts, left, ago, active, cool>>
    PROVE  WaitInv'
<1>1. /\ left' = [left EXCEPT ![p] = left[p]] /\ ago' = [ago EXCEPT ![p] = ago[p]]
      /\ left[p] \in 0..NoHit /\ ago[p] \in 0..NoHit
      /\ active' \in accounts /\ cool' \in 0..Poll
  BY PhaseHas
<1>2. waitOn /\ left[p] # NoHit /\ ago[p] # NoHit /\ left[p] + ago[p] = MaxWait
  BY PhaseHas DEF Fits, Awaiting
<1>. QED
  BY <1>1, <1>2, PollKeeps

LEMMA TriedKeeps ==
    ASSUME WaitInv, NEW p \in Phases, TriedOther(p)
    PROVE  WaitInv'
<1>1. /\ pc[p] = "tryOther" /\ UNCHANGED <<world, stage, waitOn, accounts, left, ago>> /\ stage = "ready"
      /\ Other(on[p]) \in accounts
  BY PhaseHas DEF TriedOther, Fits
<1>2. CASE heard[p] = "yes"
  BY <1>1, <1>2, MoveKeeps DEF TriedOther
<1>3. CASE heard[p] # "yes"
  BY <1>1, <1>3, WaitOnKeeps DEF TriedOther
<1>. QED
  BY <1>2, <1>3

LEMMA PolledKeeps ==
    ASSUME WaitInv, NEW p \in Phases, Polled(p)
    PROVE  WaitInv'
<1>1. /\ pc[p] \in {"pollMain", "pollOther"} /\ stage = "ready"
      /\ UNCHANGED <<world, stage, waitOn, accounts, left, ago>>
      /\ pc[p] = "pollOther" => Fallback \in accounts
      /\ waitOn
  BY PhaseHas DEF Polled, Fits, Awaiting
<1>2. Asked(p)[1] \in accounts
  BY <1>1, PhaseHas DEF Asked
<1>3. CASE heard[p] = "yes"
  BY <1>1, <1>2, <1>3, MoveKeeps DEF Polled
<1>4. CASE heard[p] # "yes" /\ ~(pc[p] = "pollMain" /\ Fallback \in accounts)
  BY <1>1, <1>4, WaitOnKeeps DEF Polled
<1>5. CASE heard[p] # "yes" /\ pc[p] = "pollMain" /\ Fallback \in accounts
  <2>1. /\ pc' = [pc EXCEPT ![p] = "pollOther"] /\ answers(p, Fallback, 0) /\ UNCHANGED on
        /\ UNCHANGED <<active, cool>>
    BY <1>5 DEF Polled
  <2>2. /\ left' = [left EXCEPT ![p] = left[p]] /\ ago' = [ago EXCEPT ![p] = ago[p]]
        /\ left[p] \in 0..NoHit /\ ago[p] \in 0..NoHit
        /\ active' \in accounts /\ cool' \in 0..Poll
    BY <1>1, <2>1, PhaseHas
  <2>3. Fits("pollOther", on[p], left[p], ago[p]) /\ "pollOther" \in Awaiting /\ 0 \in 0..Poll
    BY <1>1, <1>5, PhaseHas, Constants DEF Fits, Awaiting
  <2>. QED
    BY <1>1, <2>1, <2>2, <2>3, AskKeeps, Constants
<1>. QED
  BY <1>3, <1>4, <1>5

LEMMA WaitStep ==
    ASSUME WaitInv, Next
    PROVE  WaitInv'
<1>1. ASSUME NEW p \in Phases, Succeed(p)
      PROVE  WaitInv'
  BY <1>1, PhaseHas, ReturnKeeps DEF Succeed
<1>2. ASSUME NEW p \in Phases, Start(p) \/ Fail(p) \/ Resume(p)
      PROVE  WaitInv'
  BY <1>2, StartKeeps, FailKeeps, CheckedKeeps, DiagnosedKeeps, TriedKeeps, PolledKeeps DEF Resume
<1>. QED
  BY <1>1, <1>2, StartupKeeps, ProbesKeep, TickKeeps DEF Next

LEMMA WaitHolds == WaitInv => WaitSafe
<1>1. ASSUME WaitInv
      PROVE  WaitSafe
  <2>1. OneProbePerPair
    BY <1>1 DEF WaitInv, ProbeInv, OneProbePerPair
  <2>2. StartupFailsSafe
    <3>1. ~cli => \A p \in Phases : pc[p] \notin Awaiting
      BY <1>1 DEF WaitInv, StartupInv, CallFits, Fits
    <3>2. ASSUME NEW p \in Phases, on[p] = Fallback
          PROVE  tokenOk /\ env.token /\ env.listed /\ ~env.apiKey
      <4>1. Fallback \in accounts
        BY <1>1, <3>2, PhaseHas
      <4>2. tokenOk /\ resolveFallbackAccount(env) = "enabled"
        BY <1>1, <4>1 DEF WaitInv, StartupInv
      <4>. QED
        BY <4>2 DEF resolveFallbackAccount
    <3>. QED
      BY <3>1, <3>2 DEF StartupFailsSafe
  <2>3. WholeWait
    <3>1. ASSUME NEW p \in Phases, pc[p] = "gaveUp"
          PROVE  ago[p] = MaxWait
      BY <1>1, <3>1, PhaseHas, Constants DEF Fits
    <3>. QED
      BY <3>1 DEF WholeWait
  <2>. QED
    BY <1>1, <2>1, <2>2, <2>3 DEF WaitInv, WaitSafe
<1>. QED
  BY <1>1

-----------------------------------------------------------------------------
(* The gate. *)

LEMMA GateStarts ==
    ASSUME NEW place \in {"start", "done"}, Gate!InitAt(place)
    PROVE  GateInv
<1>1. 1 \in 1..Len(Gates) /\ Len(Gates) \in Nat /\ HealAttempts \in Nat /\ MaxSignals \in Nat
  BY GateAssumption
<1>2. Gate!TypeOK
  <2>1. gate \in Gate!Indices /\ try \in 1..2 /\ attempt \in 0..HealAttempts /\ signals \in 0..MaxSignals
    BY <1>1 DEF Gate!InitAt, Gate!Indices
  <2>. QED
    BY <2>1 DEF Gate!InitAt, Gate!TypeOK
<1>3. \A i \in 1..(gate - 1) : i \notin bad
  BY DEF Gate!InitAt
<1>. QED
  BY <1>2, <1>3 DEF Gate!InitAt, GateInv, Gate!GateTells, PlaceInv, HeadInv, TellsInv,
     Gate!VerdictStands, Gate!RedIsDelivered, Gate!GreenIsWhole

\* The type in parts, each for the prover it suits: what is counted, what is true or false,
\* what has a name, and the executions.
Counted ==
    /\ bad \subseteq Gate!Indices /\ gate \in Gate!Indices /\ try \in 1..2
    /\ attempt \in 0..HealAttempts /\ signals \in 0..MaxSignals

Marked ==
    /\ docker \in BOOLEAN /\ timer \in BOOLEAN /\ timedOut \in BOOLEAN /\ interrupted \in BOOLEAN
    /\ abort \in BOOLEAN /\ marker \in BOOLEAN /\ warning \in BOOLEAN
    /\ blip \in BOOLEAN /\ answering \in BOOLEAN

Named ==
    /\ gatePc \in {"start", "running", "reaping", "settled", "healing", "done", "dead"}
    /\ leader \in {"none", "alive", "ok", "red", "signal"}
    /\ kids \in {"none", "mortal", "stuck"}
    /\ listener \in {"nobody", "forward", "reap"}
    /\ killing \in {"no", "term", "kill"}
    /\ result \in {"none", "ok", "red", "error", "interrupted"}
    /\ outcome \in {"none", "green", "red", "unverified", "interrupted", "healer-failed"}
    /\ verdict \in {"none", "ok", "red"}

Listed ==
    /\ warnings \subseteq survivors /\ collected \subseteq survivors /\ told \subseteq survivors
    /\ survivors \subseteq ran /\ ran \subseteq Gate!Executions

LEMMA GateType ==
    ASSUME GateInv
    PROVE  Counted /\ Marked /\ Named /\ Listed
BY DEF GateInv, Gate!GateTells, Gate!TypeOK, Counted, Marked, Named, Listed

LEMMA TypeFromParts ==
    ASSUME Counted', Marked', Named', Listed'
    PROVE  Gate!TypeOK'
BY DEF Gate!TypeOK, Counted, Marked, Named, Listed

LEMMA ThisRuns ==
    ASSUME GateInv
    PROVE  Gate!This \in Gate!Executions
BY GateType DEF Counted, Gate!This, Gate!Executions

\* The conjuncts of the invariant but the type, each of which some action can disturb.
GateParts ==
    /\ Gate!VerdictStands /\ Gate!RedIsDelivered /\ Gate!GreenIsWhole
    /\ PlaceInv /\ HeadInv /\ TellsInv

LEMMA StartGateKeeps ==
    ASSUME GateInv, Gate!Start
    PROVE  GateInv'
<1>1. UNCHANGED <<bad, gate, try, attempt, signals>>
  BY DEF Gate!Start, Gate!head, Gate!place, Gate!group, Gate!flags, Gate!lists, Gate!history
<1>2. /\ docker' = docker /\ timedOut' = FALSE /\ interrupted' = FALSE /\ abort' = FALSE /\ marker' = FALSE
      /\ warning' = FALSE /\ blip' = FALSE /\ answering' = TRUE /\ (timer' = timer \/ timer' = TRUE)
  BY DEF Gate!Start, Gate!head, Gate!place, Gate!group, Gate!flags, Gate!lists, Gate!history
<1>3. /\ outcome' = outcome /\ verdict' = "none" /\ kids' = "none" /\ killing' = "no"
      /\ \/ gatePc' = "running" /\ leader' = "alive" /\ listener' = "forward" /\ result' = "none"
         \/ gatePc' = "settled" /\ leader' = "none" /\ listener' = listener /\ result' = "error"
  BY DEF Gate!Start, Gate!head, Gate!place, Gate!group, Gate!flags, Gate!lists, Gate!history
<1>4. gatePc = "start" /\ UNCHANGED <<warnings, collected, told, survivors>> /\ ran' = ran \cup {Gate!This}
  BY DEF Gate!Start, Gate!head, Gate!place, Gate!group, Gate!flags, Gate!lists, Gate!history
<1>5. Gate!TypeOK'
  <2>1. Counted'
    BY <1>1, GateType, GateAssumption DEF Counted, Gate!Indices
  <2>2. Marked'
    BY <1>2, GateType, Zenon DEF Marked
  <2>3. Named'
    BY <1>3, GateType DEF Named
  <2>4. Listed'
    BY <1>1, <1>4, GateType, ThisRuns DEF Listed, Gate!Executions, Gate!Indices
  <2>. QED
    BY <2>1, <2>2, <2>3, <2>4, TypeFromParts
<1>6. GateParts'
  BY <1>1, <1>2, <1>3, <1>4 DEF Gate!Start,
     GateInv, Gate!GateTells, GateParts, PlaceInv, HeadInv, TellsInv, Gate!This, Gate!NeedsDocker,
     Gate!VerdictStands, Gate!RedIsDelivered, Gate!GreenIsWhole
<1>. QED
  BY <1>5, <1>6 DEF GateInv, GateParts, Gate!GateTells

LEMMA ForksKeeps ==
    ASSUME GateInv, Gate!Forks
    PROVE  GateInv'
<1>1. UNCHANGED <<bad, gate, try, attempt, signals>>
  BY DEF Gate!Forks, Gate!head, Gate!place, Gate!group, Gate!flags, Gate!lists, Gate!history
<1>2. UNCHANGED <<docker, timer, timedOut, interrupted, abort, marker, warning, blip, answering>>
  BY DEF Gate!Forks, Gate!head, Gate!place, Gate!group, Gate!flags, Gate!lists, Gate!history
<1>3. /\ UNCHANGED <<gatePc, leader, listener, killing, result, outcome, verdict>>
      /\ kids' \in {"mortal", "stuck"}
  BY DEF Gate!Forks, Gate!head, Gate!place, Gate!group, Gate!flags, Gate!lists, Gate!history
<1>4. UNCHANGED <<warnings, collected, told, survivors, ran>>
  BY DEF Gate!Forks, Gate!head, Gate!place, Gate!group, Gate!flags, Gate!lists, Gate!history
<1>5. Gate!TypeOK'
  <2>1. Counted'
    BY <1>1, GateType, GateAssumption DEF Counted, Gate!Indices
  <2>2. Marked'
    BY <1>2, GateType, Zenon DEF Marked
  <2>3. Named'
    BY <1>3, GateType DEF Named
  <2>4. Listed'
    BY <1>1, <1>4, GateType DEF Listed, Gate!Executions, Gate!Indices
  <2>. QED
    BY <2>1, <2>2, <2>3, <2>4, TypeFromParts
<1>6. GateParts'
  BY <1>1, <1>2, <1>3, <1>4 DEF Gate!Forks,
     GateInv, Gate!GateTells, GateParts, PlaceInv, HeadInv, TellsInv, Gate!This, Gate!NeedsDocker,
     Gate!VerdictStands, Gate!RedIsDelivered, Gate!GreenIsWhole
<1>. QED
  BY <1>5, <1>6 DEF GateInv, GateParts, Gate!GateTells

LEMMA ExitsKeeps ==
    ASSUME GateInv, Gate!LeaderExits
    PROVE  GateInv'
<1>1. UNCHANGED <<bad, gate, try, attempt, signals>>
  BY DEF Gate!LeaderExits, Gate!NeedsDocker, Gate!head, Gate!place, Gate!group, Gate!flags, Gate!lists, Gate!history
<1>2. /\ UNCHANGED <<docker, timer, timedOut, interrupted, abort, warning, answering>>
      /\ (marker' = marker \/ marker' \in BOOLEAN) /\ (blip' = blip \/ blip' = TRUE)
  BY DEF Gate!LeaderExits, Gate!NeedsDocker, Gate!head, Gate!place, Gate!group, Gate!flags, Gate!lists, Gate!history
<1>3. /\ UNCHANGED <<gatePc, kids, listener, killing, result, outcome, verdict>>
      /\ leader' \in {"ok", "red"}
  BY DEF Gate!LeaderExits, Gate!NeedsDocker, Gate!head, Gate!place, Gate!group, Gate!flags, Gate!lists, Gate!history
<1>4. UNCHANGED <<warnings, collected, told, survivors, ran>>
  BY DEF Gate!LeaderExits, Gate!NeedsDocker, Gate!head, Gate!place, Gate!group, Gate!flags, Gate!lists, Gate!history
<1>5. Gate!TypeOK'
  <2>1. Counted'
    BY <1>1, GateType, GateAssumption DEF Counted, Gate!Indices
  <2>2. Marked'
    BY <1>2, GateType, Zenon DEF Marked
  <2>3. Named'
    BY <1>3, GateType DEF Named
  <2>4. Listed'
    BY <1>1, <1>4, GateType DEF Listed, Gate!Executions, Gate!Indices
  <2>. QED
    BY <2>1, <2>2, <2>3, <2>4, TypeFromParts
<1>6. GateParts'
  BY <1>1, <1>2, <1>3, <1>4 DEF Gate!LeaderExits, Gate!NeedsDocker,
     GateInv, Gate!GateTells, GateParts, PlaceInv, HeadInv, TellsInv, Gate!This, Gate!NeedsDocker,
     Gate!VerdictStands, Gate!RedIsDelivered, Gate!GreenIsWhole
<1>. QED
  BY <1>5, <1>6 DEF GateInv, GateParts, Gate!GateTells

LEMMA DiesKeeps ==
    ASSUME GateInv, Gate!LeaderDies
    PROVE  GateInv'
<1>1. UNCHANGED <<bad, gate, try, attempt, signals>>
  BY DEF Gate!LeaderDies, Gate!head, Gate!place, Gate!group, Gate!flags, Gate!lists, Gate!history
<1>2. UNCHANGED <<docker, timer, timedOut, interrupted, abort, marker, warning, blip, answering>>
  BY DEF Gate!LeaderDies, Gate!head, Gate!place, Gate!group, Gate!flags, Gate!lists, Gate!history
<1>3. UNCHANGED <<gatePc, kids, listener, killing, result, outcome, verdict>> /\ leader' = "signal"
  BY DEF Gate!LeaderDies, Gate!head, Gate!place, Gate!group, Gate!flags, Gate!lists, Gate!history
<1>4. UNCHANGED <<warnings, collected, told, survivors, ran>>
  BY DEF Gate!LeaderDies, Gate!head, Gate!place, Gate!group, Gate!flags, Gate!lists, Gate!history
<1>5. Gate!TypeOK'
  <2>1. Counted'
    BY <1>1, GateType, GateAssumption DEF Counted, Gate!Indices
  <2>2. Marked'
    BY <1>2, GateType, Zenon DEF Marked
  <2>3. Named'
    BY <1>3, GateType DEF Named
  <2>4. Listed'
    BY <1>1, <1>4, GateType DEF Listed, Gate!Executions, Gate!Indices
  <2>. QED
    BY <2>1, <2>2, <2>3, <2>4, TypeFromParts
<1>6. GateParts'
  BY <1>1, <1>2, <1>3, <1>4 DEF Gate!LeaderDies,
     GateInv, Gate!GateTells, GateParts, PlaceInv, HeadInv, TellsInv, Gate!This, Gate!NeedsDocker,
     Gate!VerdictStands, Gate!RedIsDelivered, Gate!GreenIsWhole
<1>. QED
  BY <1>5, <1>6 DEF GateInv, GateParts, Gate!GateTells

LEMMA TimeoutKeeps ==
    ASSUME GateInv, Gate!Timeout
    PROVE  GateInv'
<1>1. UNCHANGED <<bad, gate, try, attempt, signals>>
  BY DEF Gate!Timeout, Gate!head, Gate!place, Gate!group, Gate!flags, Gate!lists, Gate!history
<1>2. /\ UNCHANGED <<docker, interrupted, abort, marker, warning, blip, answering>>
      /\ timedOut' = TRUE /\ timer' = FALSE
  BY DEF Gate!Timeout, Gate!head, Gate!place, Gate!group, Gate!flags, Gate!lists, Gate!history
<1>3. UNCHANGED <<gatePc, leader, kids, listener, result, outcome, verdict>> /\ killing' = "term"
  BY DEF Gate!Timeout, Gate!head, Gate!place, Gate!group, Gate!flags, Gate!lists, Gate!history
<1>4. UNCHANGED <<warnings, collected, told, survivors, ran>>
  BY DEF Gate!Timeout, Gate!head, Gate!place, Gate!group, Gate!flags, Gate!lists, Gate!history
<1>5. Gate!TypeOK'
  <2>1. Counted'
    BY <1>1, GateType, GateAssumption DEF Counted, Gate!Indices
  <2>2. Marked'
    BY <1>2, GateType, Zenon DEF Marked
  <2>3. Named'
    BY <1>3, GateType DEF Named
  <2>4. Listed'
    BY <1>1, <1>4, GateType DEF Listed, Gate!Executions, Gate!Indices
  <2>. QED
    BY <2>1, <2>2, <2>3, <2>4, TypeFromParts
<1>6. GateParts'
  BY <1>1, <1>2, <1>3, <1>4 DEF Gate!Timeout,
     GateInv, Gate!GateTells, GateParts, PlaceInv, HeadInv, TellsInv, Gate!This, Gate!NeedsDocker,
     Gate!VerdictStands, Gate!RedIsDelivered, Gate!GreenIsWhole
<1>. QED
  BY <1>5, <1>6 DEF GateInv, GateParts, Gate!GateTells

LEMMA EscalateKeeps ==
    ASSUME GateInv, Gate!Escalate
    PROVE  GateInv'
<1>1. UNCHANGED <<bad, gate, try, attempt, signals>>
  BY DEF Gate!Escalate, Gate!Escalates, Gate!head, Gate!place, Gate!group, Gate!flags, Gate!lists, Gate!history
<1>2. UNCHANGED <<docker, timer, timedOut, interrupted, abort, marker, warning, blip, answering>>
  BY DEF Gate!Escalate, Gate!Escalates, Gate!head, Gate!place, Gate!group, Gate!flags, Gate!lists, Gate!history
<1>3. /\ UNCHANGED <<gatePc, listener, result, outcome, verdict>> /\ killing' = "kill"
      /\ leader' \in {leader, "signal"} /\ kids' \in {kids, "none"}
  BY DEF Gate!Escalate, Gate!Escalates, Gate!head, Gate!place, Gate!group, Gate!flags, Gate!lists, Gate!history
<1>4. UNCHANGED <<warnings, collected, told, survivors, ran>>
  BY DEF Gate!Escalate, Gate!Escalates, Gate!head, Gate!place, Gate!group, Gate!flags, Gate!lists, Gate!history
<1>5. Gate!TypeOK'
  <2>1. Counted'
    BY <1>1, GateType, GateAssumption DEF Counted, Gate!Indices
  <2>2. Marked'
    BY <1>2, GateType, Zenon DEF Marked
  <2>3. Named'
    BY <1>3, GateType DEF Named
  <2>4. Listed'
    BY <1>1, <1>4, GateType DEF Listed, Gate!Executions, Gate!Indices
  <2>. QED
    BY <2>1, <2>2, <2>3, <2>4, TypeFromParts
<1>6. GateParts'
  BY <1>1, <1>2, <1>3, <1>4 DEF Gate!Escalate, Gate!Escalates,
     GateInv, Gate!GateTells, GateParts, PlaceInv, HeadInv, TellsInv, Gate!This, Gate!NeedsDocker,
     Gate!VerdictStands, Gate!RedIsDelivered, Gate!GreenIsWhole
<1>. QED
  BY <1>5, <1>6 DEF GateInv, GateParts, Gate!GateTells

LEMMA CtrlCKeeps ==
    ASSUME GateInv, Gate!CtrlC
    PROVE  GateInv'
<1>1. UNCHANGED <<bad, gate, try, attempt>> /\ signals' = signals + 1 /\ signals < MaxSignals
  BY DEF Gate!CtrlC, Gate!head, Gate!place, Gate!group, Gate!flags, Gate!lists, Gate!history
<1>2. /\ UNCHANGED <<docker, timer, timedOut, marker, warning, blip, answering>>
      /\ (interrupted' = interrupted \/ interrupted' = TRUE) /\ (abort' = abort \/ abort' = TRUE)
  BY DEF Gate!CtrlC, Gate!head, Gate!place, Gate!group, Gate!flags, Gate!lists, Gate!history
<1>3. /\ UNCHANGED <<leader, kids, listener, result, outcome, verdict>>
      /\ killing' \in {killing, "term"} /\ gatePc' \in {gatePc, "dead"} /\ gatePc \notin {"done", "dead"}
  BY DEF Gate!CtrlC, Gate!head, Gate!place, Gate!group, Gate!flags, Gate!lists, Gate!history
<1>4. UNCHANGED <<warnings, collected, told, survivors, ran>>
  BY DEF Gate!CtrlC, Gate!head, Gate!place, Gate!group, Gate!flags, Gate!lists, Gate!history
<1>5. Gate!TypeOK'
  <2>1. Counted'
    BY <1>1, GateType, GateAssumption DEF Counted, Gate!Indices
  <2>2. Marked'
    BY <1>2, GateType, Zenon DEF Marked
  <2>3. Named'
    BY <1>3, GateType DEF Named
  <2>4. Listed'
    BY <1>1, <1>4, GateType DEF Listed, Gate!Executions, Gate!Indices
  <2>. QED
    BY <2>1, <2>2, <2>3, <2>4, TypeFromParts
<1>6. GateParts'
  BY <1>1, <1>2, <1>3, <1>4 DEF Gate!CtrlC,
     GateInv, Gate!GateTells, GateParts, PlaceInv, HeadInv, TellsInv, Gate!This, Gate!NeedsDocker,
     Gate!VerdictStands, Gate!RedIsDelivered, Gate!GreenIsWhole
<1>. QED
  BY <1>5, <1>6 DEF GateInv, GateParts, Gate!GateTells

LEMMA CloseKeeps ==
    ASSUME GateInv, Gate!Close
    PROVE  GateInv'
<1>1. UNCHANGED <<bad, gate, try, attempt, signals>>
  BY DEF Gate!Close, Gate!head, Gate!place, Gate!group, Gate!flags, Gate!lists, Gate!history
<1>2. UNCHANGED <<docker, timedOut, interrupted, abort, marker, warning, blip, answering>> /\ timer' = FALSE
  BY DEF Gate!Close, Gate!head, Gate!place, Gate!group, Gate!flags, Gate!lists, Gate!history
<1>3. /\ UNCHANGED <<leader, kids, killing, result, outcome>> /\ gatePc' = "reaping" /\ listener' = "reap"
      /\ (verdict' = "none" \/ (leader \in {"ok", "red"} /\ verdict' = leader))
  <2>1. leader \in {"ok", "red", "signal"}
        /\ verdict' = IF timedOut \/ interrupted \/ leader = "signal" THEN "none" ELSE leader
    BY DEF Gate!Close
  <2>2. verdict' = "none" \/ (leader \in {"ok", "red"} /\ verdict' = leader)
    <3>1. CASE timedOut \/ interrupted \/ leader = "signal"
      BY <2>1, <3>1, Zenon
    <3>2. CASE ~(timedOut \/ interrupted \/ leader = "signal")
      <4>1. verdict' = leader /\ leader # "signal"
        BY <2>1, <3>2, Zenon
      <4>. QED
        BY <2>1, <4>1
    <3>. QED
      BY <3>1, <3>2
  <2>. QED
    BY <2>2 DEF Gate!Close, Gate!head, Gate!place, Gate!group, Gate!flags, Gate!lists, Gate!history
<1>4. UNCHANGED <<warnings, collected, told, survivors, ran>>
  BY DEF Gate!Close, Gate!head, Gate!place, Gate!group, Gate!flags, Gate!lists, Gate!history
<1>5. Gate!TypeOK'
  <2>1. Counted'
    BY <1>1, GateType, GateAssumption DEF Counted, Gate!Indices
  <2>2. Marked'
    BY <1>2, GateType, Zenon DEF Marked
  <2>3. Named'
    BY <1>3, GateType DEF Named
  <2>4. Listed'
    BY <1>1, <1>4, GateType DEF Listed, Gate!Executions, Gate!Indices
  <2>. QED
    BY <2>1, <2>2, <2>3, <2>4, TypeFromParts
<1>6. GateParts'
  BY <1>1, <1>2, <1>3, <1>4 DEF Gate!Close,
     GateInv, Gate!GateTells, GateParts, PlaceInv, HeadInv, TellsInv, Gate!This, Gate!NeedsDocker,
     Gate!VerdictStands, Gate!RedIsDelivered, Gate!GreenIsWhole
<1>. QED
  BY <1>5, <1>6 DEF GateInv, GateParts, Gate!GateTells

LEMMA DockerKeeps ==
    ASSUME GateInv, Gate!DockerChanges
    PROVE  GateInv'
<1>1. UNCHANGED <<bad, gate, try, attempt, signals>>
  BY DEF Gate!DockerChanges, Gate!head, Gate!place, Gate!group, Gate!flags, Gate!lists, Gate!history
<1>2. /\ UNCHANGED <<timer, timedOut, interrupted, abort, marker, warning, blip, answering>>
      /\ docker' = ~docker
  BY DEF Gate!DockerChanges, Gate!head, Gate!place, Gate!group, Gate!flags, Gate!lists, Gate!history
<1>3. UNCHANGED <<gatePc, leader, kids, listener, killing, result, outcome, verdict>>
  BY DEF Gate!DockerChanges, Gate!head, Gate!place, Gate!group, Gate!flags, Gate!lists, Gate!history
<1>4. UNCHANGED <<warnings, collected, told, survivors, ran>>
  BY DEF Gate!DockerChanges, Gate!head, Gate!place, Gate!group, Gate!flags, Gate!lists, Gate!history
<1>5. Gate!TypeOK'
  <2>1. Counted'
    BY <1>1, GateType, GateAssumption DEF Counted, Gate!Indices
  <2>2. Marked'
    BY <1>2, GateType, Zenon DEF Marked
  <2>3. Named'
    BY <1>3, GateType DEF Named
  <2>4. Listed'
    BY <1>1, <1>4, GateType DEF Listed, Gate!Executions, Gate!Indices
  <2>. QED
    BY <2>1, <2>2, <2>3, <2>4, TypeFromParts
<1>6. GateParts'
  BY <1>1, <1>2, <1>3, <1>4 DEF Gate!DockerChanges,
     GateInv, Gate!GateTells, GateParts, PlaceInv, HeadInv, TellsInv, Gate!This, Gate!NeedsDocker,
     Gate!VerdictStands, Gate!RedIsDelivered, Gate!GreenIsWhole
<1>. QED
  BY <1>5, <1>6 DEF GateInv, GateParts, Gate!GateTells

LEMMA ReapKeeps ==
    ASSUME GateInv, Gate!Reap
    PROVE  GateInv'
<1>1. UNCHANGED <<bad, gate, try, attempt, signals>>
  BY DEF Gate!Reap, Gate!head, Gate!place
<1>2. /\ UNCHANGED <<docker, timer, timedOut, interrupted, abort, marker, blip, answering>>
      /\ (warning' = warning \/ warning' = ~Gate!Reaped)
  BY DEF Gate!Reap, Gate!head, Gate!flags, Gate!history
<1>3. /\ UNCHANGED <<leader, killing, outcome, verdict>> /\ kids' \in {kids, "none"} /\ listener' = "nobody"
      /\ gatePc = "reaping"
      /\ \/ gatePc' = "dead" /\ result' = result
         \/ gatePc' = "settled" /\ result' = Gate!Classified
  BY DEF Gate!Reap, Gate!flags, Gate!history
<1>4. /\ UNCHANGED <<warnings, collected, ran>> /\ survivors' = survivors \cup Gate!Left
      /\ told' \in {told, told \cup Gate!Left}
      /\ Gate!Left \subseteq {Gate!This}
      /\ gatePc' = "settled" /\ warning' => Gate!This \in Gate!Left
  BY DEF Gate!Reap, Gate!history, Gate!Left
<1>5. Gate!Classified \in {"ok", "red", "error", "interrupted"}
  <2>1. leader \in {"ok", "red", "signal"}
    BY <1>3 DEF GateInv, PlaceInv
  <2>. QED
    BY <2>1 DEF Gate!Classified
<1>6. Gate!TypeOK'
  <2>1. Counted'
    BY <1>1, GateType DEF Counted, Gate!Indices
  <2>2. Marked'
    <3>1. Gate!Reaped \in BOOLEAN
      BY DEF Gate!Reaped
    <3>2. warning' \in BOOLEAN
      BY <1>2, <3>1, GateType, Zenon DEF Marked
    <3>. QED
      BY <1>2, <3>2, GateType, Zenon DEF Marked
  <2>3. Named'
    BY <1>3, <1>5, GateType DEF Named
  <2>4. Listed'
    <3>1. Gate!This \in ran
      BY <1>3 DEF GateInv, PlaceInv
    <3>. QED
      BY <1>1, <1>4, <3>1, GateType DEF Listed, Gate!Executions, Gate!Indices
  <2>. QED
    BY <2>1, <2>2, <2>3, <2>4, TypeFromParts
<1>7. GateParts'
  <2>1. Gate!VerdictStands' /\ Gate!RedIsDelivered' /\ Gate!GreenIsWhole' /\ HeadInv'
    BY <1>1, <1>2, <1>3, GateType DEF Named, Gate!Classified, GateInv, Gate!GateTells, PlaceInv, HeadInv,
       TellsInv, Gate!NeedsDocker, Gate!VerdictStands, Gate!RedIsDelivered, Gate!GreenIsWhole
  <2>2. PlaceInv'
    BY <1>1, <1>3, <1>4, <1>5 DEF GateInv, PlaceInv, Gate!This
  <2>3. TellsInv'
    BY <1>1, <1>3, <1>4 DEF TellsInv, Gate!This
  <2>. QED
    BY <2>1, <2>2, <2>3 DEF GateParts
<1>. QED
  BY <1>6, <1>7 DEF GateInv, GateParts, Gate!GateTells

\* Places where a gate is run again, the healer is asked or the outcome is known.
LEMMA SettleGateKeeps ==
    ASSUME GateInv, Gate!Settle
    PROVE  GateInv'
<1>1. /\ gatePc = "settled" /\ UNCHANGED <<bad, docker, leader, kids, listener, timer, timedOut, interrupted>>
      /\ UNCHANGED <<killing, abort, marker, result, warning, verdict, blip, ran, survivors, signals>>
      /\ Counted /\ Marked /\ Named /\ Listed /\ Len(Gates) \in Nat /\ HealAttempts \in Nat
      /\ outcome = "none" /\ result \in {"ok", "red", "error", "interrupted"}
      /\ answering' = docker
  BY GateType, GateAssumption DEF Named, Gate!Settle, Gate!head, Gate!group, Gate!flags, GateInv, PlaceInv
<1>2. Gate!Warned \subseteq survivors
  BY <1>1 DEF Gate!Warned, GateInv, TellsInv
<1>3. warnings' \subseteq survivors /\ collected' \subseteq survivors /\ told' \subseteq survivors
  BY <1>1, <1>2 DEF Gate!Settle, Gate!RunAgain, Gate!Passes, Gate!Fails, Gate!Finish, Gate!Rerun,
     Gate!Collect, Listed
<1>4. \/ /\ gatePc' = "start" /\ outcome' = "none" /\ attempt' = attempt
         /\ \/ gate' = gate /\ try' = 2
            \/ result = "ok" /\ gate < Len(Gates) /\ gate' = gate + 1 /\ try' = 1
      \/ /\ UNCHANGED <<gate, try, attempt>>
         /\ \/ result = "ok" /\ gate = Len(Gates) /\ gatePc' = "done" /\ outcome' = "green"
            \/ gatePc' = "done" /\ outcome' \in {"interrupted", "unverified"}
            \/ /\ result = "red" /\ ~Gate!Unverified
               /\ \/ gatePc' = "healing" /\ outcome' = "none" /\ attempt < HealAttempts
                  \/ gatePc' = "done" /\ outcome' = "red"
  <2>1. CASE Gate!RunAgain
    BY <1>1, <2>1 DEF Gate!RunAgain, Gate!Rerun
  <2>2. CASE Gate!Passes
    <3>1. (gate < Len(Gates) \/ gate = Len(Gates)) /\ ~(gate < Len(Gates) /\ gate = Len(Gates))
      BY <1>1 DEF Counted, Gate!Indices
    <3>2. result = "ok"
      BY <2>2 DEF Gate!Passes
    <3>3. CASE gate < Len(Gates)
      <4>1. Gate!Rerun(gate + 1, 1, attempt)
        BY <2>2, <3>3 DEF Gate!Passes
      <4>. QED
        BY <1>1, <3>2, <3>3, <4>1 DEF Gate!Rerun
    <3>4. CASE gate = Len(Gates)
      <4>1. Gate!Finish("green")
        BY <2>2, <3>1, <3>4 DEF Gate!Passes
      <4>. QED
        BY <3>2, <3>4, <4>1 DEF Gate!Finish, Gate!place
    <3>. QED
      BY <3>1, <3>3, <3>4
  <2>3. CASE Gate!Fails
    <3>1. CASE result = "interrupted"
      BY <1>1, <2>3, <3>1 DEF Gate!Fails, Gate!Finish, Gate!place
    <3>2. CASE result # "interrupted"
      <4>1. IF Gate!Unverified THEN Gate!Finish("unverified")
            ELSE IF Gate!MayHeal THEN gatePc' = "healing" /\ UNCHANGED <<Gate!place, outcome>>
            ELSE Gate!Finish("red")
        BY <2>3, <3>2 DEF Gate!Fails
      <4>2. ~Gate!Unverified => result = "red"
        BY <2>3, <3>2 DEF Gate!Fails, Gate!Unverified
      <4>. QED
        BY <1>1, <4>1, <4>2 DEF Gate!Finish, Gate!MayHeal, Gate!place
    <3>. QED
      BY <3>1, <3>2
  <2>. QED
    BY <2>1, <2>2, <2>3 DEF Gate!Settle
<1>5. Gate!TypeOK'
  <2>1. Counted'
    BY <1>1, <1>4 DEF Counted, Gate!Indices
  <2>2. Marked'
    BY <1>1, Zenon DEF Marked
  <2>3. Named'
    BY <1>1, <1>4 DEF Named
  <2>4. Listed'
    BY <1>1, <1>3 DEF Listed, Gate!Executions, Gate!Indices
  <2>. QED
    BY <2>1, <2>2, <2>3, <2>4, TypeFromParts
<1>6. GateParts'
  <2>1. Gate!VerdictStands' /\ TellsInv'
    BY <1>4 DEF Gate!VerdictStands, TellsInv
  <2>2. Gate!RedIsDelivered'
    BY <1>1, <1>4 DEF GateInv, HeadInv, Gate!RedIsDelivered, Gate!NeedsDocker, Gate!Unverified
  <2>3. HeadInv' /\ Gate!GreenIsWhole'
    BY <1>1, <1>4 DEF GateInv, Counted, HeadInv, Gate!Indices, Gate!GreenIsWhole
  <2>4. PlaceInv'
    BY <1>1, <1>4 DEF GateInv, PlaceInv, Gate!This
  <2>. QED
    BY <2>1, <2>2, <2>3, <2>4 DEF GateParts
<1>. QED
  BY <1>5, <1>6 DEF GateInv, GateParts, Gate!GateTells

LEMMA HealKeeps ==
    ASSUME GateInv, Gate!Heal
    PROVE  GateInv'
<1>1. /\ gatePc = "healing" /\ UNCHANGED <<docker, leader, kids, listener, timer, timedOut, interrupted>>
      /\ UNCHANGED <<killing, abort, marker, result, warning, verdict, blip, answering, signals>>
      /\ UNCHANGED <<warnings, collected, ran, survivors>>
      /\ Counted /\ Marked /\ Named /\ Listed /\ Len(Gates) \in Nat \ {0} /\ HealAttempts \in Nat
      /\ outcome = "none" /\ attempt < HealAttempts
  BY GateType, GateAssumption DEF Gate!Heal, Gate!group, Gate!flags, Gate!history, GateInv, PlaceInv
<1>2. \/ gatePc' = "done" /\ outcome' = "healer-failed" /\ UNCHANGED <<bad, gate, try, attempt>>
      \/ gatePc' = "dead" /\ outcome' = "none" /\ bad' \subseteq Gate!Indices /\ UNCHANGED <<gate, try, attempt>>
      \/ /\ gatePc' = "start" /\ outcome' = "none" /\ bad' \subseteq Gate!Indices
         /\ gate' = 1 /\ try' = 1 /\ attempt' = attempt + 1
  BY <1>1 DEF Gate!Heal, Gate!Rerun, Gate!Finish, Gate!FirstAfterHeal, Gate!place
<1>3. told' \in {told, told \cup collected}
  BY <1>1 DEF Gate!Heal, Gate!Rerun, Gate!Finish
<1>4. Gate!TypeOK'
  <2>1. Counted'
    <3>1. CASE UNCHANGED <<gate, try, attempt>> /\ bad' \in {bad} \cup SUBSET Gate!Indices
      BY <1>1, <3>1 DEF Counted, Gate!Indices
    <3>2. CASE bad' \subseteq Gate!Indices /\ gate' = 1 /\ try' = 1 /\ attempt' = attempt + 1
      BY <1>1, <3>2 DEF Counted, Gate!Indices
    <3>. QED
      BY <1>2, <3>1, <3>2
  <2>2. Marked'
    BY <1>1, Zenon DEF Marked
  <2>3. Named'
    BY <1>1, <1>2 DEF Named
  <2>4. Listed'
    BY <1>1, <1>3 DEF Listed, Gate!Executions, Gate!Indices
  <2>. QED
    BY <2>1, <2>2, <2>3, <2>4, TypeFromParts
<1>5. GateParts'
  <2>1. HeadInv'
    <3>1. CASE gatePc' = "dead"
      BY <3>1 DEF HeadInv
    <3>2. CASE gatePc' # "dead"
      BY <1>1, <1>2, <3>2 DEF GateInv, HeadInv, Counted
    <3>. QED
      BY <3>1, <3>2
  <2>. QED
    BY <1>1, <1>2, <2>1 DEF GateInv, Gate!GateTells, GateParts, PlaceInv, TellsInv, Gate!VerdictStands,
       Gate!RedIsDelivered, Gate!GreenIsWhole
<1>. QED
  BY <1>4, <1>5 DEF GateInv, GateParts, Gate!GateTells

LEMMA GateStep ==
    ASSUME GateInv, Gate!Next
    PROVE  GateInv'
BY StartGateKeeps, ForksKeeps, ExitsKeeps, DiesKeeps, TimeoutKeeps, EscalateKeeps, CtrlCKeeps, CloseKeeps,
   ReapKeeps, SettleGateKeeps, HealKeeps, DockerKeeps DEF Gate!Next, Gate!Step

-----------------------------------------------------------------------------
(* Who is told of survivors. *)

LEMMA SurvivorsStart ==
    ASSUME NEW place \in {"start", "done"}, Gate!InitAt(place)
    PROVE  SurvivorsInv
BY DEF Gate!InitAt, SurvivorsInv, OrderInv, CallInv

\* What is an execution has its three parts.
LEMMA ExecutionHas ==
    ASSUME GateInv, NEW x \in ran
    PROVE  /\ x[1] \in 0..HealAttempts /\ x[2] \in Gate!Indices /\ x[3] \in 1..2
           /\ x = <<x[1], x[2], x[3]>>
BY GateType DEF Listed, Gate!Executions

\* An action that only moves on within an execution.
LEMMA QuietKeeps ==
    ASSUME GateInv, SurvivorsInv, UNCHANGED <<gate, try, attempt, warning, warnings, collected, told, ran, survivors>>,
           UNCHANGED outcome,
           \/ gatePc' = gatePc /\ (abort' = abort \/ (abort' /\ gatePc = "reaping"))
           \/ gatePc = "running" /\ gatePc' = "reaping" /\ abort' = abort
           \/ gatePc \in {"start", "settled", "healing"} /\ gatePc' = "dead" /\ abort' = abort
    PROVE  SurvivorsInv'
<1>1. OrderInv' /\ CallInv'
  BY DEF SurvivorsInv, OrderInv, CallInv, Gate!This
<1>2. ASSUME gatePc' # "dead", NEW x \in survivors
      PROVE  (Kept(x) \/ Dropped(x))'
  BY <1>2 DEF SurvivorsInv, Kept, Dropped, Gate!This, Gate!RunAfter, Gate!Retried
<1>. QED
  BY <1>1, <1>2 DEF SurvivorsInv

LEMMA QuietStep ==
    ASSUME GateInv, SurvivorsInv,
           \/ Gate!Forks \/ Gate!LeaderExits \/ Gate!LeaderDies \/ Gate!Timeout
           \/ Gate!Escalate \/ Gate!Close \/ Gate!DockerChanges
    PROVE  SurvivorsInv'
<1>1. /\ UNCHANGED <<gate, try, attempt, warning, warnings, collected, told, ran, survivors, outcome, abort>>
      /\ gatePc' = gatePc \/ (gatePc = "running" /\ gatePc' = "reaping")
  BY DEF Gate!Forks, Gate!LeaderExits, Gate!LeaderDies, Gate!Timeout, Gate!Escalate, Gate!Close,
     Gate!DockerChanges, Gate!place, Gate!flags, Gate!lists, Gate!history
<1>. QED
  BY <1>1, QuietKeeps

LEMMA CtrlCStep ==
    ASSUME GateInv, SurvivorsInv, Gate!CtrlC
    PROVE  SurvivorsInv'
<1>1. /\ UNCHANGED <<gate, try, attempt, warning, warnings, collected, told, ran, survivors, outcome>>
      /\ gatePc \notin {"done", "dead"}
      /\ \/ gatePc' = gatePc /\ abort' = abort
         \/ listener = "reap" /\ gatePc' = gatePc /\ abort' = TRUE
         \/ listener = "nobody" /\ gatePc' = "dead" /\ abort' = abort
  <2>1. listener \in {"nobody", "forward", "reap"}
    BY GateType DEF Named
  <2>. QED
    BY <2>1 DEF Gate!CtrlC, Gate!place, Gate!flags, Gate!lists, Gate!history
<1>2. /\ listener = "reap" => gatePc = "reaping"
      /\ listener = "nobody" => gatePc \notin {"running", "reaping"}
      /\ gatePc \in {"start", "running", "reaping", "settled", "healing", "done", "dead"}
  BY GateType DEF GateInv, PlaceInv, Named
<1>. QED
  BY <1>1, <1>2, QuietKeeps

LEMMA StartStep ==
    ASSUME GateInv, SurvivorsInv, Gate!Start
    PROVE  SurvivorsInv'
<1>1. /\ gatePc = "start" /\ gatePc' \in {"running", "settled"} /\ ran' = ran \cup {Gate!This}
      /\ UNCHANGED <<gate, try, attempt, outcome, warnings, collected, told, survivors>>
      /\ abort' = FALSE /\ warning' = FALSE
  BY DEF Gate!Start, Gate!place, Gate!lists
<1>2. OrderInv' /\ CallInv'
  <2>1. OrderInv'
    BY <1>1 DEF SurvivorsInv, OrderInv, Gate!This
  <2>2. CallInv'
    BY <1>1 DEF SurvivorsInv, CallInv
  <2>. QED
    BY <2>1, <2>2
<1>3. ASSUME NEW x \in survivors
      PROVE  (Kept(x) \/ Dropped(x))'
  <2>1. CASE Kept(x)
    BY <1>1, <2>1 DEF Kept
  <2>2. CASE try = 2 /\ x = <<attempt, gate, 1>>
    <3>1. Gate!This \in ran' /\ Gate!This = <<x[1], x[2], 2>> /\ x[3] = 1
      BY <1>1, <2>2 DEF Gate!This
    <3>2. Gate!RunAfter(x)' /\ Gate!Retried(x)'
      BY <3>1 DEF Gate!RunAfter, Gate!Retried
    <3>. QED
      BY <3>2 DEF Dropped
  <2>3. CASE Gate!RunAfter(x) /\ (Gate!Retried(x) \/ x[1] < attempt)
    BY <1>1, <2>3 DEF Dropped, Gate!RunAfter, Gate!Retried
  <2>. QED
    BY <1>1, <2>1, <2>2, <2>3 DEF SurvivorsInv, Dropped
<1>. QED
  BY <1>1, <1>2, <1>3 DEF SurvivorsInv

LEMMA ReapStep ==
    ASSUME GateInv, SurvivorsInv, Gate!Reap
    PROVE  SurvivorsInv'
<1>1. /\ gatePc = "reaping" /\ UNCHANGED <<gate, try, attempt, outcome, warnings, collected, ran, abort>>
      /\ survivors' = survivors \cup Gate!Left /\ Gate!Left \subseteq {Gate!This}
      /\ \/ abort /\ gatePc' = "dead" /\ told' = told \cup Gate!Left
         \/ ~abort /\ gatePc' = "settled" /\ told' = told /\ (Gate!Left # {} => warning')
  BY DEF Gate!Reap, Gate!place, Gate!flags, Gate!lists, Gate!history, Gate!Left
<1>2. Gate!This \notin survivors /\ UNCHANGED Gate!This
  BY <1>1 DEF SurvivorsInv, OrderInv, Gate!This
<1>3. OrderInv' /\ CallInv'
  BY <1>1, <1>2 DEF SurvivorsInv, OrderInv, CallInv
<1>4. ASSUME gatePc' # "dead", NEW x \in survivors'
      PROVE  (Kept(x) \/ Dropped(x))'
  <2>1. CASE x \in survivors
    BY <1>1, <2>1, <1>4 DEF SurvivorsInv, Kept, Dropped, Gate!RunAfter, Gate!Retried
  <2>2. CASE x \in Gate!Left
    BY <1>1, <1>2, <2>2, <1>4 DEF Kept
  <2>. QED
    BY <1>1, <2>1, <2>2
<1>. QED
  BY <1>3, <1>4 DEF SurvivorsInv

LEMMA SettleStep ==
    ASSUME GateInv, SurvivorsInv, Gate!Settle
    PROVE  SurvivorsInv'
<1>1. /\ gatePc = "settled" /\ UNCHANGED <<ran, survivors, abort>> /\ ~abort
      /\ Gate!This \in ran /\ survivors \subseteq ran /\ warnings \subseteq survivors /\ outcome = "none"
  BY GateType DEF Gate!Settle, Gate!flags, SurvivorsInv, CallInv, GateInv, PlaceInv, Listed
<1>2. /\ gate \in Nat /\ try \in {1, 2} /\ attempt \in Nat /\ Len(Gates) \in Nat
      /\ \A y \in ran : y[1] \in Nat /\ y[2] \in Nat /\ y[3] \in Nat /\ y = <<y[1], y[2], y[3]>>
  BY GateType, ExecutionHas, GateAssumption DEF Counted, Gate!Indices
<1>3. \A y \in ran : \/ y = Gate!This \/ y[1] < attempt
                     \/ y[1] = attempt /\ y[2] < gate
                     \/ y[1] = attempt /\ y[2] = gate /\ y[3] < try
  BY DEF SurvivorsInv, OrderInv
\* What was dropped before this gate was settled stays dropped.
<1>4. ASSUME NEW x \in survivors, Dropped(x), attempt' = attempt
      PROVE  Dropped(x)'
  BY <1>1, <1>4 DEF Dropped, Gate!RunAfter, Gate!Retried
<1>5. \A x \in survivors : x \in told \/ x \in collected \/ x \in warnings \/ x \in Gate!Warned \/ Dropped(x)
  BY <1>1 DEF SurvivorsInv, Kept, Gate!Warned
<1>6. CASE Gate!RunAgain
  <2>1. /\ gatePc' = "start" /\ gate' = gate /\ try' = 2 /\ attempt' = attempt /\ try = 1
        /\ UNCHANGED <<warnings, collected, told>>
    BY <1>6 DEF Gate!RunAgain, Gate!Rerun, Gate!Retries
  <2>2. OrderInv' /\ CallInv'
    BY <1>1, <1>2, <1>3, <2>1 DEF SurvivorsInv, OrderInv, CallInv, Gate!This
  <2>3. ASSUME NEW x \in survivors
        PROVE  (Kept(x) \/ Dropped(x))'
    <3>1. CASE x \in Gate!Warned
      BY <2>1, <3>1 DEF Gate!Warned, Gate!This, Dropped
    <3>. QED
      BY <1>4, <1>5, <2>1, <3>1 DEF Kept
  <2>. QED
    BY <1>1, <2>2, <2>3 DEF SurvivorsInv
<1>7. CASE Gate!Passes /\ gate < Len(Gates)
  <2>1. /\ gatePc' = "start" /\ gate' = gate + 1 /\ try' = 1 /\ attempt' = attempt
        /\ warnings' = warnings \cup Gate!Warned /\ UNCHANGED <<collected, told>>
    BY <1>7 DEF Gate!Passes, Gate!Rerun
  <2>2. OrderInv' /\ CallInv'
    BY <1>1, <1>2, <1>3, <2>1 DEF SurvivorsInv, OrderInv, CallInv, Gate!This, Gate!Warned
  <2>3. ASSUME NEW x \in survivors
        PROVE  (Kept(x) \/ Dropped(x))'
    BY <1>4, <1>5, <2>1 DEF Kept
  <2>. QED
    BY <1>1, <2>2, <2>3 DEF SurvivorsInv
<1>8. CASE Gate!Passes /\ ~(gate < Len(Gates))
  <2>1. /\ gatePc' = "done" /\ UNCHANGED <<gate, try, attempt>> /\ warnings' = {}
        /\ collected' = collected \cup (warnings \cup Gate!Warned) /\ told' = told \cup collected'
    BY <1>8 DEF Gate!Passes, Gate!Finish, Gate!Collect, Gate!place
  <2>2. OrderInv' /\ CallInv'
    <3>1. OrderInv'
      BY <1>1, <1>3, <2>1 DEF OrderInv, Gate!This
    <3>2. CallInv'
      BY <1>1, <2>1 DEF CallInv
    <3>. QED
      BY <3>1, <3>2
  <2>3. ASSUME NEW x \in survivors
        PROVE  (Kept(x) \/ Dropped(x))'
    BY <1>4, <1>5, <2>1 DEF Kept
  <2>. QED
    BY <1>1, <2>2, <2>3 DEF SurvivorsInv
<1>9. CASE Gate!Fails
  <2>1. /\ UNCHANGED <<gate, try, attempt>> /\ warnings' = {} /\ collected' = collected \cup Gate!Warned
        /\ \/ gatePc' = "done" /\ told' = told \cup collected' /\ outcome' # "green"
           \/ gatePc' = "healing" /\ told' = told
    BY <1>9 DEF Gate!Fails, Gate!Finish, Gate!Collect, Gate!place
  <2>2. OrderInv' /\ CallInv'
    <3>1. OrderInv'
      BY <1>1, <1>3, <2>1 DEF OrderInv, Gate!This
    <3>2. CallInv'
      BY <1>1, <2>1 DEF CallInv
    <3>. QED
      BY <3>1, <3>2
  <2>3. ASSUME NEW x \in survivors
        PROVE  (Kept(x) \/ Dropped(x))'
    <3>1. CASE x \in warnings
      <4>1. x[1] = attempt /\ x[2] < gate
        BY <3>1 DEF SurvivorsInv, CallInv
      <4>2. Gate!RunAfter(x)'
        <5>1. Gate!This[1] = attempt /\ Gate!This[2] = gate /\ Gate!This \in ran'
          BY <1>1 DEF Gate!This
        <5>. QED
          BY <1>1, <1>2, <4>1, <5>1 DEF Gate!RunAfter
      <4>. QED
        BY <2>1, <4>2 DEF Dropped
    <3>2. CASE x \in told \/ x \in collected \/ x \in Gate!Warned
      BY <2>1, <3>2 DEF Kept
    <3>. QED
      BY <1>4, <1>5, <2>1, <3>1, <3>2
  <2>. QED
    BY <1>1, <2>2, <2>3 DEF SurvivorsInv
<1>. QED
  BY <1>6, <1>7, <1>8, <1>9 DEF Gate!Settle

LEMMA HealStep ==
    ASSUME GateInv, SurvivorsInv, Gate!Heal
    PROVE  SurvivorsInv'
<1>1. /\ gatePc = "healing" /\ UNCHANGED <<ran, survivors, abort, warnings, collected>> /\ ~abort /\ warnings = {}
      /\ survivors \subseteq ran
  BY GateType DEF Gate!Heal, Gate!flags, Gate!history, SurvivorsInv, CallInv, Listed
<1>2. /\ attempt \in Nat
      /\ \A y \in ran : y[1] \in Nat /\ (y[1] < attempt \/ y[1] = attempt)
  <2>1. attempt \in Nat /\ \A y \in ran : y[1] \in Nat
    BY GateType, ExecutionHas DEF Counted
  <2>. QED
    BY <2>1 DEF SurvivorsInv, OrderInv, Gate!This
<1>3. \A x \in survivors : x \in told \/ x \in collected \/ Gate!RunAfter(x)
  BY <1>1 DEF SurvivorsInv, Kept, Dropped
<1>4. CASE gatePc' = "dead"
  <2>1. UNCHANGED <<gate, try, attempt>>
    BY <1>4 DEF Gate!Heal, Gate!Finish, Gate!Rerun, Gate!place
  <2>. QED
    BY <1>1, <1>4, <2>1 DEF SurvivorsInv, OrderInv, CallInv, Gate!This
<1>5. CASE Gate!Finish("healer-failed")
  <2>1. gatePc' = "done" /\ outcome' # "green" /\ UNCHANGED <<gate, try, attempt>> /\ told' = told \cup collected
    BY <1>1, <1>5 DEF Gate!Finish, Gate!place
  <2>2. OrderInv' /\ CallInv'
    BY <1>1, <2>1 DEF SurvivorsInv, OrderInv, CallInv, Gate!This
  <2>3. ASSUME NEW x \in survivors
        PROVE  (Kept(x) \/ Dropped(x))'
    BY <1>1, <1>3, <2>1 DEF Kept, Dropped, Gate!RunAfter
  <2>. QED
    BY <1>1, <2>2, <2>3 DEF SurvivorsInv
<1>6. CASE Gate!Rerun(Gate!FirstAfterHeal, 1, attempt + 1)
  <2>1. gatePc' = "start" /\ attempt' = attempt + 1 /\ told' = told /\ gate' = 1 /\ try' = 1
    BY <1>6 DEF Gate!Rerun, Gate!FirstAfterHeal
  <2>2. OrderInv'
    <3>1. \A y \in ran' : y[1] < attempt'
      BY <1>1, <1>2, <2>1
    <3>2. Gate!This'[1] = attempt'
      BY DEF Gate!This
    <3>3. Gate!This' \notin survivors'
      BY <1>1, <1>2, <2>1, <3>2
    <3>. QED
      BY <3>1, <3>3 DEF OrderInv
  <2>3. CallInv'
    BY <1>1, <2>1 DEF CallInv
  <2>4. ASSUME NEW x \in survivors
        PROVE  (Kept(x) \/ Dropped(x))'
    <3>1. x[1] < attempt'
      BY <1>1, <1>2, <2>1
    <3>. QED
      BY <1>1, <1>3, <2>1, <3>1 DEF Kept, Dropped, Gate!RunAfter
  <2>. QED
    BY <1>1, <2>2, <2>3, <2>4 DEF SurvivorsInv
<1>. QED
  BY <1>4, <1>5, <1>6 DEF Gate!Heal

LEMMA SurvivorsStep ==
    ASSUME GateInv, SurvivorsInv, Gate!Next
    PROVE  SurvivorsInv'
BY QuietStep, CtrlCStep, StartStep, ReapStep, SettleStep, HealStep DEF Gate!Next, Gate!Step

LEMMA SurvivorsStay ==
    ASSUME SurvivorsInv, UNCHANGED gateVars
    PROVE  SurvivorsInv'
<1>1. SurvivorsInv' = SurvivorsInv
  BY DEF gateVars, SurvivorsInv, OrderInv, CallInv, Kept, Dropped, Gate!This, Gate!RunAfter, Gate!Retried
<1>. QED
  BY <1>1

LEMMA SurvivorsHold ==
    ASSUME GateInv, SurvivorsInv
    PROVE  SurvivorsTold
<1>1. ASSUME gatePc = "done", NEW x \in survivors \ told
      PROVE  Gate!RunAfter(x) /\ (outcome = "green" /\ x[1] = attempt => Gate!Retried(x))
  <2>1. ~Kept(x)
    BY <1>1 DEF SurvivorsInv, CallInv, Kept
  <2>2. Dropped(x) /\ attempt \in Nat
    BY <1>1, <2>1, GateType DEF SurvivorsInv, Counted
  <2>. QED
    BY <1>1, <2>2 DEF Dropped
<1>2. abort /\ gatePc = "dead" /\ Gate!This \in survivors => Gate!This \in told
  BY DEF SurvivorsInv, CallInv
<1>. QED
  BY <1>1, <1>2 DEF SurvivorsTold, Gate!SurvivorsTold

-----------------------------------------------------------------------------
(* Together. *)

\* Whichever of the two moves, the other's invariant stays with its variables.
LEMMA WaitStays ==
    ASSUME WaitInv, UNCHANGED vars
    PROVE  WaitInv'
BY DEF vars, world, pool, probes, call, WaitInv, TypeOK, StartupInv, ProbeInv, CallFits, Fits

LEMMA GateStays ==
    ASSUME GateInv, UNCHANGED gateVars
    PROVE  GateInv'
<1>1. GateInv' = GateInv
  BY DEF gateVars, GateInv, Gate!GateTells, Gate!TypeOK, PlaceInv, HeadInv, TellsInv, Gate!Indices,
     Gate!This, Gate!Executions, Gate!NeedsDocker, Gate!VerdictStands, Gate!RedIsDelivered,
     Gate!GreenIsWhole
<1>. QED
  BY <1>1

\* A phase probes alone, never waits without a reason nor cuts a wait short, and never runs on a
\* fallback that is broken or would not pay (usage-limit.mts); a gate reports the verdict that was
\* delivered, hands only delivered reds to a healer, with the daemon answering if the gate needs
\* it, and is green only of a HEAD every gate passes (post-merge-gate.mts, gate-heal.mts).
THEOREM PipelineTellsHolds == PartsSpec => []PipelineTells
<1>1. PartsInit => WaitInv /\ GateInv
  BY WaitStarts, GateStarts DEF PartsInit, Init, Gate!Init
<1>2. WaitInv /\ GateInv /\ [PartsNext]_partVars => (WaitInv /\ GateInv)'
  BY WaitStep, GateStep, WaitStays, GateStays DEF PartsNext, partVars
<1>3. WaitInv /\ GateInv => PipelineTells
  BY WaitHolds DEF GateInv, PipelineTells
<1>. QED
  BY <1>1, <1>2, <1>3, PTL DEF PartsSpec

\* The user is told of every gate run that left processes behind, but of those that were run
\* again and of those that passed before a later gate of the same call failed
\* (post-merge-gate.mts:434-527, gate-heal.mts:101-149).
THEOREM SurvivorsToldHolds == PartsSpec => []SurvivorsTold
<1>1. PartsInit => GateInv /\ SurvivorsInv
  BY GateStarts, SurvivorsStart DEF PartsInit, Init, Gate!Init
<1>2. GateInv /\ SurvivorsInv /\ [PartsNext]_partVars => (GateInv /\ SurvivorsInv)'
  BY GateStep, GateStays, SurvivorsStep, SurvivorsStay DEF PartsNext, partVars
<1>3. GateInv /\ SurvivorsInv => SurvivorsTold
  BY SurvivorsHold
<1>. QED
  BY <1>1, <1>2, <1>3, PTL DEF PartsSpec
=============================================================================
