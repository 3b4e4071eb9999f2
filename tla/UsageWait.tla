------------------------------ MODULE UsageWait ------------------------------
(***************************************************************************)
(* The usage-limit wait of the development pipeline                        *)
(* (.sandcastle/usage-limit.mts): agent phases that run concurrently, fail *)
(* because an account's quota is spent or because something is really      *)
(* wrong, and tell the two apart by probing the model on the account they  *)
(* ran on.  A phase moves at once to another account that answers, else    *)
(* polls until one does or its budget is spent.                            *)
(*                                                                         *)
(* Time is a set of countdowns: Tick lowers every one of them, so a clock  *)
(* never has to be bounded.  JavaScript timers may be late, so an elapsed  *)
(* sleep is not urgent.                                                    *)
(***************************************************************************)
EXTENDS Naturals, FiniteSets

CONSTANTS Phases,           \* concurrent callers of `run`
          Models,           \* model names
          ModelOf,          \* [Phases -> Models], the model a caller asks for
          Main, Fallback,   \* the two accounts, in priority order
          Poll,             \* pollMs
          MaxWait           \* maxWaitMs; 0 never occurs here (the wait is then off)

ASSUME UsageAssumption ==
    /\ ModelOf \in [Phases -> Models]
    /\ Main # Fallback
    /\ Poll \in Nat \ {0}
    /\ MaxWait \in Nat \ {0}

Accounts == {Main, Fallback}
Pairs == Accounts \X Models
NoHit == MaxWait + 1        \* `firstHit` is undefined

VARIABLES
    \* the world
    env,        \* the fallback account's settings in the environment
    cli,        \* whether the host's claude command can probe at all
    tokenOk,    \* whether the fallback's token is a working one
    up,         \* [Pairs -> BOOLEAN], the account reaches the model now
    \* createUsageWait
    stage,      \* startup checks still to do
    waitOn,     \* maxWaitMs > 0 after checkUsageProbe
    accounts,   \* the accounts of the run
    active,     \* the account new phases start on
    cool,       \* time until the main account may be asked again
    slot,       \* [Pairs -> ...], the in-flight probe of each pair
    due,        \* [Pairs -> 0..Poll], what a probe still has to sleep
    calls,      \* [Pairs -> Nat], claude processes probing a pair
    \* one `run` call per phase
    pc,         \* where the call is
    on,         \* the account it runs on
    left,       \* deadline - now(), NoHit before the first hit
    heard,      \* what the awaited probe said
    ago         \* time since the first failure nothing answered (history)

world == <<env, cli, tokenOk, up>>
pool == <<waitOn, accounts, active, cool>>
probes == <<slot, due, calls>>
call == <<pc, on, left, heard, ago>>
vars == <<world, stage, pool, probes, call>>

Awaiting == {"checkMain", "diagnose", "tryOther", "pollMain", "pollOther"}
Settled == {"ok", "threw", "gaveUp"}

\* SANDCASTLE_FALLBACK_ACCOUNT, whether the fallback's token is set, whether
\* .sandcastle/.env lists it (only then it reaches a sandbox), and whether an
\* ANTHROPIC_API_KEY, which claude prefers to any token, is set.
FallbackEnv == [switch : {"off", "on", "typo"}, token : BOOLEAN, listed : BOOLEAN,
                apiKey : BOOLEAN]
OffEnv == [switch |-> "off", token |-> FALSE, listed |-> FALSE, apiKey |-> FALSE]

\* Every mistake throws before anything starts; off needs nothing.
resolveFallbackAccount(e) ==
    CASE e.switch = "off" -> "disabled"
      [] e.switch = "on" /\ e.token /\ e.listed /\ ~e.apiKey -> "enabled"
      [] OTHER -> "throws"

TypeOK ==
    /\ env \in FallbackEnv
    /\ cli \in BOOLEAN /\ tokenOk \in BOOLEAN /\ up \in [Pairs -> BOOLEAN]
    /\ stage \in {"config", "usage", "fallback", "ready", "refused"}
    /\ waitOn \in BOOLEAN
    /\ accounts \in {{Main}, Accounts} /\ active \in accounts
    /\ cool \in 0..Poll
    /\ slot \in [Pairs -> {"free", "sleeping", "asking"}]
    /\ due \in [Pairs -> 0..Poll]
    /\ calls \in [Pairs -> Nat]
    /\ pc \in [Phases -> {"idle", "running"} \cup Awaiting \cup Settled]
    /\ on \in [Phases -> accounts]
    /\ left \in [Phases -> 0..NoHit]
    /\ heard \in [Phases -> {"nothing", "yes", "no"}]
    /\ ago \in [Phases -> 0..NoHit]

\* What a call of the CLI established: a result event without an error is an
\* answer, an error naming a limit (or status 429) is a limit, anything else
\* (no output, no JSON, no result event, another error) is unavailable.
classifyProbeOutput(output) ==
    CASE output = "result" -> "answered"
      [] output \in {"error 429", "error limit"} -> "limited"
      [] OTHER -> "unavailable"

\* The outputs a probe of a pair can print in the current world.
Outputs(a, m) ==
    IF ~cli \/ (a = Fallback /\ ~tokenOk) THEN {"none", "no result event", "error other"}
    ELSE IF up[<<a, m>>] THEN {"result"}
    ELSE {"error 429", "error limit", "error other"}

Answered(a, m) == \E o \in Outputs(a, m) : classifyProbeOutput(o) = "answered"

\* With the switch off nothing reads the other settings.
InitAt(s) ==
    /\ env \in {e \in FallbackEnv : e.switch = "off" => e = OffEnv}
    /\ cli \in BOOLEAN /\ tokenOk \in BOOLEAN /\ up \in [Pairs -> BOOLEAN]
    /\ stage = s /\ waitOn = FALSE
    /\ accounts = {Main} /\ active = Main /\ cool = 0
    /\ slot = [q \in Pairs |-> "free"]
    /\ due = [q \in Pairs |-> 0]
    /\ calls = [q \in Pairs |-> 0]
    /\ pc = [p \in Phases |-> "idle"]
    /\ on = [p \in Phases |-> Main]
    /\ left = [p \in Phases |-> NoHit]
    /\ heard = [p \in Phases |-> "nothing"]
    /\ ago = [p \in Phases |-> NoHit]

Init == InitAt("config")
-----------------------------------------------------------------------------
\* Startup: the settings are resolved before anything else.
ResolveConfig ==
    /\ stage = "config"
    /\ stage' = IF resolveFallbackAccount(env) = "throws" THEN "refused" ELSE "usage"
    /\ UNCHANGED <<world, pool, probes, call>>

\* A probe refused for a limit keeps the wait on; one the CLI could
\* not answer switches it off for the run.
WaitStaysOn(verdict) == verdict \in {"answered", "limited"}

checkUsageProbe(m) ==
    /\ stage = "usage"
    /\ \E o \in Outputs(Main, m) : waitOn' = WaitStaysOn(classifyProbeOutput(o))
    /\ stage' = "fallback"
    /\ UNCHANGED <<world, accounts, active, cool, probes, call>>

FallbackStays(verdict) == verdict \in {"answered", "limited"}

\* The fallback is probed only when it is enabled and the wait is on.
checkFallbackAccount(m) ==
    /\ stage = "fallback"
    /\ IF waitOn /\ resolveFallbackAccount(env) = "enabled"
         THEN \E o \in Outputs(Fallback, m) :
                accounts' = IF FallbackStays(classifyProbeOutput(o)) THEN Accounts ELSE {Main}
         ELSE accounts' = {Main}
    /\ stage' = "ready"
    /\ UNCHANGED <<world, waitOn, active, cool, probes, call>>
-----------------------------------------------------------------------------
Other(a) == IF a = Main THEN Fallback ELSE Main

\* The pair whose probe the call awaits.
Asked(p) ==
    << CASE pc[p] \in {"checkMain", "pollMain"} -> Main
         [] pc[p] = "diagnose" -> on[p]
         [] pc[p] = "tryOther" -> Other(on[p])
         [] OTHER -> Fallback, ModelOf[p] >>

\* mutant: everybody probes alone
Joins_Never(q) == FALSE

\* A probe of the pair is in flight: whoever needs its answer joins it.
Joins(q) == slot[q] # "free"

\* answers(model, account, afterMs): join the probe of this pair that is on
\* its way, or start one, which first sleeps afterMs.
answers(p, a, after) ==
    LET q == <<a, ModelOf[p]>> IN
    /\ heard' = [heard EXCEPT ![p] = "nothing"]
    /\ IF Joins(q)
         THEN UNCHANGED probes
         ELSE /\ slot' = [slot EXCEPT ![q] = IF after > 0 THEN "sleeping" ELSE "asking"]
              /\ due' = [due EXCEPT ![q] = after]
              /\ calls' = [calls EXCEPT ![q] = IF after > 0 THEN @ ELSE @ + 1]

\* switchTo(account): leaving the main account restarts the interval after
\* which it is asked again.
switchTo(a) ==
    /\ active' = a
    /\ cool' = IF a # active /\ a # Main THEN Poll ELSE cool

\* The phase runs (again) on account a.
RunOn(p, a) ==
    /\ pc' = [pc EXCEPT ![p] = "running"]
    /\ on' = [on EXCEPT ![p] = a]
    /\ heard' = [heard EXCEPT ![p] = "nothing"]
    /\ UNCHANGED probes

\* The call of run returns or throws.
Settle(p, how) ==
    /\ pc' = [pc EXCEPT ![p] = how]
    /\ heard' = [heard EXCEPT ![p] = "nothing"]
    /\ UNCHANGED <<on, probes>>

\* accountFor takes the run's account as it is.
StartsAsIs == ~waitOn \/ active = Main \/ cool > 0

NewBudget == NoHit

\* run begins.  accountFor: while the run is on another account, ask at most
\* once per poll interval whether the main one answers again.
Start(p) ==
    /\ stage = "ready" /\ pc[p] \in {"idle"} \cup Settled
    /\ left' = [left EXCEPT ![p] = NewBudget]
    /\ ago' = [ago EXCEPT ![p] = NoHit]
    /\ \/ /\ StartsAsIs
          /\ RunOn(p, IF waitOn THEN active ELSE Main)
          /\ UNCHANGED pool
       \/ /\ ~StartsAsIs
          /\ cool' = Poll
          /\ pc' = [pc EXCEPT ![p] = "checkMain"]
          /\ answers(p, Main, 0)
          /\ UNCHANGED <<on, waitOn, accounts, active>>
    /\ UNCHANGED <<world, stage>>

\* accountFor resumes: whatever the run's account is by now is the one used.
CheckedMain(p) ==
    /\ pc[p] = "checkMain" /\ heard[p] # "nothing"
    /\ IF heard[p] = "yes" THEN switchTo(Main) ELSE UNCHANGED <<active, cool>>
    /\ RunOn(p, active')
    /\ UNCHANGED <<world, stage, waitOn, accounts, left, ago>>

Succeed(p) ==
    /\ pc[p] = "running"
    /\ Settle(p, "ok")
    /\ UNCHANGED <<world, stage, pool, left, ago>>

\* fn throws: for a real reason, or because the account does not answer.  The
\* account the phase ran on is the one diagnosed.
Fail(p) ==
    /\ pc[p] = "running"
    /\ \/ ~waitOn /\ Settle(p, "threw")
       \/ /\ waitOn
          /\ pc' = [pc EXCEPT ![p] = "diagnose"]
          /\ answers(p, on[p], 0)
          /\ UNCHANGED on
    /\ UNCHANGED <<world, stage, pool, left, ago>>

\* Polling: while the deadline is ahead, sleep a poll and ask the main account.
PollOrGiveUp(p, budget) ==
    IF budget = 0 THEN Settle(p, "gaveUp")
    ELSE /\ pc' = [pc EXCEPT ![p] = "pollMain"]
         /\ answers(p, Main, Poll)
         /\ UNCHANGED on

\* mutant: every failure starts it anew
Budget_EachFailure(p) == MaxWait

\* The budget starts at the FIRST hit and is shared by every retry.
Budget(p) == IF left[p] = NoHit THEN MaxWait ELSE left[p]

HasOther(p) == Other(on[p]) \in accounts

\* The diagnosis: an answer means the failure was real.
Diagnosed(p) ==
    /\ pc[p] = "diagnose" /\ heard[p] # "nothing"
    /\ \/ heard[p] = "yes" /\ Settle(p, "threw") /\ UNCHANGED <<left, ago>>
       \/ /\ heard[p] = "no"
          /\ left' = [left EXCEPT ![p] = Budget(p)]
          /\ ago' = [ago EXCEPT ![p] = IF @ = NoHit THEN 0 ELSE @]
          /\ IF Budget(p) > 0 /\ HasOther(p)
               THEN /\ pc' = [pc EXCEPT ![p] = "tryOther"]
                    /\ answers(p, Other(on[p]), 0)
                    /\ UNCHANGED on
               ELSE PollOrGiveUp(p, Budget(p))
    /\ UNCHANGED <<world, stage, pool>>

\* Another account that answers takes the phase at once.
TriedOther(p) ==
    /\ pc[p] = "tryOther" /\ heard[p] # "nothing"
    /\ IF heard[p] = "yes"
         THEN switchTo(Other(on[p])) /\ RunOn(p, Other(on[p]))
         ELSE PollOrGiveUp(p, left[p]) /\ UNCHANGED <<active, cool>>
    /\ UNCHANGED <<world, stage, waitOn, accounts, left, ago>>

\* pollOnce and answeringBy: the main account wins a tie.
Polled(p) ==
    /\ pc[p] \in {"pollMain", "pollOther"} /\ heard[p] # "nothing"
    /\ IF heard[p] = "yes"
         THEN switchTo(Asked(p)[1]) /\ RunOn(p, Asked(p)[1])
         ELSE /\ IF pc[p] = "pollMain" /\ Fallback \in accounts
                   THEN /\ pc' = [pc EXCEPT ![p] = "pollOther"]
                        /\ answers(p, Fallback, 0)
                        /\ UNCHANGED on
                   ELSE PollOrGiveUp(p, left[p])
              /\ UNCHANGED <<active, cool>>
    /\ UNCHANGED <<world, stage, waitOn, accounts, left, ago>>
-----------------------------------------------------------------------------
\* The sleep of a probe is over and the CLI is started.
Wake(q) ==
    /\ slot[q] = "sleeping" /\ due[q] = 0
    /\ slot' = [slot EXCEPT ![q] = "asking"]
    /\ calls' = [calls EXCEPT ![q] = @ + 1]
    /\ UNCHANGED <<world, stage, pool, due, call>>

\* The CLI exits: everybody who joined hears it and the slot is free.
ProbeEnds(q) ==
    /\ slot[q] = "asking"
    /\ heard' = [p \in Phases |->
                   IF pc[p] \in Awaiting /\ heard[p] = "nothing" /\ Asked(p) = q
                   THEN IF Answered(q[1], q[2]) THEN "yes" ELSE "no"
                   ELSE heard[p]]
    /\ slot' = [slot EXCEPT ![q] = "free"]
    /\ calls' = [calls EXCEPT ![q] = @ - 1]
    /\ UNCHANGED <<world, stage, pool, due, pc, on, left, ago>>

Less(n) == IF n = 0 THEN 0 ELSE n - 1

Tick ==
    /\ cool' = Less(cool)
    /\ due' = [q \in Pairs |-> Less(due[q])]
    /\ left' = [p \in Phases |-> IF left[p] = NoHit THEN NoHit ELSE Less(left[p])]
    /\ ago' = [p \in Phases |-> IF ago[p] < MaxWait THEN ago[p] + 1 ELSE ago[p]]
    /\ UNCHANGED <<world, stage, waitOn, accounts, active, slot, calls, pc, on, heard>>

\* A quota is spent, or resets.
LimitChanges(q) ==
    /\ up' = [up EXCEPT ![q] = ~@]
    /\ UNCHANGED <<env, cli, tokenOk, stage, pool, probes, call>>

Resume(p) == CheckedMain(p) \/ Diagnosed(p) \/ TriedOther(p) \/ Polled(p)

Next ==
    \/ ResolveConfig
    \/ \E m \in Models : checkUsageProbe(m) \/ checkFallbackAccount(m)
    \/ \E p \in Phases : Start(p) \/ Succeed(p) \/ Fail(p) \/ Resume(p)
    \/ \E q \in Pairs : Wake(q) \/ ProbeEnds(q) \/ LimitChanges(q)
    \/ Tick

\* Time passes, promises resolve, the CLI is killed after PROBE_TIMEOUT_MS, an
\* agent phase ends (the library's idle timeout), and the main loop goes on
\* starting phases.  Nothing is assumed about quotas.
Fairness ==
    /\ WF_vars(Tick) /\ WF_vars(ResolveConfig)
    /\ WF_vars(\E m \in Models : checkUsageProbe(m) \/ checkFallbackAccount(m))
    /\ \A p \in Phases : WF_vars(Resume(p)) /\ WF_vars(Succeed(p) \/ Fail(p)) /\ WF_vars(Start(p))
    /\ \A q \in Pairs : WF_vars(Wake(q)) /\ WF_vars(ProbeEnds(q))

Spec == Init /\ [][Next]_vars /\ Fairness
-----------------------------------------------------------------------------
\* However many phases hit the limit together, one claude process at a time
\* probes a model on an account (usage-limit.mts:235-264): a phase that fails,
\* one that polls and one that only checks the main account all join it.
OneProbePerPair == \A q \in Pairs : calls[q] <= 1

\* The wait is fail-safe (usage-limit.mts:387-397, 443-452): with a CLI that
\* cannot probe no phase is ever held up, and a fallback whose token is broken,
\* or would silently not be the one that pays (config.mts:396-406), never gets
\* a phase.
StartupFailsSafe ==
    /\ ~cli => \A p \in Phases : pc[p] \notin Awaiting
    /\ (\E p \in Phases : on[p] = Fallback) =>
          tokenOk /\ env.token /\ env.listed /\ ~env.apiKey

\* A call gives up only when the whole budget has passed since the first
\* failure that nothing answered, however long it ran before that and however
\* often it moved between accounts (usage-limit.mts:22-25, 334-344).
WholeWait == \A p \in Phases : pc[p] = "gaveUp" => ago[p] = MaxWait

\* The wait probes no more than it has to, holds nobody up without a reason and never cuts a
\* wait short.
WaitSafe == TypeOK /\ OneProbePerPair /\ StartupFailsSafe /\ WholeWait

\* A phase that keeps failing cannot loop forever, because its retries share
\* the budget (usage-limit.mts:24): every call of run returns or throws.
EveryCallSettles == \A p \in Phases : (pc[p] = "running") ~> (pc[p] \in Settled)

\* Once the main account answers for good the run does not stay on the
\* fallback (usage-limit.mts:210-216, 302-311), whatever late answers the
\* phases that were still polling bring.
ReturnsToMain ==
    <>[](cli /\ \A m \in Models : up[<<Main, m>>]) => []<>(active = Main)

\* No phase and no run stays where the limit put it.
WaitEnds == EveryCallSettles /\ ReturnsToMain
=============================================================================
