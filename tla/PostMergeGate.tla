---------------------------- MODULE PostMergeGate ----------------------------
(***************************************************************************)
(* The gate on the merged HEAD (.sandcastle/post-merge-gate.mts) and the   *)
(* healing loop around it (gate-heal.mts): each gate is a child process    *)
(* that leads a process group of its own; a timeout, a Ctrl+C, an outside  *)
(* kill, a Docker daemon that goes away and a container reaper that does   *)
(* not start all end it, and only a verdict it really delivered may be     *)
(* reported as one.                                                        *)
(***************************************************************************)
EXTENDS Naturals, Sequences

CONSTANTS Gates,        \* config.gates: for each, whether it needs Docker
          HealAttempts, \* limits.healAttempts
          MaxSignals    \* bound on the user's Ctrl+C

VARIABLES
    bad,        \* the gates that fail on HEAD as it is
    docker,     \* the daemon answers
    pc, gate, try, attempt,
    leader,     \* the child: "none", "alive", or how it ended
    kids,       \* the rest of its group: "none", "mortal" or "stuck"
    timer,      \* the gate's timeout is armed
    listener,   \* what SIGINT and SIGTERM reach: the forwarder, the reap's or nobody
    timedOut, interrupted, \* flags of the run
    killing,    \* the last signal sent to the group by the escalation
    abort,      \* Ctrl+C came during the reap
    marker,     \* the log shows the container reaper failing to start
    result, warning,       \* GateExecResult: how it ended, and the warning of survivors
    warnings,   \* of the gates that passed in this call of runPostMergeGates
    outcome, collected,    \* HealOutcome: its status, the warnings of all its gate runs
    told,       \* the executions whose survivors the user was warned of
    \* history
    verdict,    \* the exit code delivered before any timeout or Ctrl+C
    blip,       \* Docker or its reaper failed the gate
    answering,  \* the daemon answered when the gate run was settled
    ran, survivors,        \* the executions so far, and those that left processes behind
    signals

head == <<bad, docker>>
place == <<gate, try, attempt>>
group == <<leader, kids>>
flags == <<timer, timedOut, interrupted, killing, abort>>
lists == <<warnings, collected, told>>
history == <<verdict, blip, answering, ran, survivors>>
vars == <<head, pc, place, group, listener, flags, marker, result, warning, outcome, lists,
          history, signals>>

Indices == 1..Len(Gates)
NeedsDocker == Gates[gate]

\* An execution of a gate: in which call of runPostMergeGates, which gate, which try.
Executions == (0..HealAttempts) \X Indices \X (1..2)
This == <<attempt, gate, try>>

TypeOK ==
    /\ bad \subseteq Indices /\ docker \in BOOLEAN
    /\ pc \in {"start", "running", "reaping", "settled", "healing", "done", "dead"}
    /\ gate \in Indices /\ try \in 1..2 /\ attempt \in 0..HealAttempts
    /\ leader \in {"none", "alive", "ok", "red", "signal"}
    /\ kids \in {"none", "mortal", "stuck"}
    /\ listener \in {"nobody", "forward", "reap"}
    /\ timer \in BOOLEAN /\ timedOut \in BOOLEAN /\ interrupted \in BOOLEAN
    /\ killing \in {"no", "term", "kill"} /\ abort \in BOOLEAN
    /\ marker \in BOOLEAN /\ warning \in BOOLEAN
    /\ blip \in BOOLEAN /\ answering \in BOOLEAN
    /\ result \in {"none", "ok", "red", "error", "interrupted"}
    /\ outcome \in {"none", "green", "red", "unverified", "interrupted", "healer-failed"}
    /\ verdict \in {"none", "ok", "red"}
    /\ warnings \subseteq survivors /\ collected \subseteq survivors /\ told \subseteq survivors
    /\ survivors \subseteq ran /\ ran \subseteq Executions
    /\ signals \in 0..MaxSignals

InitAt(p) ==
    /\ bad \in SUBSET Indices /\ docker = TRUE
    /\ pc = p /\ gate = 1 /\ try = 1 /\ attempt = 0
    /\ leader = "none" /\ kids = "none" /\ listener = "nobody"
    /\ timer = FALSE /\ timedOut = FALSE /\ interrupted = FALSE
    /\ killing = "no" /\ abort = FALSE
    /\ marker = FALSE /\ result = "none" /\ warning = FALSE /\ outcome = "none"
    /\ warnings = {} /\ collected = {} /\ told = {} /\ ran = {} /\ survivors = {}
    /\ verdict = "none" /\ blip = FALSE /\ answering = TRUE /\ signals = 0

Init == InitAt("start")
-----------------------------------------------------------------------------
\* The child is spawned in its own group, with the timeout armed and the
\* signals forwarded; or the log cannot be opened or the binary not started.
Start ==
    /\ pc = "start"
    /\ timedOut' = FALSE /\ interrupted' = FALSE /\ killing' = "no" /\ abort' = FALSE
    /\ marker' = FALSE /\ warning' = FALSE /\ kids' = "none"
    /\ verdict' = "none" /\ blip' = FALSE /\ answering' = TRUE
    /\ ran' = ran \cup {This}
    /\ \/ /\ pc' = "running" /\ leader' = "alive" /\ timer' = TRUE
          /\ listener' = "forward" /\ result' = "none"
       \/ /\ pc' = "settled" /\ leader' = "none" /\ result' = "error"
          /\ UNCHANGED <<timer, listener>>
    /\ UNCHANGED <<head, place, outcome, lists, survivors, signals>>

\* The gate starts test hosts, containers, build servers.
Forks ==
    /\ pc = "running" /\ leader = "alive" /\ kids = "none"
    /\ kids' \in {"mortal", "stuck"}
    /\ UNCHANGED <<head, pc, place, leader, listener, flags, marker, result, warning, outcome,
                   lists, history, signals>>

\* The child exits with a status; a group being terminated may exit with any.
LeaderExits ==
    /\ pc = "running" /\ leader = "alive"
    /\ \/ /\ gate \notin bad /\ (NeedsDocker => docker)
          /\ leader' = "ok" /\ UNCHANGED <<marker, blip>>
       \/ gate \in bad /\ leader' = "red" /\ UNCHANGED <<marker, blip>>
       \/ killing # "no" /\ leader' = "red" /\ UNCHANGED <<marker, blip>>
       \/ /\ NeedsDocker /\ leader' = "red" /\ blip' = TRUE
          /\ marker' \in BOOLEAN
    /\ UNCHANGED <<head, pc, place, kids, listener, flags, result, warning, outcome, lists,
                   verdict, answering, ran, survivors, signals>>

\* An outside kill (the OOM killer), or the escalation's signal.
LeaderDies ==
    /\ pc = "running" /\ leader = "alive"
    /\ leader' = "signal"
    /\ UNCHANGED <<head, pc, place, kids, listener, flags, marker, result, warning, outcome,
                   lists, history, signals>>

Timeout ==
    /\ timer /\ pc = "running"
    /\ timedOut' = TRUE /\ timer' = FALSE
    /\ killing' = "term"
    /\ UNCHANGED <<head, pc, place, group, listener, interrupted, abort, marker, result,
                   warning, outcome, lists, history, signals>>

\* mutant: SIGTERM only
Escalates_Never == FALSE

\* SIGKILL, ten seconds after the SIGTERM.
Escalates == killing = "term"

Escalate ==
    /\ pc = "running" /\ Escalates
    /\ killing' = "kill"
    /\ leader' = IF leader = "alive" THEN "signal" ELSE leader
    /\ kids' = IF kids = "mortal" THEN "none" ELSE kids
    /\ UNCHANGED <<head, pc, place, listener, timer, timedOut, interrupted, abort, marker,
                   result, warning, outcome, lists, history, signals>>

\* Ctrl+C: forwarded to the group, noted by the reap, or, with no listener,
\* the end of the orchestrator.
CtrlC ==
    /\ signals < MaxSignals /\ pc \notin {"done", "dead"}
    /\ signals' = signals + 1
    /\ CASE listener = "forward" ->
                /\ interrupted' = TRUE
                /\ killing' = IF killing = "no" THEN "term" ELSE killing
                /\ UNCHANGED <<pc, abort>>
         [] listener = "reap" -> abort' = TRUE /\ UNCHANGED <<pc, interrupted, killing>>
         [] OTHER -> pc' = "dead" /\ UNCHANGED <<interrupted, killing, abort>>
    /\ UNCHANGED <<head, place, group, listener, timer, timedOut, marker, result, warning,
                   outcome, lists, history>>

\* "close": the timer and the forwarding stop, so the verdict is frozen.
Close ==
    /\ pc = "running" /\ leader \in {"ok", "red", "signal"}
    /\ pc' = "reaping"
    /\ timer' = FALSE
    /\ listener' = "reap"
    /\ verdict' = IF timedOut \/ interrupted \/ leader = "signal" THEN "none" ELSE leader
    /\ UNCHANGED <<head, place, group, timedOut, interrupted, killing, abort, marker, result,
                   warning, outcome, lists, blip, answering, ran, survivors, signals>>

Classified ==
    IF interrupted THEN "interrupted"
    ELSE IF timedOut \/ leader = "signal" THEN "error" ELSE leader

\* Whether the group was confirmed empty.
Reaped == kids # "stuck"

Left == IF Reaped THEN {} ELSE {This}

\* The group is killed until it is empty or the bound is over, and survivors are put in the
\* result; a Ctrl+C that came meanwhile ends the orchestrator only then, with the warning.
Reap ==
    /\ pc = "reaping"
    /\ kids' = IF kids = "mortal" THEN "none" ELSE kids
    /\ survivors' = survivors \cup Left
    /\ listener' = "nobody"
    /\ IF abort
         THEN pc' = "dead" /\ told' = told \cup Left /\ UNCHANGED <<result, warning>>
         ELSE pc' = "settled" /\ result' = Classified /\ warning' = ~Reaped /\ UNCHANGED told
    /\ UNCHANGED <<head, place, leader, flags, marker, outcome, warnings, collected, verdict,
                   blip, answering, ran, signals>>
-----------------------------------------------------------------------------
\* The healing loop is over, and the warnings it collected are printed.
Finish(how) ==
    /\ outcome' = how
    /\ told' = told \cup collected'
    /\ pc' = "done"
    /\ UNCHANGED place

Rerun(g, t, a) ==
    /\ pc' = "start" /\ gate' = g /\ try' = t /\ attempt' = a
    /\ UNCHANGED <<outcome, told>>

\* Only a delivered verdict of a Docker-backed gate is run again, once.
Retries == NeedsDocker /\ marker /\ try = 1

\* mutant: the daemon is not asked again
Unverified_Unprobed == result = "error"

\* No verdict was delivered, or none that says anything about HEAD.
Unverified == (NeedsDocker /\ ~docker) \/ result = "error"

MayHeal == attempt < HealAttempts

\* What the warning of the execution is, where it is not dropped.
Warned == IF warning THEN {This} ELSE {}

\* mutant: only the result that ends the healing is looked at
Collect_Last(ws) == collected' = ws

\* The healing loop collects the warning of what runPostMergeGates returns.
Collect(ws) == collected' = collected \cup ws

\* A gate is run again: the first result is overwritten, its warning with it.
RunAgain ==
    /\ result = "red" /\ Retries
    /\ Rerun(gate, 2, attempt)
    /\ UNCHANGED <<warnings, collected>>

\* A gate passed: the next one, or the end with the warnings of all.
Passes ==
    /\ result = "ok"
    /\ IF gate < Len(Gates)
         THEN /\ warnings' = warnings \cup Warned /\ UNCHANGED collected
              /\ Rerun(gate + 1, 1, attempt)
         ELSE /\ Collect(warnings \cup Warned) /\ warnings' = {}
              /\ Finish("green")

\* The first failure ends runPostMergeGates, with its own warning only; of what it returns
\* only a delivered red is given to the healer.
Fails ==
    /\ result \in {"red", "error", "interrupted"} /\ ~(result = "red" /\ Retries)
    /\ Collect(Warned) /\ warnings' = {}
    /\ IF result = "interrupted" THEN Finish("interrupted")
       ELSE IF Unverified THEN Finish("unverified")
       ELSE IF MayHeal THEN pc' = "healing" /\ UNCHANGED <<place, outcome, told>>
       ELSE Finish("red")

Settle ==
    /\ pc = "settled"
    /\ RunAgain \/ Passes \/ Fails
    /\ answering' = docker
    /\ UNCHANGED <<head, group, listener, flags, marker, result, warning, verdict, blip, ran,
                   survivors, signals>>

\* The gates that run after a healer.
FirstAfterHeal == 1

\* The healer's commits change HEAD, for better or worse; or it breaks; or it leaves a dirty
\* worktree, which ends the orchestrator on the spot.
Heal ==
    /\ pc = "healing"
    /\ UNCHANGED collected
    /\ \/ Finish("healer-failed") /\ UNCHANGED bad
       \/ bad' \in SUBSET Indices /\ pc' = "dead" /\ UNCHANGED <<place, outcome, told>>
       \/ bad' \in SUBSET Indices /\ Rerun(FirstAfterHeal, 1, attempt + 1)
    /\ UNCHANGED <<docker, group, listener, flags, marker, result, warning, warnings, history,
                   signals>>

DockerChanges ==
    /\ docker' = ~docker
    /\ UNCHANGED <<bad, pc, place, group, listener, flags, marker, result, warning, outcome,
                   lists, history, signals>>

Step == Start \/ Escalate \/ Close \/ Reap \/ Settle \/ Heal

Next == Step \/ Forks \/ LeaderExits \/ LeaderDies \/ Timeout \/ CtrlC \/ DockerChanges

\* The event loop runs, timers fire, an agent phase ends.  Nothing is assumed
\* of the child: it may hang, and ignore SIGTERM.
Fairness == WF_vars(Step) /\ WF_vars(Escalate) /\ WF_vars(Timeout)

Spec == Init /\ [][Next]_vars /\ Fairness
-----------------------------------------------------------------------------
\* A verdict delivered before any timeout or interrupt is the one reported,
\* whatever fires while the group is reaped (post-merge-gate.mts:263-268).
VerdictStands == pc = "settled" /\ verdict # "none" => result = verdict

\* Red means the gate DELIVERED a failure (post-merge-gate.mts:13-18): the gate that is
\* reported red or handed to a healer really fails on this HEAD, or is a container-backed one
\* that failed with the daemon answering afterwards.
RedIsDelivered ==
    pc = "healing" \/ outcome = "red" => (gate \in bad \/ blip) /\ (NeedsDocker => answering)

\* Green means every gate passed on this very HEAD, also after a healer that
\* mended one gate and broke another (gate-heal.mts:101-149).
GreenIsWhole == outcome = "green" => bad = {}

RunAfter(x) == \E y \in ran : y[1] = x[1] /\ (y[2] > x[2] \/ (y[2] = x[2] /\ y[3] > x[3]))
Retried(x) == x[3] = 1 /\ <<x[1], x[2], 2>> \in ran

\* Who is told of processes that outlive a gate run (post-merge-gate.mts:209-217, 281-317).
\* When the healing is over: of those of every execution that ended a call of
\* runPostMergeGates, a red one long healed included; and, if the last call ended green, of
\* those of all its gates.  When a Ctrl+C during the reap ends the orchestrator: of those of
\* that execution.  Not told of are those the code drops: of a gate that was run again
\* (465), and of one that passed before another failed (434, 472-522).
SurvivorsTold ==
    /\ pc = "done" => \A x \in survivors \ told :
          RunAfter(x) /\ (outcome = "green" /\ x[1] = attempt => Retried(x))
    /\ abort /\ pc = "dead" /\ This \in survivors => This \in told

\* What a run of the gates tells, in whatever order exits, timeouts, signals and reaping come.
GateTells == TypeOK /\ VerdictStands /\ RedIsDelivered /\ GreenIsWhole

\* A gate that hangs, and ignores SIGTERM, does not hold the pipeline for ever
\* (post-merge-gate.mts:116-117, 189-192).
GateEnds == <>(pc \in {"done", "dead"})
=============================================================================
