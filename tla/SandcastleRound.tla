--------------------------- MODULE SandcastleRound ---------------------------
(***************************************************************************)
(* The development pipeline's orchestrator (.sandcastle/main.mts): plan,   *)
(* run one pipeline per issue, merge, close the landed issues, gate the    *)
(* merged HEAD, heal it, and start over; a process that may die between    *)
(* any two steps, a repository and an issue tracker that outlive it, and   *)
(* the close ledger that joins one process to the next.                    *)
(*                                                                         *)
(* A commit is a number; a branch, its tip and HEAD are sets of commits,   *)
(* so "is an ancestor of HEAD" is \subseteq.  The agents, git's merge and  *)
(* the gates are the environment: they may do whatever the code allows.    *)
(***************************************************************************)
EXTENDS Naturals, FiniteSets

CONSTANTS Issues,
          Iterations,   \* limits.maxIterations
          Agents,       \* limits.maxConcurrentAgents
          QueueDepth,   \* limits.plannerQueueDepth
          HealAttempts, \* limits.healAttempts
          MaxCommits,   \* bound on the commits agents ever make
          MaxCrashes    \* bound on the times the process is killed

ASSUME RoundAssumption ==
    /\ IsFiniteSet(Issues)
    /\ Iterations \in Nat \ {0} /\ Agents \in Nat \ {0} /\ QueueDepth \in Nat \ {0}
    /\ HealAttempts \in Nat /\ MaxCommits \in Nat /\ MaxCrashes \in Nat

VARIABLES
    \* GitHub
    open,       \* the open issues
    \* the host repository
    branch,     \* [Issues -> SUBSET Nat], each issue branch
    head,       \* the commits in HEAD
    headOk,     \* whether every gate would pass on HEAD
    kept,       \* commits kept on rescue refs and temporary branches
    made,       \* number of commits made
    \* .sandcastle/pending-close.json
    ledger,     \* set of [id, tip]
    \* the orchestrator process
    at,         \* where it is; "down" when none runs
    iteration,
    job,        \* [Issues -> ...], each planned issue's pipeline
    fresh,      \* [Issues -> BOOLEAN], the running attempt has committed
    reported,   \* [Issues -> BOOLEAN], the finished phases reported commits
    validated,  \* [Issues -> tip], the implementer's tip ({} when unknown)
    sent,       \* the issues given to the merger
    todo,       \* issues whose close is still to be asked
    closed,     \* issues closed by this pass
    after,      \* where the process goes when the pass is over
    attempt,    \* healing attempts so far
    \* history
    gated,      \* [Issues -> tip], where an agent last ran the gates on the branch
    capped,     \* issues whose last returned run was cut at its iteration cap
    handed,     \* every [id, tip] ever given to a merger
    excused,    \* issues of which gh or git failed to answer
    broke,      \* a merge of this process left HEAD red
    crashes

repo == <<branch, head, headOk, kept, made>>
pipeline == <<job, fresh, reported, validated>>
closing == <<todo, closed, after>>
history == <<gated, capped, handed, excused, crashes>>
healing == <<attempt, broke>>
vars == <<open, repo, ledger, at, iteration, pipeline, sent, closing, healing, history>>

Commits == 1..MaxCommits
Entries == [id : Issues, tip : SUBSET Commits]
Running == {"implementing", "reviewing"}
Jobs == {"none", "queued", "fulfilled", "rejected", "guard"} \cup Running
Places == {"down", "reconciled", "check", "planning", "executing", "merging",
           "closing", "dirt", "gate", "healing", "healed"}

TypeOK ==
    /\ open \subseteq Issues
    /\ branch \in [Issues -> SUBSET Commits] /\ head \subseteq Commits
    /\ headOk \in BOOLEAN
    /\ kept \subseteq Commits /\ made \in 0..MaxCommits
    /\ ledger \subseteq Entries
    /\ at \in Places /\ iteration \in 0..Iterations
    /\ job \in [Issues -> Jobs]
    /\ fresh \in [Issues -> BOOLEAN] /\ reported \in [Issues -> BOOLEAN]
    /\ validated \in [Issues -> SUBSET Commits]
    /\ sent \subseteq Issues
    /\ todo \subseteq Issues /\ closed \subseteq Issues /\ after \in Places
    /\ attempt \in 0..HealAttempts
    /\ gated \in [Issues -> SUBSET Commits] /\ capped \subseteq Issues
    /\ handed \subseteq Entries /\ excused \subseteq Issues
    /\ broke \in BOOLEAN /\ crashes \in 0..MaxCrashes

NoJobs == /\ job' = [i \in Issues |-> "none"]
          /\ fresh' = [i \in Issues |-> FALSE]
          /\ reported' = [i \in Issues |-> FALSE]
          /\ validated' = [i \in Issues |-> {}]

\* All issues are open and nothing was done yet.
Init ==
    /\ open = Issues
    /\ branch = [i \in Issues |-> {}]
    /\ head = {} /\ headOk = TRUE /\ kept = {} /\ made = 0
    /\ ledger = {}
    /\ at = "down" /\ iteration = 0
    /\ job = [i \in Issues |-> "none"]
    /\ fresh = [i \in Issues |-> FALSE]
    /\ reported = [i \in Issues |-> FALSE]
    /\ validated = [i \in Issues |-> {}]
    /\ sent = {} /\ todo = {} /\ closed = {} /\ after = "down" /\ attempt = 0
    /\ gated = [i \in Issues |-> {}] /\ capped = {} /\ handed = {} /\ excused = {}
    /\ broke = FALSE /\ crashes = 0
-----------------------------------------------------------------------------
Exit ==
    /\ at' = "down"
    /\ iteration' = 0 /\ NoJobs
    /\ sent' = {} /\ todo' = {} /\ closed' = {} /\ after' = "down"
    /\ attempt' = 0 /\ broke' = FALSE

\* close-ledger.mts
mergeLedger(existing, incoming) ==
    {e \in existing : \A n \in incoming : n.id # e.id} \cup incoming

LedgerLanded(entries) == {e \in entries : e.tip \subseteq head}

remainingLedger(entries, ids) == {e \in entries : e.id \notin ids}

\* The close pass of closeMergedIssues begins.
BeginClosing(ids, next) ==
    /\ at' = "closing" /\ todo' = ids /\ closed' = {} /\ after' = next

\* A process starts: the sentinel port admits one at a time.  What an earlier
\* run merged and never closed is closed before any planning.
Launch ==
    /\ at = "down"
    /\ iteration' = 0
    /\ BeginClosing({e.id : e \in LedgerLanded(ledger)}, "check")
    /\ UNCHANGED <<open, repo, ledger, pipeline, sent, healing, gated, capped,
                   handed, excused, crashes>>

\* gh closes an issue; an error for an issue it reports closed counts as a
\* close, any other error leaves the issue for the next startup.
CloseIssue(i) ==
    /\ at = "closing" /\ i \in todo
    /\ todo' = todo \ {i}
    /\ \/ open' = open \ {i} /\ closed' = closed \cup {i} /\ excused' = excused \ {i}
       \/ /\ open' \in {open, open \ {i}}          \* gh fails, before or after the fact,
          /\ excused' = excused \cup {i}           \* and cannot say which
          /\ UNCHANGED closed
    /\ UNCHANGED <<repo, ledger, at, iteration, pipeline, sent, after, healing,
                   gated, capped, handed, crashes>>

\* persistLedger: fsync, rename, fsync.  The file is the old or the new one.
PersistClosed ==
    /\ at = "closing" /\ todo = {}
    /\ ledger' = remainingLedger(ledger, closed)
    /\ IF after = "down"
         THEN Exit
         ELSE at' = after /\ closed' = {} /\ UNCHANGED <<iteration, pipeline, sent, todo, after, healing>>
    /\ UNCHANGED <<open, repo, history>>

\* The next iteration, if there is one: a host repository git would refuse to merge into ends
\* the process before an agent has worked for nothing.  A developer may dirty or
\* clean the working copy at any moment, so its state is not kept.
Check ==
    /\ at = "check"
    /\ \/ Exit                      \* dirty, or the last iteration is over
       \/ /\ iteration < Iterations
          /\ at' = "planning" /\ iteration' = iteration + 1
          /\ NoJobs /\ sent' = {} /\ attempt' = 0
          /\ UNCHANGED <<closing, broke>>
    /\ UNCHANGED <<open, repo, ledger, history>>

\* The planner, an agent, queues open issues it judges unblocked; none, or a
\* failure, ends the process.
Plan ==
    /\ at = "planning"
    /\ \/ Exit
       \/ \E issues \in SUBSET open :
            /\ Cardinality(issues) \in 1..QueueDepth
            /\ at' = "executing"
            /\ job' = [i \in Issues |-> IF i \in issues THEN "queued" ELSE "none"]
            /\ UNCHANGED <<iteration, fresh, reported, validated, sent, closing, healing>>
    /\ UNCHANGED <<open, repo, ledger, history>>
-----------------------------------------------------------------------------
\* mapWithConcurrency: a freed worker takes the next queued issue.
StartPipeline(i) ==
    /\ at = "executing" /\ job[i] = "queued"
    /\ Cardinality({k \in Issues : job[k] \in Running \cup {"guard"}}) < Agents
    /\ job' = [job EXCEPT ![i] = "implementing"]
    /\ UNCHANGED <<open, repo, ledger, at, iteration, fresh, reported, validated, sent,
                   closing, healing, history>>

\* An agent commits; every commit is synced to the host branch.
AgentCommits(i) ==
    /\ at = "executing" /\ job[i] \in Running /\ made < MaxCommits
    /\ made' = made + 1
    /\ branch' = [branch EXCEPT ![i] = @ \cup {made + 1}]
    /\ fresh' = [fresh EXCEPT ![i] = TRUE]
    /\ UNCHANGED <<open, head, headOk, kept, ledger, at, iteration, job,
                   reported, validated, sent, closing, healing, history>>

\* The usage-limit wait runs a phase again; only its last run is reported.
Rerun(i) ==
    /\ at = "executing" /\ job[i] \in Running /\ fresh[i]
    /\ fresh' = [fresh EXCEPT ![i] = FALSE]
    /\ UNCHANGED <<open, repo, ledger, at, iteration, job, reported, validated, sent,
                   closing, healing, history>>

\* An agent's run returns: having run the gates, or cut at its iteration cap.
Returned(i) ==
    \/ gated' = [gated EXCEPT ![i] = branch[i]] /\ capped' = capped \ {i}
    \/ capped' = capped \cup {i} /\ UNCHANGED gated

\* runIssuePipeline, the implementer: commits lead to the reviewer, with the
\* validated tip captured first (git may not answer).
ImplementerEnds(i) ==
    /\ at = "executing" /\ job[i] = "implementing"
    /\ \/ /\ job' = [job EXCEPT ![i] = "rejected"]
          /\ UNCHANGED <<reported, validated, gated, capped>>
       \/ /\ Returned(i)
          /\ IF fresh[i]
               THEN /\ job' = [job EXCEPT ![i] = "reviewing"]
                    /\ reported' = [reported EXCEPT ![i] = TRUE]
                    /\ \E tip \in {branch[i], {}} : validated' = [validated EXCEPT ![i] = tip]
               ELSE job' = [job EXCEPT ![i] = "fulfilled"] /\ UNCHANGED <<reported, validated>>
    /\ fresh' = [fresh EXCEPT ![i] = FALSE]
    /\ UNCHANGED <<open, repo, ledger, at, iteration, sent, closing, healing, handed,
                   excused, crashes>>

\* The reviewer is no gate: its failure is absorbed and the guard decides.
ReviewerEnds(i) ==
    /\ at = "executing" /\ job[i] = "reviewing"
    /\ \/ job' = [job EXCEPT ![i] = "guard"] /\ UNCHANGED <<gated, capped>>
       \/ job' = [job EXCEPT ![i] = "fulfilled"] /\ Returned(i)
    /\ fresh' = [fresh EXCEPT ![i] = FALSE]
    /\ validated' = [validated EXCEPT ![i] = IF job'[i] = "guard" THEN @ ELSE {}]
    /\ UNCHANGED <<open, repo, ledger, at, iteration, reported, sent, closing, healing,
                   handed, excused, crashes>>

\* mutants: nothing is parked; the branch is not rewound
Restore_Unparked(i) == UNCHANGED kept /\ branch' = [branch EXCEPT ![i] = validated[i]]
Restore_Skipped(i) == UNCHANGED <<kept, branch>>

\* restoreValidatedBranch: the work beyond the validated tip is parked, then
\* the branch is rewound.
Restore(i) ==
    /\ kept' = kept \cup (branch[i] \ validated[i])
    /\ branch' = [branch EXCEPT ![i] = validated[i]]

\* The reviewer failed: the branch must be PROVED to end at the validated tip,
\* and a git that does not answer, or only parks the work, or will not confirm
\* the rewind, proves nothing.
Guard(i) ==
    /\ at = "executing" /\ job[i] = "guard"
    /\ \/ /\ validated[i] # {} /\ Restore(i)
          /\ \E how \in {"fulfilled", "rejected"} : job' = [job EXCEPT ![i] = how]
       \/ /\ job' = [job EXCEPT ![i] = "rejected"]
          /\ kept' \in {kept, IF validated[i] = {} THEN kept ELSE kept \cup (branch[i] \ validated[i])}
          /\ UNCHANGED branch
    /\ validated' = [validated EXCEPT ![i] = {}]
    /\ UNCHANGED <<open, head, headOk, made, ledger, at, iteration, fresh, reported, sent,
                   closing, healing, history>>
-----------------------------------------------------------------------------
Ahead(i) == branch[i] \ head # {}

\* Completion is the only evidence that a branch was validated.
selectMergeableIssues(i) == job[i] = "fulfilled" /\ (reported[i] \/ Ahead(i))

Tips(issues) == {[id |-> i, tip |-> branch[i]] : i \in issues}

\* mutant: nothing is written before the merger runs
Recorded_Late(issues) == ledger

Recorded(issues) == mergeLedger(ledger, Tips(issues))

\* The barrier: every pipeline has settled.  The ledger is written BEFORE the
\* merger runs; an issue whose tip git cannot resolve is not recorded.
Select ==
    /\ at = "executing"
    /\ \A i \in Issues : job[i] \in {"none", "fulfilled", "rejected"}
    /\ LET ready == {i \in Issues : selectMergeableIssues(i)} IN
       IF ready = {}
         THEN /\ at' = "check" /\ NoJobs
              /\ UNCHANGED <<ledger, sent, handed, excused>>
         ELSE \E resolved \in SUBSET ready :
              /\ at' = "merging" /\ sent' = ready /\ UNCHANGED pipeline
              /\ ledger' = Recorded(resolved)
              /\ handed' = handed \cup Tips(ready)
              /\ excused' = excused \cup (ready \ resolved)
    /\ UNCHANGED <<open, repo, iteration, closing, healing, gated, capped, crashes>>

\* mutant: the merger returned
ProvedLanded_Returned(proved) == sent

\* partitionLandedIssues: landed is what git proves to be in HEAD.
ProvedLanded(proved) == {i \in sent \cap proved : branch[i] \subseteq head'}

AfterMerge(landed) ==
    /\ head' = head \cup UNION {branch[i] : i \in landed}
    /\ headOk' \in (IF head' = head THEN {headOk} ELSE BOOLEAN)
    /\ broke' = (head' # head /\ ~headOk')

\* The merger runs in a worktree and its result is merged into HEAD.  It may
\* land only some branches and still return; it may throw with nothing landed,
\* its work kept on the temporary branch; the clean-up may throw after the
\* landing.  What landed is closed in every case, then the process ends unless
\* the merger returned.  A dirty host repository only makes nothing land.
Merge ==
    /\ at = "merging"
    /\ \E landed \in SUBSET sent, proved \in SUBSET sent, throws \in BOOLEAN :
        /\ AfterMerge(landed)
        /\ kept' = IF landed = {} THEN kept \cup UNION {branch[i] : i \in sent} ELSE kept
        /\ LET ids == ProvedLanded(proved) IN
           BeginClosing(ids, IF throws THEN "down" ELSE "dirt")
        /\ excused' = excused \cup (sent \ proved)
    /\ sent' = {} /\ NoJobs
    /\ UNCHANGED <<open, branch, made, ledger, iteration, attempt, gated, capped, handed, crashes>>

\* The dirt scan: a merger worktree with uncommitted changes, or one that
\* cannot be inspected, ends the process.
DirtScan ==
    /\ at = "dirt"
    /\ \/ Exit
       \/ at' = "gate" /\ UNCHANGED <<iteration, pipeline, sent, closing, healing>>
    /\ UNCHANGED <<open, repo, ledger, history>>

\* What runPostMergeGates can answer of HEAD: module PostMergeGate shows that
\* green is always earned, while a red may be the environment's.
GateAnswers == {"unverified", "interrupted", "red"} \cup (IF headOk THEN {"green"} ELSE {})
PassesOn == {"green"}

MayHeal == attempt < HealAttempts

\* runGateWithHealing: green goes on, a delivered red is healed while attempts
\* remain, anything else ends the process.
Gate ==
    /\ at \in {"gate", "healed"}
    /\ \E answer \in GateAnswers :
        CASE answer \in PassesOn -> at' = "check" /\ UNCHANGED <<iteration, pipeline, sent, closing, healing>>
          [] answer = "red" /\ MayHeal ->
                /\ at' = "healing" /\ attempt' = attempt + 1
                /\ UNCHANGED <<iteration, pipeline, sent, closing, broke>>
          [] OTHER -> Exit
    /\ UNCHANGED <<open, repo, ledger, history>>

\* The healer's commits, if any, are merged into HEAD; it may break.
Heal ==
    /\ at = "healing"
    /\ \/ /\ headOk' \in BOOLEAN
          /\ at' = "healed" /\ broke' = (broke /\ ~headOk')
          /\ UNCHANGED <<iteration, pipeline, sent, closing, attempt>>
       \/ Exit /\ UNCHANGED headOk
    /\ UNCHANGED <<open, branch, head, kept, made, ledger, history>>
-----------------------------------------------------------------------------
\* SIGKILL, a power cut, an agent that throws past every handler: the process
\* and its sandboxes are gone, the files and refs stay.
Crash ==
    /\ at # "down" /\ crashes < MaxCrashes
    /\ crashes' = crashes + 1
    /\ Exit
    /\ UNCHANGED <<open, repo, ledger, gated, capped, handed, excused>>

\* The recovery the code prints: merge a preserved branch by hand, or land a
\* fix on a red HEAD, then rerun.
ManualMerge ==
    /\ at = "down"
    /\ \/ \E h \in handed :
            /\ h.tip \subseteq kept
            /\ head' = head \cup h.tip
            /\ headOk' \in (IF head' = head THEN {headOk} ELSE BOOLEAN)
       \/ headOk' = TRUE /\ UNCHANGED head
    /\ UNCHANGED <<open, branch, kept, made, ledger, at, iteration, pipeline,
                   sent, closing, healing, history>>

Pipeline(i) ==
    \/ StartPipeline(i) \/ AgentCommits(i) \/ Rerun(i)
    \/ ImplementerEnds(i) \/ ReviewerEnds(i) \/ Guard(i)

Process == Check \/ Plan \/ Select \/ Merge \/ DirtScan \/ Gate \/ Heal \/ PersistClosed

Next ==
    \/ Launch \/ Process \/ Crash \/ ManualMerge
    \/ \E i \in Issues : Pipeline(i) \/ CloseIssue(i)

Spec == Init /\ [][Next]_vars
-----------------------------------------------------------------------------
\* A closed issue is invisible to the planner for good, so it must never be
\* closed on the strength of "the merger returned" (issue-pipeline.mts:160-171):
\* some tip given to a merger for it is in HEAD.
ClosedMeansLanded ==
    \A i \in Issues \ open : \E h \in handed : h.id = i /\ h.tip \subseteq head

\* Only gated work is given to the merger (issue-pipeline.mts:104-113,
\* branch-guard.mts:3-11): the exact tip passed the gates of some agent's
\* completed run, whoever crashed on the branch in between.  The one way past
\* is a run cut at its iteration cap, which returns as if it had completed.
MergedWasGated == \A i \in sent : branch[i] = gated[i] \/ i \in capped

\* No round repeats merged work (main.mts:555-557): an issue is planned while
\* everything on its branch was handed over and is in HEAD only if gh or git
\* failed to answer about it, however the processes before ended.
NoDuplicateRound ==
    \A i \in Issues :
        /\ job[i] = "queued"
        /\ [id |-> i, tip |-> branch[i]] \in handed
        /\ branch[i] \subseteq head
        => i \in excused

\* No work is destroyed (branch-guard.mts:93-95): every commit is on a branch,
\* in HEAD, or on a ref kept for a human.
NothingDestroyed ==
    \A c \in 1..made : c \in head \cup kept \/ \E i \in Issues : c \in branch[i]

\* A planning round does not run on a HEAD this process broke
\* (main.mts:912-914, 1050).  A HEAD that was red when it started is not its doing.
PlansOnGreenHead == at = "planning" => ~broke

\* What a planning round starts from.
RoundSafe == TypeOK /\ NoDuplicateRound /\ PlansOnGreenHead
=============================================================================
