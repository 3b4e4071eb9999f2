----------------------- MODULE SandcastleRound_proofs -----------------------
(***************************************************************************)
(* Proofs about SandcastleRound, for every finite set of issues and every  *)
(* limit and bound: what is closed has landed, what is merged was gated,   *)
(* no commit is lost, no round repeats merged work or plans on a HEAD this *)
(* process broke - wherever the processes before it died.                  *)
(***************************************************************************)
EXTENDS SandcastleRound, TLAPS

\* What was given to a merger as the tip of a branch now.
Entry(i, tip) == [id |-> i, tip |-> tip]
Handed(i) == Entry(i, branch[i]) \in handed

\* Somewhere a tip given to a merger for the issue is in HEAD.
LandedOnce(i) == \E h \in handed : h.id = i /\ h.tip \subseteq head

\* A commit belongs to one issue, also once it is handed over or rewound.
CommitInv ==
    /\ \A i \in Issues : branch[i] \subseteq 1..made
    /\ \A h \in handed : h.tip \subseteq 1..made
    /\ \A i, j \in Issues : i # j => branch[i] \cap branch[j] = {}
    /\ \A h \in handed : \A j \in Issues : j # h.id => h.tip \cap branch[j] = {}

\* The tip of a completed run passed the gates, or the run was cut at its cap.
Gated(i, tip) == tip = gated[i] \/ i \in capped

\* What a pipeline knows of its branch: a validated tip is part of it, was gated, and
\* like every fresh commit is nothing a merger has been given.
JobFits(i) ==
    /\ job[i] # "none" => at \in {"executing", "merging"}
    /\ job[i] = "queued" => at = "executing" /\ i \in open
    /\ job[i] = "fulfilled" => Gated(i, branch[i])
    /\ fresh[i] => job[i] \in Running /\ ~Handed(i)
    /\ validated[i] \subseteq branch[i]
    /\ validated[i] # {} => /\ job[i] \in {"reviewing", "guard"}
                            /\ Gated(i, validated[i])
                            /\ Entry(i, validated[i]) \notin handed

PipelineInv == \A i \in Issues : JobFits(i)

\* The merger has what it was given, and nobody touches it meanwhile.
SentInv ==
    /\ sent # {} => at = "merging"
    /\ \A i \in sent : Handed(i)
    /\ MergedWasGated

\* Only what landed is closed or about to be, and the ledger holds nothing else than
\* was handed over.
ClosingInv ==
    /\ ClosedMeansLanded
    /\ \A i \in todo : LandedOnce(i)
    /\ ledger \subseteq handed
    /\ closed \cap open = {}

\* A HEAD this process broke is red, and is on its way to the gate or the exit.
RedInv ==
    broke => /\ ~headOk
             /\ \/ at \in {"dirt", "gate", "healing", "healed"}
                \/ at = "closing" /\ after \in {"dirt", "down"}

\* An open issue whose branch was handed over is in the ledger, and once it has landed
\* it is closed before the next planning: it is with the merger, or about to be closed,
\* or no process runs.  gh or git failing to answer is the one excuse.
Forgettable(i) == i \in open /\ i \notin excused /\ Handed(i)

LedgerInv ==
    \A i \in Issues : Forgettable(i) =>
        /\ Entry(i, branch[i]) \in ledger
        /\ branch[i] \subseteq head => \/ at = "down"
                                       \/ at = "closing" /\ i \in todo
                                       \/ at = "merging" /\ i \in sent

IInv == /\ TypeOK /\ CommitInv /\ NothingDestroyed /\ PipelineInv
        /\ SentInv /\ ClosingInv /\ RedInv /\ LedgerInv

-----------------------------------------------------------------------------
(* Entries. *)

\* An entry is its issue and its tip.
LEMMA EntryParts ==
    ASSUME NEW i, NEW tip
    PROVE  /\ Entry(i, tip).id = i /\ Entry(i, tip).tip = tip
           /\ \A j, u : Entry(i, tip) = Entry(j, u) => i = j /\ tip = u
<1>1. /\ Entry(i, tip).id = i /\ Entry(i, tip).tip = tip
      /\ \A j, u : Entry(j, u).id = j /\ Entry(j, u).tip = u
  BY DEF Entry
<1>. QED
  BY <1>1

\* Every entry of the ledger, or handed over, has that form.
LEMMA EntryForm ==
    ASSUME NEW e \in Entries
    PROVE  e = Entry(e.id, e.tip) /\ e.id \in Issues /\ e.tip \subseteq Commits
BY DEF Entries, Entry

\* An issue and a set of commits make an entry.
LEMMA EntryType ==
    ASSUME NEW i \in Issues, NEW tip \in SUBSET Commits
    PROVE  Entry(i, tip) \in Entries
BY DEF Entries, Entry

-----------------------------------------------------------------------------
(* Frames: what leaves each part of the invariant alone. *)

\* No branch moves and nothing is handed over.
LEMMA CommitsRest ==
    ASSUME CommitInv, UNCHANGED branch, UNCHANGED made, UNCHANGED handed
    PROVE  CommitInv'
BY DEF CommitInv

\* No branch moves, HEAD and what is kept only grow.
LEMMA NothingLost ==
    ASSUME NothingDestroyed, UNCHANGED branch, UNCHANGED made, head \subseteq head',
           kept \subseteq kept'
    PROVE  NothingDestroyed'
BY DEF NothingDestroyed

\* No pipeline moves, and the queued issues stay open.
LEMMA PipelinesRest ==
    ASSUME PipelineInv, UNCHANGED job, UNCHANGED fresh, UNCHANGED validated, UNCHANGED branch,
           UNCHANGED gated, UNCHANGED capped, UNCHANGED handed,
           UNCHANGED open, at' = at \/ at \notin {"executing", "merging"}
    PROVE  PipelineInv'
BY DEF PipelineInv, JobFits, Gated, Handed, Running

\* One pipeline stays where it is while another one moves.
LEMMA PipelineRests ==
    ASSUME NEW i \in Issues, JobFits(i), job'[i] = job[i], fresh'[i] = fresh[i],
           validated'[i] = validated[i], branch'[i] = branch[i], gated'[i] = gated[i],
           i \in capped' <=> i \in capped, UNCHANGED handed, UNCHANGED at, UNCHANGED open
    PROVE  JobFits(i)'
BY DEF JobFits, Gated, Handed

\* No pipeline is under way, and every variable of the pipelines has its type.
LEMMA NoJobsType ==
    ASSUME NoJobs
    PROVE  /\ job' \in [Issues -> Jobs] /\ fresh' \in [Issues -> BOOLEAN]
           /\ reported' \in [Issues -> BOOLEAN] /\ validated' \in [Issues -> SUBSET Commits]
BY DEF NoJobs, Jobs

\* A pipeline that is not under way knows nothing.
LEMMA PipelinesGone ==
    ASSUME NoJobs
    PROVE  PipelineInv'
BY DEF NoJobs, PipelineInv, JobFits

\* What the merger was given is left alone.
LEMMA SentRests ==
    ASSUME SentInv, UNCHANGED sent, UNCHANGED branch, UNCHANGED gated, UNCHANGED capped,
           UNCHANGED handed, sent = {} \/ at' = at
    PROVE  SentInv'
BY DEF SentInv, MergedWasGated, Handed

\* No merger is at work.
LEMMA NothingSent ==
    ASSUME sent' = {}
    PROVE  SentInv'
BY DEF SentInv, MergedWasGated

\* No issue closes, and HEAD and what was handed over only grow.
LEMMA ClosingRests ==
    ASSUME ClosingInv, TypeOK, UNCHANGED open, handed \subseteq handed', head \subseteq head',
           todo' \subseteq todo, ledger' \subseteq handed', closed' \subseteq closed
    PROVE  ClosingInv'
<1>1. \A i : LandedOnce(i) => LandedOnce(i)'
  BY DEF LandedOnce
<1>2. ClosedMeansLanded'
  BY DEF ClosingInv, ClosedMeansLanded
<1>. QED
  BY <1>1, <1>2 DEF ClosingInv

\* Nothing is handed over or lands, the ledger forgets closed issues only, and the process
\* goes on from where nothing had to be remembered, or is over.
LEMMA LedgerRests ==
    ASSUME LedgerInv, UNCHANGED open, UNCHANGED excused, UNCHANGED handed, UNCHANGED branch,
           UNCHANGED head, \A e \in ledger : e.id \in open => e \in ledger',
           at \notin {"down", "closing", "merging"} \/ at' = "down" \/ (at = "closing" /\ todo = {})
    PROVE  LedgerInv'
<1>1. \A i \in Issues : Forgettable(i)' <=> Forgettable(i)
  BY DEF Forgettable, Handed
<1>2. \A i \in Issues : Forgettable(i) /\ Entry(i, branch[i]) \in ledger =>
                          Entry(i, branch'[i]) \in ledger'
  BY EntryParts DEF Forgettable
<1>. QED
  BY <1>1, <1>2 DEF LedgerInv

\* The process is over: what it knew is gone, the repository and the tracker stay.
LEMMA ExitKeepsIt ==
    ASSUME IInv, Exit, UNCHANGED open, UNCHANGED branch, UNCHANGED head, UNCHANGED headOk,
           UNCHANGED kept, UNCHANGED made, UNCHANGED gated, UNCHANGED capped,
           UNCHANGED handed, UNCHANGED excused, crashes' \in 0..MaxCrashes,
           ledger' \subseteq ledger, \A e \in ledger : e.id \in open => e \in ledger'
    PROVE  IInv'
<1>0. /\ TypeOK /\ CommitInv /\ NothingDestroyed /\ PipelineInv
      /\ SentInv /\ ClosingInv /\ RedInv /\ LedgerInv
  BY DEF IInv
<1>1. /\ at' = "down" /\ iteration' = 0 /\ NoJobs /\ sent' = {} /\ todo' = {} /\ closed' = {}
      /\ after' = "down" /\ attempt' = 0 /\ broke' = FALSE
  BY DEF Exit
<1>2. TypeOK'
  <2>1. /\ job' \in [Issues -> Jobs] /\ fresh' \in [Issues -> BOOLEAN]
        /\ reported' \in [Issues -> BOOLEAN] /\ validated' \in [Issues -> SUBSET Commits]
    BY <1>1, NoJobsType
  <2>2. "down" \in Places /\ 0 \in 0..Iterations /\ 0 \in 0..HealAttempts
    BY RoundAssumption DEF Places
  <2>. QED
    BY <1>0, <1>1, <2>1, <2>2 DEF TypeOK
<1>3. CommitInv' /\ NothingDestroyed'
  BY <1>0, CommitsRest, NothingLost
<1>4. PipelineInv' /\ SentInv'
  BY <1>1, PipelinesGone, NothingSent
<1>5. ClosingInv'
  BY <1>0, <1>1, ClosingRests DEF ClosingInv
<1>6. RedInv'
  BY <1>1 DEF RedInv
<1>7. LedgerInv'
  BY <1>0, <1>1, LedgerRests
<1>. QED
  BY <1>2, <1>3, <1>4, <1>5, <1>6, <1>7 DEF IInv

-----------------------------------------------------------------------------
(* Pipelines: none of them hands over, lands or closes anything. *)

\* What is left to show of a step of one pipeline.
LEMMA PipelineStepKeepsIt ==
    ASSUME IInv, NEW i \in Issues, at = "executing", UNCHANGED at, UNCHANGED open,
           UNCHANGED head, UNCHANGED headOk, UNCHANGED ledger, UNCHANGED iteration,
           UNCHANGED sent, UNCHANGED todo, UNCHANGED closed, UNCHANGED after,
           UNCHANGED attempt, UNCHANGED broke, UNCHANGED handed, UNCHANGED excused,
           UNCHANGED crashes,
           made' \in 0..MaxCommits, kept' \subseteq Commits,
           branch' \in [Issues -> SUBSET Commits], job' \in [Issues -> Jobs],
           fresh' \in [Issues -> BOOLEAN], reported' \in [Issues -> BOOLEAN],
           validated' \in [Issues -> SUBSET Commits], gated' \in [Issues -> SUBSET Commits],
           capped' \subseteq Issues,
           \A j \in Issues \ {i} :
               /\ job'[j] = job[j] /\ fresh'[j] = fresh[j] /\ validated'[j] = validated[j]
               /\ branch'[j] = branch[j] /\ gated'[j] = gated[j] /\ (j \in capped' <=> j \in capped),
           CommitInv', NothingDestroyed', JobFits(i)',
           branch'[i] = branch[i] \/ ~Handed(i)'
    PROVE  IInv'
<1>0. /\ TypeOK /\ PipelineInv /\ SentInv /\ ClosingInv /\ RedInv /\ LedgerInv
  BY DEF IInv
<1>1. TypeOK'
  BY <1>0 DEF TypeOK
<1>2. \A j \in Issues \ {i} : JobFits(j)'
  BY <1>0, PipelineRests DEF PipelineInv
<1>3. PipelineInv'
  BY <1>2 DEF PipelineInv
<1>4. SentInv'
  BY <1>0, NothingSent DEF SentInv
<1>5. ClosingInv'
  BY <1>0, ClosingRests DEF ClosingInv
<1>6. RedInv'
  BY <1>0 DEF RedInv
<1>7. LedgerInv'
  <2> SUFFICES ASSUME NEW j \in Issues, Forgettable(j)'
               PROVE  Entry(j, branch'[j]) \in ledger /\ ~(branch'[j] \subseteq head)
    BY DEF LedgerInv
  <2>1. branch'[j] = branch[j]
    BY DEF Forgettable
  <2>2. Forgettable(j)
    BY <2>1 DEF Forgettable, Handed
  <2>. QED
    BY <1>0, <2>1, <2>2 DEF LedgerInv
<1>. QED
  BY <1>1, <1>3, <1>4, <1>5, <1>6, <1>7 DEF IInv

\* A worker takes an issue.
LEMMA StartingKeepsIt ==
    ASSUME IInv, NEW i \in Issues, StartPipeline(i)
    PROVE  IInv'
<1>0. TypeOK /\ CommitInv /\ NothingDestroyed /\ JobFits(i)
  BY DEF IInv, PipelineInv
<1>1. /\ at = "executing" /\ job[i] = "queued" /\ job' = [job EXCEPT ![i] = "implementing"]
      /\ UNCHANGED open /\ UNCHANGED branch /\ UNCHANGED head /\ UNCHANGED headOk
      /\ UNCHANGED kept /\ UNCHANGED made /\ UNCHANGED ledger /\ UNCHANGED at
      /\ UNCHANGED iteration /\ UNCHANGED fresh /\ UNCHANGED reported /\ UNCHANGED validated
      /\ UNCHANGED sent /\ UNCHANGED todo /\ UNCHANGED closed /\ UNCHANGED after
      /\ UNCHANGED attempt /\ UNCHANGED broke /\ UNCHANGED gated /\ UNCHANGED capped
      /\ UNCHANGED handed /\ UNCHANGED excused /\ UNCHANGED crashes
  BY DEF StartPipeline, repo, closing, healing, history
<1>2. CommitInv' /\ NothingDestroyed'
  BY <1>0, <1>1, CommitsRest, NothingLost
<1>3. /\ job' \in [Issues -> Jobs] /\ job'[i] = "implementing"
      /\ \A j \in Issues \ {i} : job'[j] = job[j]
  BY <1>0, <1>1 DEF TypeOK, Jobs, Running
<1>4. JobFits(i)'
  BY <1>0, <1>1, <1>3 DEF JobFits, Running
<1>. QED
  BY <1>0, <1>1, <1>2, <1>3, <1>4, PipelineStepKeepsIt DEF TypeOK

\* A commit is new, and its branch's alone.
LEMMA CommittingKeepsIt ==
    ASSUME IInv, NEW i \in Issues, AgentCommits(i)
    PROVE  IInv'
<1>0. TypeOK /\ CommitInv /\ NothingDestroyed /\ JobFits(i)
  BY DEF IInv, PipelineInv
<1> DEFINE c == made + 1
<1>1. /\ at = "executing" /\ job[i] \in Running /\ made < MaxCommits /\ made' = c
      /\ branch' = [branch EXCEPT ![i] = @ \cup {c}] /\ fresh' = [fresh EXCEPT ![i] = TRUE]
      /\ UNCHANGED open /\ UNCHANGED head /\ UNCHANGED headOk
      /\ UNCHANGED kept /\ UNCHANGED ledger /\ UNCHANGED at
      /\ UNCHANGED iteration /\ UNCHANGED job /\ UNCHANGED reported /\ UNCHANGED validated
      /\ UNCHANGED sent /\ UNCHANGED todo /\ UNCHANGED closed /\ UNCHANGED after
      /\ UNCHANGED attempt /\ UNCHANGED broke /\ UNCHANGED gated /\ UNCHANGED capped
      /\ UNCHANGED handed /\ UNCHANGED excused /\ UNCHANGED crashes
  BY DEF AgentCommits, closing, healing, history
<1>2. /\ c \in Commits /\ c \in 0..MaxCommits /\ 1..c = 1..made \cup {c} /\ c \notin 1..made
  BY <1>0, <1>1, RoundAssumption DEF TypeOK, Commits
<1> HIDE DEF c
<1>3. /\ branch' \in [Issues -> SUBSET Commits] /\ branch'[i] = branch[i] \cup {c}
      /\ \A j \in Issues \ {i} : branch'[j] = branch[j]
  BY <1>0, <1>1, <1>2 DEF TypeOK
<1>4. /\ fresh' \in [Issues -> BOOLEAN] /\ fresh'[i]
      /\ \A j \in Issues \ {i} : fresh'[j] = fresh[j]
  BY <1>0, <1>1 DEF TypeOK
<1>5. CommitInv'
  <2>1. \A j \in Issues : c \notin branch[j] /\ branch[j] \subseteq 1..made
    BY <1>0, <1>2 DEF CommitInv
  <2>2. \A h \in handed : c \notin h.tip /\ h.tip \subseteq 1..made
    BY <1>0, <1>2 DEF CommitInv
  <2>3. \A j \in Issues : branch'[j] \subseteq 1..made'
    BY <1>1, <1>2, <1>3, <2>1
  <2>4. \A h \in handed : h.tip \subseteq 1..made'
    BY <1>1, <1>2, <2>2
  <2>5. \A j, k \in Issues : j # k => branch'[j] \cap branch'[k] = {}
    BY <1>0, <1>3, <2>1 DEF CommitInv
  <2>6. \A h \in handed : \A j \in Issues : j # h.id => h.tip \cap branch'[j] = {}
    BY <1>0, <1>3, <2>2 DEF CommitInv
  <2>. QED
    BY <1>1, <2>3, <2>4, <2>5, <2>6 DEF CommitInv
<1>6. NothingDestroyed'
  <2> SUFFICES ASSUME NEW d \in 1..made \cup {c}
               PROVE  d \in head \cup kept \/ \E j \in Issues : d \in branch'[j]
    BY <1>1, <1>2 DEF NothingDestroyed
  <2>1. CASE d = c
    BY <1>3, <2>1
  <2>2. CASE d \in 1..made
    BY <1>0, <1>3, <2>2 DEF NothingDestroyed
  <2>. QED
    BY <2>1, <2>2
<1>7. ~Handed(i)'
  <2>1. \A h \in handed : c \notin h.tip
    BY <1>0, <1>2 DEF CommitInv
  <2>2. c \in Entry(i, branch'[i]).tip
    BY <1>3, EntryParts
  <2>. QED
    BY <1>1, <2>1, <2>2 DEF Handed
<1>8. JobFits(i)'
  BY <1>0, <1>1, <1>3, <1>4, <1>7 DEF JobFits, Gated, Running
<1>. QED
  BY <1>0, <1>1, <1>2, <1>3, <1>4, <1>5, <1>6, <1>7, <1>8, PipelineStepKeepsIt DEF TypeOK

\* A phase that is run again forgets that it committed.
LEMMA RerunningKeepsIt ==
    ASSUME IInv, NEW i \in Issues, Rerun(i)
    PROVE  IInv'
<1>0. TypeOK /\ CommitInv /\ NothingDestroyed /\ JobFits(i)
  BY DEF IInv, PipelineInv
<1>1. /\ at = "executing" /\ fresh' = [fresh EXCEPT ![i] = FALSE]
      /\ UNCHANGED open /\ UNCHANGED branch /\ UNCHANGED head /\ UNCHANGED headOk
      /\ UNCHANGED kept /\ UNCHANGED made /\ UNCHANGED ledger /\ UNCHANGED at
      /\ UNCHANGED iteration /\ UNCHANGED job /\ UNCHANGED reported /\ UNCHANGED validated
      /\ UNCHANGED sent /\ UNCHANGED todo /\ UNCHANGED closed /\ UNCHANGED after
      /\ UNCHANGED attempt /\ UNCHANGED broke /\ UNCHANGED gated /\ UNCHANGED capped
      /\ UNCHANGED handed /\ UNCHANGED excused /\ UNCHANGED crashes
  BY DEF Rerun, repo, closing, healing, history
<1>2. CommitInv' /\ NothingDestroyed'
  BY <1>0, <1>1, CommitsRest, NothingLost
<1>3. /\ fresh' \in [Issues -> BOOLEAN] /\ ~fresh'[i]
      /\ \A j \in Issues \ {i} : fresh'[j] = fresh[j]
  BY <1>0, <1>1 DEF TypeOK
<1>4. JobFits(i)'
  BY <1>0, <1>1, <1>3 DEF JobFits, Gated
<1>. QED
  BY <1>0, <1>1, <1>2, <1>3, <1>4, PipelineStepKeepsIt DEF TypeOK

\* A run that returns has gated the branch as it is, or was cut.
LEMMA ReturnedEffect ==
    ASSUME TypeOK, NEW i \in Issues, Returned(i), UNCHANGED branch
    PROVE  /\ gated' \in [Issues -> SUBSET Commits] /\ capped' \subseteq Issues
           /\ Gated(i, branch[i])'
           /\ \A j \in Issues \ {i} : gated'[j] = gated[j] /\ (j \in capped' <=> j \in capped)
BY DEF TypeOK, Returned, Gated

\* The implementer is done: its tip is captured when it committed, or the issue is settled.
LEMMA ImplementingKeepsIt ==
    ASSUME IInv, NEW i \in Issues, ImplementerEnds(i)
    PROVE  IInv'
<1>0. TypeOK /\ CommitInv /\ NothingDestroyed /\ JobFits(i)
  BY DEF IInv, PipelineInv
<1>1. /\ at = "executing" /\ job[i] = "implementing" /\ fresh' = [fresh EXCEPT ![i] = FALSE]
      /\ UNCHANGED open /\ UNCHANGED branch /\ UNCHANGED head /\ UNCHANGED headOk
      /\ UNCHANGED kept /\ UNCHANGED made /\ UNCHANGED ledger /\ UNCHANGED at
      /\ UNCHANGED iteration /\ UNCHANGED sent /\ UNCHANGED todo /\ UNCHANGED closed
      /\ UNCHANGED after /\ UNCHANGED attempt /\ UNCHANGED broke
      /\ UNCHANGED handed /\ UNCHANGED excused /\ UNCHANGED crashes
  BY DEF ImplementerEnds, repo, closing, healing
<1>2. CommitInv' /\ NothingDestroyed'
  BY <1>0, <1>1, CommitsRest, NothingLost
<1>3. /\ fresh' \in [Issues -> BOOLEAN] /\ ~fresh'[i]
      /\ \A j \in Issues \ {i} : fresh'[j] = fresh[j]
  BY <1>0, <1>1 DEF TypeOK
<1>4. validated[i] = {}
  BY <1>0, <1>1 DEF JobFits
<1> DEFINE Ended ==
             /\ job' \in [Issues -> Jobs] /\ reported' \in [Issues -> BOOLEAN]
             /\ validated' \in [Issues -> SUBSET Commits]
             /\ gated' \in [Issues -> SUBSET Commits] /\ capped' \subseteq Issues
             /\ \A j \in Issues \ {i} :
                   /\ job'[j] = job[j] /\ validated'[j] = validated[j]
                   /\ gated'[j] = gated[j] /\ (j \in capped' <=> j \in capped)
             /\ JobFits(i)'
<1>5. ASSUME job' = [job EXCEPT ![i] = "rejected"], UNCHANGED <<reported, validated, gated, capped>>
      PROVE  Ended
  <2>1. /\ job' \in [Issues -> Jobs] /\ job'[i] = "rejected"
        /\ \A j \in Issues \ {i} : job'[j] = job[j]
    BY <1>0, <1>5 DEF TypeOK, Jobs
  <2>2. JobFits(i)'
    BY <1>1, <1>3, <1>4, <1>5, <2>1 DEF JobFits
  <2>. QED
    BY <1>0, <1>5, <2>1, <2>2 DEF TypeOK
<1>6. ASSUME Returned(i), fresh[i], job' = [job EXCEPT ![i] = "reviewing"],
             reported' = [reported EXCEPT ![i] = TRUE], NEW tip \in {branch[i], {}},
             validated' = [validated EXCEPT ![i] = tip]
      PROVE  Ended
  <2>1. /\ job' \in [Issues -> Jobs] /\ job'[i] = "reviewing"
        /\ \A j \in Issues \ {i} : job'[j] = job[j]
    BY <1>0, <1>6 DEF TypeOK, Jobs, Running
  <2>2. tip \in SUBSET Commits /\ tip \subseteq branch[i]
    BY <1>0 DEF TypeOK
  <2>3. /\ validated' \in [Issues -> SUBSET Commits] /\ validated'[i] = tip
        /\ \A j \in Issues \ {i} : validated'[j] = validated[j]
        /\ reported' \in [Issues -> BOOLEAN]
    BY <1>0, <1>6, <2>2 DEF TypeOK
  <2>4. /\ gated' \in [Issues -> SUBSET Commits] /\ capped' \subseteq Issues
        /\ Gated(i, branch[i])'
        /\ \A j \in Issues \ {i} : gated'[j] = gated[j] /\ (j \in capped' <=> j \in capped)
    BY <1>0, <1>1, <1>6, ReturnedEffect
  <2>5. Entry(i, branch[i]) \notin handed
    BY <1>0, <1>6 DEF JobFits, Handed
  <2>6. JobFits(i)'
    BY <1>1, <1>3, <2>1, <2>2, <2>3, <2>4, <2>5 DEF JobFits, Gated
  <2>. QED
    BY <2>1, <2>3, <2>4, <2>6
<1>7. ASSUME Returned(i), job' = [job EXCEPT ![i] = "fulfilled"], UNCHANGED <<reported, validated>>
      PROVE  Ended
  <2>1. /\ job' \in [Issues -> Jobs] /\ job'[i] = "fulfilled"
        /\ \A j \in Issues \ {i} : job'[j] = job[j]
    BY <1>0, <1>7 DEF TypeOK, Jobs
  <2>2. /\ gated' \in [Issues -> SUBSET Commits] /\ capped' \subseteq Issues
        /\ Gated(i, branch[i])'
        /\ \A j \in Issues \ {i} : gated'[j] = gated[j] /\ (j \in capped' <=> j \in capped)
    BY <1>0, <1>1, <1>7, ReturnedEffect
  <2>3. JobFits(i)'
    BY <1>1, <1>3, <1>4, <1>7, <2>1, <2>2 DEF JobFits, Gated
  <2>. QED
    BY <1>0, <1>7, <2>1, <2>2, <2>3 DEF TypeOK
<1>8. Ended
  BY <1>5, <1>6, <1>7 DEF ImplementerEnds
<1>. QED
  BY <1>0, <1>1, <1>2, <1>3, <1>8, PipelineStepKeepsIt DEF TypeOK

\* The reviewer is done, or fails and leaves the branch to the guard.
LEMMA ReviewingKeepsIt ==
    ASSUME IInv, NEW i \in Issues, ReviewerEnds(i)
    PROVE  IInv'
<1>0. TypeOK /\ CommitInv /\ NothingDestroyed /\ JobFits(i)
  BY DEF IInv, PipelineInv
<1>1. /\ at = "executing" /\ job[i] = "reviewing" /\ fresh' = [fresh EXCEPT ![i] = FALSE]
      /\ validated' = [validated EXCEPT ![i] = IF job'[i] = "guard" THEN @ ELSE {}]
      /\ UNCHANGED reported
      /\ UNCHANGED open /\ UNCHANGED branch /\ UNCHANGED head /\ UNCHANGED headOk
      /\ UNCHANGED kept /\ UNCHANGED made /\ UNCHANGED ledger /\ UNCHANGED at
      /\ UNCHANGED iteration /\ UNCHANGED sent /\ UNCHANGED todo /\ UNCHANGED closed
      /\ UNCHANGED after /\ UNCHANGED attempt /\ UNCHANGED broke
      /\ UNCHANGED handed /\ UNCHANGED excused /\ UNCHANGED crashes
  BY DEF ReviewerEnds, repo, closing, healing
<1>2. CommitInv' /\ NothingDestroyed'
  BY <1>0, <1>1, CommitsRest, NothingLost
<1>3. /\ fresh' \in [Issues -> BOOLEAN] /\ ~fresh'[i]
      /\ \A j \in Issues \ {i} : fresh'[j] = fresh[j]
  BY <1>0, <1>1 DEF TypeOK
<1> DEFINE Ended ==
             /\ job' \in [Issues -> Jobs]
             /\ validated' \in [Issues -> SUBSET Commits]
             /\ gated' \in [Issues -> SUBSET Commits] /\ capped' \subseteq Issues
             /\ \A j \in Issues \ {i} :
                   /\ job'[j] = job[j] /\ validated'[j] = validated[j]
                   /\ gated'[j] = gated[j] /\ (j \in capped' <=> j \in capped)
             /\ JobFits(i)'
<1>4. ASSUME job' = [job EXCEPT ![i] = "guard"], UNCHANGED <<gated, capped>>
      PROVE  Ended
  <2>1. /\ job' \in [Issues -> Jobs] /\ job'[i] = "guard"
        /\ \A j \in Issues \ {i} : job'[j] = job[j]
    BY <1>0, <1>4 DEF TypeOK, Jobs
  <2>2. /\ validated' \in [Issues -> SUBSET Commits] /\ validated'[i] = validated[i]
        /\ \A j \in Issues \ {i} : validated'[j] = validated[j]
    BY <1>0, <1>1, <2>1 DEF TypeOK
  <2>3. JobFits(i)'
    BY <1>0, <1>1, <1>3, <1>4, <2>1, <2>2 DEF JobFits, Gated
  <2>. QED
    BY <1>0, <1>4, <2>1, <2>2, <2>3 DEF TypeOK
<1>5. ASSUME job' = [job EXCEPT ![i] = "fulfilled"], Returned(i)
      PROVE  Ended
  <2>1. /\ job' \in [Issues -> Jobs] /\ job'[i] = "fulfilled"
        /\ \A j \in Issues \ {i} : job'[j] = job[j]
    BY <1>0, <1>5 DEF TypeOK, Jobs
  <2>2. /\ validated' \in [Issues -> SUBSET Commits] /\ validated'[i] = {}
        /\ \A j \in Issues \ {i} : validated'[j] = validated[j]
    BY <1>0, <1>1, <2>1 DEF TypeOK
  <2>3. /\ gated' \in [Issues -> SUBSET Commits] /\ capped' \subseteq Issues
        /\ Gated(i, branch[i])'
        /\ \A j \in Issues \ {i} : gated'[j] = gated[j] /\ (j \in capped' <=> j \in capped)
    BY <1>0, <1>1, <1>5, ReturnedEffect
  <2>4. JobFits(i)'
    BY <1>1, <1>3, <2>1, <2>2, <2>3 DEF JobFits, Gated
  <2>. QED
    BY <2>1, <2>2, <2>3, <2>4
<1>6. Ended
  BY <1>4, <1>5 DEF ReviewerEnds
<1>. QED
  BY <1>0, <1>1, <1>2, <1>3, <1>6, PipelineStepKeepsIt DEF TypeOK

\* The guard rewinds to what was validated and parks the rest, or rejects.
LEMMA GuardingKeepsIt ==
    ASSUME IInv, NEW i \in Issues, Guard(i)
    PROVE  IInv'
<1>0. TypeOK /\ CommitInv /\ NothingDestroyed /\ JobFits(i)
  BY DEF IInv, PipelineInv
<1>1. /\ at = "executing" /\ job[i] = "guard" /\ validated' = [validated EXCEPT ![i] = {}]
      /\ UNCHANGED open /\ UNCHANGED head /\ UNCHANGED headOk
      /\ UNCHANGED made /\ UNCHANGED ledger /\ UNCHANGED at
      /\ UNCHANGED iteration /\ UNCHANGED sent /\ UNCHANGED todo /\ UNCHANGED closed
      /\ UNCHANGED after /\ UNCHANGED attempt /\ UNCHANGED broke
      /\ UNCHANGED handed /\ UNCHANGED excused /\ UNCHANGED crashes
      /\ UNCHANGED fresh /\ UNCHANGED reported /\ UNCHANGED gated /\ UNCHANGED capped
  BY DEF Guard, closing, healing, history
<1>2. /\ validated' \in [Issues -> SUBSET Commits] /\ validated'[i] = {}
      /\ \A j \in Issues \ {i} : validated'[j] = validated[j]
  BY <1>0, <1>1 DEF TypeOK
<1>3. validated[i] \subseteq branch[i] /\ branch[i] \subseteq Commits /\ kept \subseteq Commits
      /\ ~fresh[i] /\ fresh \in [Issues -> BOOLEAN]
  BY <1>0, <1>1 DEF JobFits, TypeOK, Running
<1> DEFINE Settled ==
             /\ job' \in [Issues -> Jobs] /\ branch' \in [Issues -> SUBSET Commits]
             /\ kept' \subseteq Commits
             /\ \A j \in Issues \ {i} : job'[j] = job[j] /\ branch'[j] = branch[j]
             /\ CommitInv' /\ NothingDestroyed' /\ JobFits(i)'
             /\ branch'[i] = branch[i] \/ ~Handed(i)'
<1>4. ASSUME validated[i] # {}, Restore(i), NEW how \in {"fulfilled", "rejected"},
             job' = [job EXCEPT ![i] = how]
      PROVE  Settled
  <2>1. /\ job' \in [Issues -> Jobs] /\ job'[i] = how
        /\ \A j \in Issues \ {i} : job'[j] = job[j]
    BY <1>0, <1>4 DEF TypeOK, Jobs
  <2>2. kept' = kept \cup (branch[i] \ validated[i])
    BY <1>4 DEF Restore
  <2>3. /\ branch' \in [Issues -> SUBSET Commits] /\ branch'[i] = validated[i]
        /\ \A j \in Issues \ {i} : branch'[j] = branch[j]
    BY <1>0, <1>4 DEF Restore, TypeOK
  <2>4. \A j \in Issues : branch'[j] \subseteq branch[j]
    BY <1>3, <2>3
  <2>5. CommitInv'
    BY <1>0, <1>1, <2>4 DEF CommitInv
  <2>6. NothingDestroyed'
    BY <1>0, <1>1, <2>2, <2>3 DEF NothingDestroyed
  <2>7. Gated(i, validated[i]) /\ Entry(i, validated[i]) \notin handed
    BY <1>0, <1>4 DEF JobFits
  <2>8. ~Handed(i)'
    BY <1>1, <2>3, <2>7 DEF Handed
  <2>9. JobFits(i)'
    BY <1>1, <1>2, <1>3, <2>1, <2>3, <2>7 DEF JobFits, Gated
  <2>. QED
    BY <1>3, <2>1, <2>2, <2>3, <2>5, <2>6, <2>8, <2>9
<1>5. ASSUME job' = [job EXCEPT ![i] = "rejected"], UNCHANGED branch,
             kept' \in {kept, IF validated[i] = {} THEN kept ELSE kept \cup (branch[i] \ validated[i])}
      PROVE  Settled
  <2>1. /\ job' \in [Issues -> Jobs] /\ job'[i] = "rejected"
        /\ \A j \in Issues \ {i} : job'[j] = job[j]
    BY <1>0, <1>5 DEF TypeOK, Jobs
  <2>2. kept \subseteq kept' /\ kept' \subseteq Commits
    BY <1>3, <1>5
  <2>3. CommitInv' /\ NothingDestroyed'
    BY <1>0, <1>1, <1>5, <2>2, CommitsRest, NothingLost
  <2>4. JobFits(i)'
    BY <1>1, <1>2, <1>3, <2>1 DEF JobFits
  <2>. QED
    BY <1>0, <1>5, <2>1, <2>2, <2>3, <2>4 DEF TypeOK
<1>6. Settled
  BY <1>4, <1>5 DEF Guard
<1>. QED
  BY <1>0, <1>1, <1>2, <1>6, PipelineStepKeepsIt DEF TypeOK

-----------------------------------------------------------------------------
(* The close pass. *)

\* What an earlier process handed over and has landed is about to be closed.
LEMMA LaunchingKeepsIt ==
    ASSUME IInv, Launch
    PROVE  IInv'
<1>0. /\ TypeOK /\ CommitInv /\ NothingDestroyed /\ PipelineInv
      /\ SentInv /\ ClosingInv /\ RedInv /\ LedgerInv
  BY DEF IInv
<1>1. /\ at = "down" /\ iteration' = 0 /\ at' = "closing" /\ closed' = {} /\ after' = "check"
      /\ todo' = {e.id : e \in LedgerLanded(ledger)}
      /\ UNCHANGED open /\ UNCHANGED branch /\ UNCHANGED head /\ UNCHANGED headOk
      /\ UNCHANGED kept /\ UNCHANGED made /\ UNCHANGED ledger /\ UNCHANGED job
      /\ UNCHANGED fresh /\ UNCHANGED reported /\ UNCHANGED validated /\ UNCHANGED sent
      /\ UNCHANGED attempt /\ UNCHANGED broke /\ UNCHANGED gated /\ UNCHANGED capped
      /\ UNCHANGED handed /\ UNCHANGED excused /\ UNCHANGED crashes
  BY DEF Launch, BeginClosing, repo, pipeline, healing
<1>2. \A e \in LedgerLanded(ledger) : e \in ledger /\ e \in handed /\ e.tip \subseteq head /\ e.id \in Issues
  BY <1>0, EntryForm DEF LedgerLanded, ClosingInv, TypeOK
<1>3. todo' \subseteq Issues /\ \A i \in todo' : LandedOnce(i)
  BY <1>1, <1>2 DEF LandedOnce
<1>4. TypeOK'
  <2>1. "closing" \in Places /\ "check" \in Places /\ 0 \in 0..Iterations
    BY RoundAssumption DEF Places
  <2>. QED
    BY <1>0, <1>1, <1>3, <2>1 DEF TypeOK
<1>5. CommitInv' /\ NothingDestroyed'
  BY <1>0, <1>1, CommitsRest, NothingLost
<1>6. PipelineInv' /\ SentInv'
  BY <1>0, <1>1, PipelinesRest, NothingSent DEF SentInv
<1>7. ClosingInv'
  <2>1. ClosedMeansLanded'
    BY <1>0, <1>1 DEF ClosingInv, ClosedMeansLanded
  <2>2. \A i \in todo' : LandedOnce(i)'
    BY <1>1, <1>3 DEF LandedOnce
  <2>. QED
    BY <1>0, <1>1, <2>1, <2>2 DEF ClosingInv
<1>8. RedInv'
  BY <1>0, <1>1 DEF RedInv
<1>9. LedgerInv'
  <2> SUFFICES ASSUME NEW i \in Issues, Forgettable(i)'
               PROVE  /\ Entry(i, branch[i]) \in ledger
                      /\ branch[i] \subseteq head => i \in todo'
    BY <1>1 DEF LedgerInv
  <2>1. Forgettable(i)
    BY <1>1 DEF Forgettable, Handed
  <2>2. Entry(i, branch[i]) \in ledger
    BY <1>0, <2>1 DEF LedgerInv
  <2>3. branch[i] \subseteq head => Entry(i, branch[i]) \in LedgerLanded(ledger)
    BY <2>2, EntryParts DEF LedgerLanded
  <2>4. Entry(i, branch[i]).id = i
    BY EntryParts
  <2>. QED
    BY <1>1, <2>2, <2>3, <2>4
<1>. QED
  BY <1>4, <1>5, <1>6, <1>7, <1>8, <1>9 DEF IInv

\* An issue about to be closed has landed; one gh cannot tell about is excused.
LEMMA ClosingKeepsIt ==
    ASSUME IInv, NEW i \in Issues, CloseIssue(i)
    PROVE  IInv'
<1>0. /\ TypeOK /\ CommitInv /\ NothingDestroyed /\ PipelineInv
      /\ SentInv /\ ClosingInv /\ RedInv /\ LedgerInv
  BY DEF IInv
<1>1. /\ at = "closing" /\ i \in todo /\ todo' = todo \ {i}
      /\ UNCHANGED branch /\ UNCHANGED head /\ UNCHANGED headOk /\ UNCHANGED at
      /\ UNCHANGED kept /\ UNCHANGED made /\ UNCHANGED ledger /\ UNCHANGED job
      /\ UNCHANGED fresh /\ UNCHANGED reported /\ UNCHANGED validated /\ UNCHANGED sent
      /\ UNCHANGED attempt /\ UNCHANGED broke /\ UNCHANGED gated /\ UNCHANGED capped
      /\ UNCHANGED handed /\ UNCHANGED crashes /\ UNCHANGED iteration /\ UNCHANGED after
  BY DEF CloseIssue, repo, pipeline, healing
<1>2. \/ open' = open \ {i} /\ closed' = closed \cup {i} /\ excused' = excused \ {i}
      \/ /\ open' \in {open, open \ {i}} /\ excused' = excused \cup {i} /\ UNCHANGED closed
  BY DEF CloseIssue
<1>3. /\ open' \subseteq open /\ closed' \subseteq Issues /\ excused' \subseteq Issues
      /\ \A j \in Issues \ {i} : (j \in open' <=> j \in open) /\ (j \in excused' <=> j \in excused)
      /\ i \notin open' \/ i \in excused'
      /\ open \ open' \subseteq {i} /\ closed' \cap open' = {}
  BY <1>0, <1>2 DEF TypeOK, ClosingInv
<1>4. TypeOK'
  BY <1>0, <1>1, <1>3 DEF TypeOK
<1>5. CommitInv' /\ NothingDestroyed'
  BY <1>0, <1>1, CommitsRest, NothingLost
<1>6. PipelineInv'
  BY <1>0, <1>1 DEF PipelineInv, JobFits, Gated, Handed, Running
<1>7. SentInv'
  BY <1>0, <1>1, NothingSent DEF SentInv
<1>8. ClosingInv'
  <2>1. LandedOnce(i)
    BY <1>0, <1>1 DEF ClosingInv
  <2>2. ClosedMeansLanded'
    BY <1>0, <1>1, <1>3, <2>1 DEF ClosingInv, ClosedMeansLanded, LandedOnce
  <2>3. \A j \in todo' : LandedOnce(j)'
    BY <1>0, <1>1 DEF ClosingInv, LandedOnce
  <2>. QED
    BY <1>0, <1>1, <1>3, <2>2, <2>3 DEF ClosingInv
<1>9. RedInv'
  BY <1>0, <1>1 DEF RedInv
<1>10. LedgerInv'
  <2> SUFFICES ASSUME NEW j \in Issues, Forgettable(j)'
               PROVE  /\ Entry(j, branch[j]) \in ledger
                      /\ branch[j] \subseteq head => j \in todo'
    BY <1>1 DEF LedgerInv
  <2>1. j # i /\ Forgettable(j)
    BY <1>1, <1>3 DEF Forgettable, Handed
  <2>2. sent = {}
    BY <1>0, <1>1 DEF SentInv
  <2>. QED
    BY <1>0, <1>1, <2>1, <2>2 DEF LedgerInv
<1>. QED
  BY <1>4, <1>5, <1>6, <1>7, <1>8, <1>9, <1>10 DEF IInv

\* The pass is over: the ledger forgets what was closed.
LEMMA PersistingKeepsIt ==
    ASSUME IInv, PersistClosed
    PROVE  IInv'
<1>0. /\ TypeOK /\ CommitInv /\ NothingDestroyed /\ PipelineInv
      /\ SentInv /\ ClosingInv /\ RedInv /\ LedgerInv
  BY DEF IInv
<1>1. /\ at = "closing" /\ todo = {} /\ ledger' = remainingLedger(ledger, closed)
      /\ UNCHANGED open /\ UNCHANGED branch /\ UNCHANGED head /\ UNCHANGED headOk
      /\ UNCHANGED kept /\ UNCHANGED made /\ UNCHANGED gated /\ UNCHANGED capped
      /\ UNCHANGED handed /\ UNCHANGED excused /\ UNCHANGED crashes
  BY DEF PersistClosed, repo, history
<1>2. /\ ledger' \subseteq ledger /\ \A e \in ledger : e.id \in open => e \in ledger'
  BY <1>0, <1>1 DEF remainingLedger, ClosingInv
<1>3. CASE after = "down"
  <2>1. Exit
    BY <1>3 DEF PersistClosed
  <2>2. crashes' \in 0..MaxCrashes
    BY <1>0, <1>1 DEF TypeOK
  <2>. QED
    BY <1>1, <1>2, <2>1, <2>2, ExitKeepsIt
<1>4. CASE after # "down"
  <2>1. /\ at' = after /\ closed' = {} /\ UNCHANGED iteration /\ UNCHANGED job
        /\ UNCHANGED fresh /\ UNCHANGED reported /\ UNCHANGED validated /\ UNCHANGED sent
        /\ UNCHANGED todo /\ UNCHANGED after /\ UNCHANGED attempt /\ UNCHANGED broke
    BY <1>4 DEF PersistClosed, pipeline, healing
  <2>2. TypeOK'
    BY <1>0, <1>1, <1>2, <2>1 DEF TypeOK
  <2>3. CommitInv' /\ NothingDestroyed'
    BY <1>0, <1>1, CommitsRest, NothingLost
  <2>4. PipelineInv' /\ SentInv'
    BY <1>0, <1>1, <2>1, PipelinesRest, NothingSent DEF SentInv
  <2>5. ClosingInv'
    BY <1>0, <1>1, <1>2, <2>1, ClosingRests DEF ClosingInv
  <2>6. RedInv'
    BY <1>0, <1>1, <1>4, <2>1 DEF RedInv
  <2>7. LedgerInv'
    BY <1>0, <1>1, <1>2, LedgerRests
  <2>. QED
    BY <2>2, <2>3, <2>4, <2>5, <2>6, <2>7 DEF IInv
<1>. QED
  BY <1>3, <1>4

-----------------------------------------------------------------------------
(* Rounds. *)

\* The process goes on and touches neither the repository nor the tracker.
LEMMA MovesKeepsIt ==
    ASSUME IInv, TypeOK', UNCHANGED open, UNCHANGED branch, UNCHANGED head, UNCHANGED kept,
           UNCHANGED made, UNCHANGED ledger, UNCHANGED todo, UNCHANGED closed, UNCHANGED gated,
           UNCHANGED capped, UNCHANGED handed, UNCHANGED excused,
           at \notin {"down", "closing", "merging"}, sent' = {}, PipelineInv', RedInv'
    PROVE  IInv'
<1>0. /\ TypeOK /\ CommitInv /\ NothingDestroyed /\ PipelineInv
      /\ SentInv /\ ClosingInv /\ RedInv /\ LedgerInv
  BY DEF IInv
<1>1. CommitInv' /\ NothingDestroyed'
  BY <1>0, CommitsRest, NothingLost
<1>2. SentInv'
  BY NothingSent
<1>3. ClosingInv'
  BY <1>0, ClosingRests DEF ClosingInv
<1>4. LedgerInv'
  BY <1>0, LedgerRests
<1>. QED
  BY <1>1, <1>2, <1>3, <1>4 DEF IInv

\* The next iteration begins, or the process ends.
LEMMA CheckingKeepsIt ==
    ASSUME IInv, Check
    PROVE  IInv'
<1>0. /\ TypeOK /\ CommitInv /\ NothingDestroyed /\ PipelineInv
      /\ SentInv /\ ClosingInv /\ RedInv /\ LedgerInv
  BY DEF IInv
<1>1. /\ at = "check"
      /\ UNCHANGED open /\ UNCHANGED branch /\ UNCHANGED head /\ UNCHANGED headOk
      /\ UNCHANGED kept /\ UNCHANGED made /\ UNCHANGED ledger /\ UNCHANGED gated
      /\ UNCHANGED capped /\ UNCHANGED handed /\ UNCHANGED excused /\ UNCHANGED crashes
  BY DEF Check, repo, history
<1>2. CASE Exit
  BY <1>0, <1>1, <1>2, ExitKeepsIt DEF TypeOK
<1>3. CASE ~Exit
  <2>1. /\ iteration < Iterations /\ at' = "planning" /\ iteration' = iteration + 1
        /\ NoJobs /\ sent' = {} /\ attempt' = 0
        /\ UNCHANGED todo /\ UNCHANGED closed /\ UNCHANGED after /\ UNCHANGED broke
    BY <1>3 DEF Check, closing
  <2>2. iteration' \in 0..Iterations /\ 0 \in 0..HealAttempts
    BY <1>0, <2>1, RoundAssumption DEF TypeOK
  <2>3. TypeOK'
    <3>1. /\ job' \in [Issues -> Jobs] /\ fresh' \in [Issues -> BOOLEAN]
          /\ reported' \in [Issues -> BOOLEAN] /\ validated' \in [Issues -> SUBSET Commits]
      BY <2>1, NoJobsType
    <3>. QED
      BY <1>0, <1>1, <2>1, <2>2, <3>1 DEF TypeOK, Places
  <2>4. PipelineInv' /\ RedInv'
    BY <1>0, <1>1, <2>1, PipelinesGone DEF RedInv
  <2>. QED
    BY <1>1, <2>1, <2>3, <2>4, MovesKeepsIt
<1>. QED
  BY <1>2, <1>3

\* Only open issues are queued.
LEMMA PlanningKeepsIt ==
    ASSUME IInv, Plan
    PROVE  IInv'
<1>0. /\ TypeOK /\ CommitInv /\ NothingDestroyed /\ PipelineInv
      /\ SentInv /\ ClosingInv /\ RedInv /\ LedgerInv
  BY DEF IInv
<1>1. /\ at = "planning"
      /\ UNCHANGED open /\ UNCHANGED branch /\ UNCHANGED head /\ UNCHANGED headOk
      /\ UNCHANGED kept /\ UNCHANGED made /\ UNCHANGED ledger /\ UNCHANGED gated
      /\ UNCHANGED capped /\ UNCHANGED handed /\ UNCHANGED excused /\ UNCHANGED crashes
  BY DEF Plan, repo, history
<1>2. CASE Exit
  BY <1>0, <1>1, <1>2, ExitKeepsIt DEF TypeOK
<1>3. CASE ~Exit
  <2>1. PICK issues \in SUBSET open :
          /\ at' = "executing"
          /\ job' = [i \in Issues |-> IF i \in issues THEN "queued" ELSE "none"]
          /\ UNCHANGED <<iteration, fresh, reported, validated, sent, closing, healing>>
    BY <1>3 DEF Plan
  <2>2. /\ UNCHANGED iteration /\ UNCHANGED fresh /\ UNCHANGED reported /\ UNCHANGED validated
        /\ UNCHANGED sent /\ UNCHANGED todo /\ UNCHANGED closed /\ UNCHANGED after
        /\ UNCHANGED attempt /\ UNCHANGED broke
    BY <2>1 DEF closing, healing
  <2>3. job' \in [Issues -> Jobs] /\ \A i \in Issues : job'[i] \in {"queued", "none"}
                                                       /\ (job'[i] = "queued" => i \in open)
    BY <2>1 DEF Jobs
  <2>4. \A i \in Issues : ~fresh[i] /\ validated[i] = {}
    BY <1>0, <1>1 DEF PipelineInv, JobFits, Running
  <2>5. PipelineInv'
    BY <1>1, <2>1, <2>2, <2>3, <2>4 DEF PipelineInv, JobFits
  <2>6. TypeOK'
    BY <1>0, <1>1, <2>1, <2>2, <2>3 DEF TypeOK, Places
  <2>7. RedInv' /\ sent' = {}
    BY <1>0, <1>1, <2>2 DEF RedInv, SentInv
  <2>. QED
    BY <1>1, <2>2, <2>5, <2>6, <2>7, MovesKeepsIt
<1>. QED
  BY <1>2, <1>3

\* The dirt scan goes on or ends the process.
LEMMA ScanningKeepsIt ==
    ASSUME IInv, DirtScan
    PROVE  IInv'
<1>0. /\ TypeOK /\ CommitInv /\ NothingDestroyed /\ PipelineInv
      /\ SentInv /\ ClosingInv /\ RedInv /\ LedgerInv
  BY DEF IInv
<1>1. /\ at = "dirt"
      /\ UNCHANGED open /\ UNCHANGED branch /\ UNCHANGED head /\ UNCHANGED headOk
      /\ UNCHANGED kept /\ UNCHANGED made /\ UNCHANGED ledger /\ UNCHANGED gated
      /\ UNCHANGED capped /\ UNCHANGED handed /\ UNCHANGED excused /\ UNCHANGED crashes
  BY DEF DirtScan, repo, history
<1>2. CASE Exit
  BY <1>0, <1>1, <1>2, ExitKeepsIt DEF TypeOK
<1>3. CASE ~Exit
  <2>1. /\ at' = "gate" /\ UNCHANGED iteration /\ UNCHANGED job /\ UNCHANGED fresh
        /\ UNCHANGED reported /\ UNCHANGED validated /\ UNCHANGED sent /\ UNCHANGED todo
        /\ UNCHANGED closed /\ UNCHANGED after /\ UNCHANGED attempt /\ UNCHANGED broke
    BY <1>3 DEF DirtScan, pipeline, closing, healing
  <2>2. TypeOK'
    BY <1>0, <1>1, <2>1 DEF TypeOK, Places
  <2>3. PipelineInv' /\ RedInv' /\ sent' = {}
    BY <1>0, <1>1, <2>1, PipelinesRest DEF RedInv, SentInv
  <2>. QED
    BY <1>1, <2>1, <2>2, <2>3, MovesKeepsIt
<1>. QED
  BY <1>2, <1>3

\* Only a green gate leads back to planning, and it is green on a green HEAD only.
LEMMA GatingKeepsIt ==
    ASSUME IInv, Gate
    PROVE  IInv'
<1>0. /\ TypeOK /\ CommitInv /\ NothingDestroyed /\ PipelineInv
      /\ SentInv /\ ClosingInv /\ RedInv /\ LedgerInv
  BY DEF IInv
<1>1. /\ at \in {"gate", "healed"}
      /\ UNCHANGED open /\ UNCHANGED branch /\ UNCHANGED head /\ UNCHANGED headOk
      /\ UNCHANGED kept /\ UNCHANGED made /\ UNCHANGED ledger /\ UNCHANGED gated
      /\ UNCHANGED capped /\ UNCHANGED handed /\ UNCHANGED excused /\ UNCHANGED crashes
  BY DEF Gate, repo, history
<1>2. PICK answer \in GateAnswers :
        CASE answer \in PassesOn -> at' = "check" /\ UNCHANGED <<iteration, pipeline, sent, closing, healing>>
          [] answer = "red" /\ MayHeal ->
                /\ at' = "healing" /\ attempt' = attempt + 1
                /\ UNCHANGED <<iteration, pipeline, sent, closing, broke>>
          [] OTHER -> Exit
  BY DEF Gate
<1>3. CASE answer \in PassesOn
  <2>1. /\ at' = "check" /\ UNCHANGED iteration /\ UNCHANGED job /\ UNCHANGED fresh
        /\ UNCHANGED reported /\ UNCHANGED validated /\ UNCHANGED sent /\ UNCHANGED todo
        /\ UNCHANGED closed /\ UNCHANGED after /\ UNCHANGED attempt /\ UNCHANGED broke
    <3>1. ~(answer = "red" /\ MayHeal)
      BY <1>3 DEF PassesOn
    <3>. QED
      BY <1>2, <1>3, <3>1 DEF pipeline, closing, healing
  <2>2. headOk
    BY <1>3 DEF PassesOn, GateAnswers
  <2>3. TypeOK'
    BY <1>0, <1>1, <2>1 DEF TypeOK, Places
  <2>4. PipelineInv' /\ RedInv' /\ sent' = {}
    BY <1>0, <1>1, <2>1, <2>2, PipelinesRest DEF RedInv, SentInv
  <2>. QED
    BY <1>1, <2>1, <2>3, <2>4, MovesKeepsIt
<1>4. CASE answer \notin PassesOn /\ answer = "red" /\ MayHeal
  <2>1. /\ at' = "healing" /\ attempt' = attempt + 1 /\ UNCHANGED iteration /\ UNCHANGED job
        /\ UNCHANGED fresh /\ UNCHANGED reported /\ UNCHANGED validated /\ UNCHANGED sent
        /\ UNCHANGED todo /\ UNCHANGED closed /\ UNCHANGED after /\ UNCHANGED broke
    BY <1>2, <1>4 DEF pipeline, closing
  <2>2. attempt' \in 0..HealAttempts
    BY <1>0, <1>4, <2>1, RoundAssumption DEF TypeOK, MayHeal
  <2>3. TypeOK'
    BY <1>0, <1>1, <2>1, <2>2 DEF TypeOK, Places
  <2>4. PipelineInv' /\ RedInv' /\ sent' = {}
    BY <1>0, <1>1, <2>1, PipelinesRest DEF RedInv, SentInv
  <2>. QED
    BY <1>1, <2>1, <2>3, <2>4, MovesKeepsIt
<1>5. CASE answer \notin PassesOn /\ ~(answer = "red" /\ MayHeal)
  <2>1. Exit
    BY <1>2, <1>5
  <2>. QED
    BY <1>0, <1>1, <2>1, ExitKeepsIt DEF TypeOK
<1>. QED
  BY <1>3, <1>4, <1>5

\* The healer may repair HEAD or break it further.
LEMMA HealingKeepsIt ==
    ASSUME IInv, Heal
    PROVE  IInv'
<1>0. /\ TypeOK /\ CommitInv /\ NothingDestroyed /\ PipelineInv
      /\ SentInv /\ ClosingInv /\ RedInv /\ LedgerInv
  BY DEF IInv
<1>1. /\ at = "healing"
      /\ UNCHANGED open /\ UNCHANGED branch /\ UNCHANGED head
      /\ UNCHANGED kept /\ UNCHANGED made /\ UNCHANGED ledger /\ UNCHANGED gated
      /\ UNCHANGED capped /\ UNCHANGED handed /\ UNCHANGED excused /\ UNCHANGED crashes
  BY DEF Heal, history
<1>2. CASE Exit /\ UNCHANGED headOk
  BY <1>0, <1>1, <1>2, ExitKeepsIt DEF TypeOK
<1>3. CASE ~(Exit /\ UNCHANGED headOk)
  <2>1. /\ headOk' \in BOOLEAN /\ at' = "healed" /\ broke' = (broke /\ ~headOk')
        /\ UNCHANGED iteration /\ UNCHANGED job /\ UNCHANGED fresh
        /\ UNCHANGED reported /\ UNCHANGED validated /\ UNCHANGED sent /\ UNCHANGED todo
        /\ UNCHANGED closed /\ UNCHANGED after /\ UNCHANGED attempt
    BY <1>3 DEF Heal, pipeline, closing
  <2>2. TypeOK'
    BY <1>0, <1>1, <2>1 DEF TypeOK, Places
  <2>3. PipelineInv' /\ RedInv' /\ sent' = {}
    BY <1>0, <1>1, <2>1, PipelinesRest DEF RedInv, SentInv
  <2>. QED
    BY <1>1, <2>1, <2>2, <2>3, MovesKeepsIt
<1>. QED
  BY <1>2, <1>3

\* The process is killed.
LEMMA CrashingKeepsIt ==
    ASSUME IInv, Crash
    PROVE  IInv'
<1>1. /\ crashes < MaxCrashes /\ crashes' = crashes + 1 /\ Exit
      /\ UNCHANGED open /\ UNCHANGED branch /\ UNCHANGED head /\ UNCHANGED headOk
      /\ UNCHANGED kept /\ UNCHANGED made /\ UNCHANGED ledger /\ UNCHANGED gated
      /\ UNCHANGED capped /\ UNCHANGED handed /\ UNCHANGED excused
  BY DEF Crash, repo
<1>2. crashes' \in 0..MaxCrashes
  BY <1>1, RoundAssumption DEF IInv, TypeOK
<1>. QED
  BY <1>1, <1>2, ExitKeepsIt
-----------------------------------------------------------------------------
(* The merge. *)

\* The tips of some issues are their entries.
LEMMA TipsForm ==
    ASSUME NEW issues \in SUBSET Issues
    PROVE  /\ \A i \in issues : Entry(i, branch[i]) \in Tips(issues)
           /\ \A e \in Tips(issues) : e.id \in issues /\ e.tip = branch[e.id]
           /\ \A i : Entry(i, branch[i]) \in Tips(issues) => i \in issues
<1>1. Tips(issues) = {Entry(i, branch[i]) : i \in issues}
  BY DEF Tips, Entry
<1>. QED
  BY <1>1, EntryParts

\* What the merger is given is gated, new to it or given again, and in the ledger unless
\* git did not resolve it.
LEMMA SelectingKeepsIt ==
    ASSUME IInv, Select
    PROVE  IInv'
<1>0. /\ TypeOK /\ CommitInv /\ NothingDestroyed /\ PipelineInv
      /\ SentInv /\ ClosingInv /\ RedInv /\ LedgerInv
  BY DEF IInv
<1> DEFINE ready == {i \in Issues : selectMergeableIssues(i)}
<1>1. /\ at = "executing" /\ \A i \in Issues : job[i] \in {"none", "fulfilled", "rejected"}
      /\ UNCHANGED open /\ UNCHANGED branch /\ UNCHANGED head /\ UNCHANGED headOk
      /\ UNCHANGED kept /\ UNCHANGED made /\ UNCHANGED iteration /\ UNCHANGED todo
      /\ UNCHANGED closed /\ UNCHANGED after /\ UNCHANGED attempt /\ UNCHANGED broke
      /\ UNCHANGED gated /\ UNCHANGED capped /\ UNCHANGED crashes
  BY DEF Select, repo, closing, healing
<1>2. IF ready = {}
        THEN /\ at' = "check" /\ NoJobs
             /\ UNCHANGED <<ledger, sent, handed, excused>>
        ELSE \E resolved \in SUBSET ready :
             /\ at' = "merging" /\ sent' = ready /\ UNCHANGED pipeline
             /\ ledger' = Recorded(resolved)
             /\ handed' = handed \cup Tips(ready)
             /\ excused' = excused \cup (ready \ resolved)
  BY DEF Select
<1>3. ready \subseteq Issues /\ \A i \in ready : job[i] = "fulfilled"
  BY DEF selectMergeableIssues
<1> HIDE DEF ready
<1>4. CASE ready = {}
  <2>1. /\ at' = "check" /\ NoJobs /\ UNCHANGED ledger /\ UNCHANGED sent /\ UNCHANGED handed
        /\ UNCHANGED excused
    BY <1>2, <1>4
  <2>2. TypeOK'
    <3>1. /\ job' \in [Issues -> Jobs] /\ fresh' \in [Issues -> BOOLEAN]
          /\ reported' \in [Issues -> BOOLEAN] /\ validated' \in [Issues -> SUBSET Commits]
      BY <2>1, NoJobsType
    <3>. QED
      BY <1>0, <1>1, <2>1, <3>1 DEF TypeOK, Places
  <2>3. PipelineInv' /\ RedInv' /\ sent' = {}
    BY <1>0, <1>1, <2>1, PipelinesGone DEF RedInv, SentInv
  <2>. QED
    BY <1>1, <2>1, <2>2, <2>3, MovesKeepsIt
<1>5. CASE ready # {}
  <2>1. PICK resolved \in SUBSET ready :
             /\ at' = "merging" /\ sent' = ready /\ UNCHANGED pipeline
             /\ ledger' = Recorded(resolved)
             /\ handed' = handed \cup Tips(ready)
             /\ excused' = excused \cup (ready \ resolved)
    BY <1>2, <1>5
  <2>2. /\ UNCHANGED job /\ UNCHANGED fresh /\ UNCHANGED reported /\ UNCHANGED validated
    BY <2>1 DEF pipeline
  <2>3. /\ \A i \in ready : Entry(i, branch[i]) \in handed'
        /\ \A h \in handed' \ handed : h \in Entries /\ h.id \in ready /\ h.tip = branch[h.id]
        /\ \A i \in Issues \ ready : Entry(i, branch[i]) \in handed' => Entry(i, branch[i]) \in handed
        /\ handed \subseteq handed'
    <3>1. Tips(ready) \subseteq Entries
      <4>1. Tips(ready) = {Entry(i, branch[i]) : i \in ready}
        BY DEF Tips, Entry
      <4>. QED
        BY <1>0, <1>3, <4>1, EntryType DEF TypeOK
    <3>. QED
      BY <1>3, <2>1, <3>1, TipsForm
  <2>4. /\ \A i \in resolved : Entry(i, branch[i]) \in ledger'
        /\ \A e \in ledger : e.id \notin resolved => e \in ledger'
        /\ ledger' \subseteq ledger \cup Tips(resolved)
    <3>1. \A e \in Tips(resolved) : e.id \in resolved
      BY <1>3, TipsForm
    <3>2. \A i \in resolved : Entry(i, branch[i]) \in Tips(resolved)
      BY <1>3, TipsForm
    <3>. QED
      BY <2>1, <3>1, <3>2 DEF Recorded, mergeLedger
  <2>5. ledger' \subseteq handed'
    <3>1. Tips(resolved) \subseteq Tips(ready)
      BY DEF Tips
    <3>. QED
      BY <1>0, <2>1, <2>4, <3>1 DEF ClosingInv
  <2>6. TypeOK'
    <3>1. handed' \subseteq Entries
      BY <1>0, <2>3 DEF TypeOK
    <3>. QED
      BY <1>0, <1>1, <1>3, <2>1, <2>2, <2>5, <3>1 DEF TypeOK, Places
  <2>7. CommitInv'
    <3>1. \A h \in handed' : h.tip \subseteq 1..made
      BY <1>0, <1>3, <2>3 DEF CommitInv
    <3>2. \A h \in handed' : \A j \in Issues : j # h.id => h.tip \cap branch[j] = {}
      BY <1>0, <1>3, <2>3 DEF CommitInv
    <3>. QED
      BY <1>0, <1>1, <3>1, <3>2 DEF CommitInv
  <2>8. NothingDestroyed'
    BY <1>0, <1>1, NothingLost
  <2>9. PipelineInv'
    <3> SUFFICES ASSUME NEW i \in Issues
                 PROVE  JobFits(i)'
      BY DEF PipelineInv
    <3>1. JobFits(i) /\ job[i] \in {"none", "fulfilled", "rejected"}
      BY <1>0, <1>1 DEF PipelineInv
    <3>2. ~fresh[i] /\ validated[i] = {}
      BY <3>1 DEF JobFits, Running
    <3>. QED
      BY <1>1, <2>1, <2>2, <3>1, <3>2 DEF JobFits, Gated
  <2>10. SentInv'
    <3>1. MergedWasGated'
      BY <1>0, <1>1, <1>3, <2>1 DEF MergedWasGated, PipelineInv, JobFits, Gated
    <3>. QED
      BY <1>1, <2>1, <2>3, <3>1 DEF SentInv, Handed
  <2>11. ClosingInv'
    BY <1>0, <1>1, <2>3, <2>5, ClosingRests
  <2>12. RedInv'
    BY <1>0, <1>1 DEF RedInv
  <2>13. LedgerInv'
    <3> SUFFICES ASSUME NEW i \in Issues, Forgettable(i)'
                 PROVE  /\ Entry(i, branch[i]) \in ledger'
                        /\ branch[i] \subseteq head => i \in ready
      BY <1>1, <2>1 DEF LedgerInv
    <3>1. CASE i \in ready
      BY <2>1, <2>4, <3>1 DEF Forgettable
    <3>2. CASE i \notin ready
      <4>1. Forgettable(i)
        BY <1>1, <2>1, <2>3, <3>2 DEF Forgettable, Handed
      <4>2. Entry(i, branch[i]) \in ledger /\ ~(branch[i] \subseteq head)
        BY <1>0, <1>1, <4>1 DEF LedgerInv
      <4>3. Entry(i, branch[i]).id \notin resolved
        BY <3>2, EntryParts
      <4>. QED
        BY <2>4, <4>2, <4>3
    <3>. QED
      BY <3>1, <3>2
  <2>. QED
    BY <2>6, <2>7, <2>8, <2>9, <2>10, <2>11, <2>12, <2>13 DEF IInv
<1>. QED
  BY <1>4, <1>5

\* What is proved to have landed is about to be closed; a landing the process cannot prove
\* excuses the issue, and one nobody made is no landing.
LEMMA MergingKeepsIt ==
    ASSUME IInv, Merge
    PROVE  IInv'
<1>0. /\ TypeOK /\ CommitInv /\ NothingDestroyed /\ PipelineInv
      /\ SentInv /\ ClosingInv /\ RedInv /\ LedgerInv
  BY DEF IInv
<1>1. /\ at = "merging" /\ sent' = {} /\ NoJobs
      /\ UNCHANGED open /\ UNCHANGED branch /\ UNCHANGED made /\ UNCHANGED ledger
      /\ UNCHANGED iteration /\ UNCHANGED attempt /\ UNCHANGED gated /\ UNCHANGED capped
      /\ UNCHANGED handed /\ UNCHANGED crashes
  BY DEF Merge
<1>2. PICK landed \in SUBSET sent, proved \in SUBSET sent, throws \in BOOLEAN :
        /\ AfterMerge(landed)
        /\ kept' = IF landed = {} THEN kept \cup UNION {branch[i] : i \in sent} ELSE kept
        /\ BeginClosing(ProvedLanded(proved), IF throws THEN "down" ELSE "dirt")
        /\ excused' = excused \cup (sent \ proved)
  BY DEF Merge
<1>3. /\ head' = head \cup UNION {branch[i] : i \in landed}
      /\ headOk' \in (IF head' = head THEN {headOk} ELSE BOOLEAN)
      /\ broke' = (head' # head /\ ~headOk')
  BY <1>2 DEF AfterMerge
<1>4. /\ at' = "closing" /\ todo' = ProvedLanded(proved) /\ closed' = {}
      /\ after' \in {"down", "dirt"}
  BY <1>2 DEF BeginClosing
<1>5. \A i \in Issues : i \in todo' <=> i \in sent /\ i \in proved /\ branch[i] \subseteq head'
  BY <1>0, <1>4 DEF ProvedLanded, TypeOK
<1>6. head \subseteq head' /\ kept \subseteq kept'
  BY <1>2, <1>3
<1>7. TypeOK'
  <2>1. \A s \in SUBSET sent : UNION {branch[i] : i \in s} \subseteq Commits
    BY <1>0 DEF TypeOK
  <2>2. head' \subseteq Commits /\ kept' \subseteq Commits
    BY <1>0, <1>2, <1>3, <2>1 DEF TypeOK
  <2>3. headOk' \in BOOLEAN /\ broke' \in BOOLEAN
    BY <1>0, <1>3 DEF TypeOK
  <2>4. todo' \subseteq Issues
    BY <1>0, <1>4 DEF ProvedLanded, TypeOK
  <2>5. excused' \subseteq Issues
    BY <1>0, <1>2 DEF TypeOK
  <2>6. /\ job' \in [Issues -> Jobs] /\ fresh' \in [Issues -> BOOLEAN]
        /\ reported' \in [Issues -> BOOLEAN] /\ validated' \in [Issues -> SUBSET Commits]
    BY <1>1, NoJobsType
  <2>7. at' \in Places /\ after' \in Places
    BY <1>4 DEF Places
  <2>. QED
    BY <1>0, <1>1, <1>4, <2>2, <2>3, <2>4, <2>5, <2>6, <2>7 DEF TypeOK
<1>8. CommitInv' /\ NothingDestroyed'
  BY <1>0, <1>1, <1>6, CommitsRest, NothingLost
<1>9. PipelineInv' /\ SentInv'
  BY <1>1, PipelinesGone, NothingSent
<1>10. ClosingInv'
  <2>1. ClosedMeansLanded'
    BY <1>0, <1>1, <1>6 DEF ClosingInv, ClosedMeansLanded
  <2>2. \A i \in todo' : LandedOnce(i)'
    <3> SUFFICES ASSUME NEW i \in todo'
                 PROVE  \E h \in handed : h.id = i /\ h.tip \subseteq head'
      BY <1>1 DEF LandedOnce
    <3>1. i \in Issues /\ i \in sent /\ branch[i] \subseteq head'
      BY <1>5, <1>7 DEF TypeOK
    <3>2. Entry(i, branch[i]) \in handed
      BY <1>0, <3>1 DEF SentInv, Handed
    <3>. QED
      BY <3>1, <3>2, EntryParts
  <2>. QED
    BY <1>0, <1>1, <1>4, <2>1, <2>2 DEF ClosingInv
<1>11. RedInv'
  BY <1>3, <1>4 DEF RedInv
<1>12. LedgerInv'
  <2> SUFFICES ASSUME NEW i \in Issues, Forgettable(i)'
               PROVE  /\ Entry(i, branch[i]) \in ledger
                      /\ branch[i] \subseteq head' => i \in todo'
    BY <1>1, <1>4 DEF LedgerInv
  <2>1. Forgettable(i) /\ i \notin sent \ proved
    BY <1>1, <1>2 DEF Forgettable, Handed
  <2>2. Entry(i, branch[i]) \in ledger /\ (branch[i] \subseteq head => i \in sent)
    BY <1>0, <1>1, <2>1 DEF LedgerInv
  <2>3. CASE i \in sent
    BY <1>5, <2>1, <2>2, <2>3
  <2>4. CASE i \notin sent
    <3>1. PICK c \in branch[i] : c \notin head
      BY <2>2, <2>4
    <3>2. \A k \in landed : k \in Issues /\ branch[k] \cap branch[i] = {}
      BY <1>0, <2>4 DEF CommitInv, TypeOK
    <3>3. c \notin head'
      BY <1>3, <3>1, <3>2
    <3>. QED
      BY <2>2, <3>1, <3>3
  <2>. QED
    BY <2>3, <2>4
<1>. QED
  BY <1>7, <1>8, <1>9, <1>10, <1>11, <1>12 DEF IInv

\* A human lands preserved work, or a fix, while no process runs.
LEMMA HelpingKeepsIt ==
    ASSUME IInv, ManualMerge
    PROVE  IInv'
<1>0. /\ TypeOK /\ CommitInv /\ NothingDestroyed /\ PipelineInv
      /\ SentInv /\ ClosingInv /\ RedInv /\ LedgerInv
  BY DEF IInv
<1>1. /\ at = "down"
      /\ UNCHANGED open /\ UNCHANGED branch /\ UNCHANGED kept /\ UNCHANGED made
      /\ UNCHANGED ledger /\ UNCHANGED at /\ UNCHANGED iteration /\ UNCHANGED job
      /\ UNCHANGED fresh /\ UNCHANGED reported /\ UNCHANGED validated /\ UNCHANGED sent
      /\ UNCHANGED todo /\ UNCHANGED closed /\ UNCHANGED after /\ UNCHANGED attempt
      /\ UNCHANGED broke /\ UNCHANGED gated /\ UNCHANGED capped /\ UNCHANGED handed
      /\ UNCHANGED excused /\ UNCHANGED crashes
  BY DEF ManualMerge, pipeline, closing, healing, history
<1>2. head \subseteq head' /\ head' \subseteq Commits /\ headOk' \in BOOLEAN
  <2>1. \A h \in handed : h.tip \subseteq Commits
    BY <1>0 DEF TypeOK, Entries
  <2>. QED
    BY <1>0, <2>1 DEF ManualMerge, TypeOK
<1>3. TypeOK'
  BY <1>0, <1>1, <1>2 DEF TypeOK
<1>4. CommitInv' /\ NothingDestroyed'
  BY <1>0, <1>1, <1>2, CommitsRest, NothingLost
<1>5. PipelineInv' /\ SentInv'
  BY <1>0, <1>1, PipelinesRest, NothingSent DEF SentInv
<1>6. ClosingInv'
  BY <1>0, <1>1, <1>2, ClosingRests DEF ClosingInv
<1>7. RedInv'
  BY <1>0, <1>1 DEF RedInv
<1>8. LedgerInv'
  BY <1>0, <1>1 DEF LedgerInv, Forgettable, Handed
<1>. QED
  BY <1>3, <1>4, <1>5, <1>6, <1>7, <1>8 DEF IInv

-----------------------------------------------------------------------------
(* The theorems. *)

\* All issues are open and nothing was done yet.
LEMMA StartsIn == Init => IInv
<1> SUFFICES ASSUME Init
             PROVE  IInv
  OBVIOUS
<1>1. TypeOK
  <2>1. /\ made \in 0..MaxCommits /\ iteration \in 0..Iterations /\ attempt \in 0..HealAttempts
        /\ crashes \in 0..MaxCrashes
    BY RoundAssumption DEF Init
  <2>2. /\ at \in Places /\ after \in Places /\ job \in [Issues -> Jobs]
    BY DEF Init, Places, Jobs
  <2>3. branch \in [Issues -> SUBSET Commits] /\ gated \in [Issues -> SUBSET Commits]
    BY DEF Init
  <2>. QED
    BY <2>1, <2>2, <2>3 DEF Init, TypeOK
<1>2. CommitInv /\ NothingDestroyed
  <2>1. made = 0 /\ handed = {} /\ \A i \in Issues : branch[i] = {}
    BY DEF Init
  <2>2. 1..made = {}
    BY <2>1
  <2>. QED
    BY <2>1, <2>2 DEF CommitInv, NothingDestroyed
<1>3. PipelineInv /\ SentInv
  <2>1. /\ sent = {}
        /\ \A i \in Issues : job[i] = "none" /\ fresh[i] = FALSE /\ validated[i] = {}
    BY DEF Init
  <2>2. PipelineInv
    <3> SUFFICES ASSUME NEW i \in Issues
                 PROVE  JobFits(i)
      BY DEF PipelineInv
    <3>1. job[i] = "none" /\ ~fresh[i] /\ validated[i] = {}
      BY <2>1
    <3>. QED
      BY <3>1 DEF JobFits
  <2>. QED
    BY <2>1, <2>2 DEF SentInv, MergedWasGated
<1>4. ClosingInv /\ RedInv /\ LedgerInv
  <2>1. /\ Issues \ open = {} /\ todo = {} /\ closed = {} /\ ledger = {} /\ handed = {}
        /\ broke = FALSE
    BY DEF Init
  <2>2. ClosingInv
    BY <2>1 DEF ClosingInv, ClosedMeansLanded
  <2>. QED
    BY <2>1, <2>2 DEF RedInv, LedgerInv, Forgettable, Handed
<1>. QED
  BY <1>1, <1>2, <1>3, <1>4 DEF IInv

\* Every step keeps the invariant.
LEMMA StaysIn == IInv /\ [Next]_vars => IInv'
<1> SUFFICES ASSUME IInv, [Next]_vars
             PROVE  IInv'
  OBVIOUS
<1>1. CASE Launch
  BY <1>1, LaunchingKeepsIt
<1>2. CASE Process
  <2>1. CASE Check
    BY <2>1, CheckingKeepsIt
  <2>2. CASE Plan
    BY <2>2, PlanningKeepsIt
  <2>3. CASE Select
    BY <2>3, SelectingKeepsIt
  <2>4. CASE Merge
    BY <2>4, MergingKeepsIt
  <2>5. CASE DirtScan
    BY <2>5, ScanningKeepsIt
  <2>6. CASE Gate
    BY <2>6, GatingKeepsIt
  <2>7. CASE Heal
    BY <2>7, HealingKeepsIt
  <2>8. CASE PersistClosed
    BY <2>8, PersistingKeepsIt
  <2>. QED
    BY <1>2, <2>1, <2>2, <2>3, <2>4, <2>5, <2>6, <2>7, <2>8 DEF Process
<1>3. CASE Crash
  BY <1>3, CrashingKeepsIt
<1>4. CASE ManualMerge
  BY <1>4, HelpingKeepsIt
<1>5. ASSUME NEW i \in Issues, Pipeline(i)
      PROVE  IInv'
  <2>1. CASE StartPipeline(i)
    BY <2>1, StartingKeepsIt
  <2>2. CASE AgentCommits(i)
    BY <2>2, CommittingKeepsIt
  <2>3. CASE Rerun(i)
    BY <2>3, RerunningKeepsIt
  <2>4. CASE ImplementerEnds(i)
    BY <2>4, ImplementingKeepsIt
  <2>5. CASE ReviewerEnds(i)
    BY <2>5, ReviewingKeepsIt
  <2>6. CASE Guard(i)
    BY <2>6, GuardingKeepsIt
  <2>. QED
    BY <1>5, <2>1, <2>2, <2>3, <2>4, <2>5, <2>6 DEF Pipeline
<1>6. ASSUME NEW i \in Issues, CloseIssue(i)
      PROVE  IInv'
  BY <1>6, ClosingKeepsIt
<1>7. CASE UNCHANGED vars
  <2>1. /\ UNCHANGED open /\ UNCHANGED branch /\ UNCHANGED head /\ UNCHANGED headOk
        /\ UNCHANGED kept /\ UNCHANGED made /\ UNCHANGED ledger /\ UNCHANGED at
        /\ UNCHANGED iteration /\ UNCHANGED job /\ UNCHANGED fresh /\ UNCHANGED reported
        /\ UNCHANGED validated /\ UNCHANGED sent /\ UNCHANGED todo /\ UNCHANGED closed
        /\ UNCHANGED after /\ UNCHANGED attempt /\ UNCHANGED broke /\ UNCHANGED gated
        /\ UNCHANGED capped /\ UNCHANGED handed /\ UNCHANGED excused /\ UNCHANGED crashes
    BY <1>7 DEF vars, repo, pipeline, closing, healing, history
  <2>2. TypeOK'
    BY <2>1 DEF IInv, TypeOK
  <2>3. CommitInv' /\ NothingDestroyed' /\ PipelineInv' /\ SentInv'
    BY <2>1, CommitsRest, NothingLost, PipelinesRest, SentRests DEF IInv
  <2>4. ClosingInv' /\ RedInv'
    BY <2>1, ClosingRests DEF IInv, ClosingInv, RedInv
  <2>5. LedgerInv'
    BY <2>1 DEF IInv, LedgerInv, Forgettable, Handed
  <2>. QED
    BY <2>2, <2>3, <2>4, <2>5 DEF IInv
<1>. QED
  BY <1>1, <1>2, <1>3, <1>4, <1>5, <1>6, <1>7 DEF Next

\* The invariant holds of every run of the orchestrator.
LEMMA AlwaysIn == Spec => []IInv
BY StartsIn, StaysIn, PTL DEF Spec

\* Of an issue that is closed some tip was given to a merger and is in HEAD
\* (issue-pipeline.mts:160-171): "the merger returned" closes nothing, whatever the
\* merger landed, whichever process asked for the close.
THEOREM ClosedMeansLandedHolds == Spec => []ClosedMeansLanded
<1>1. IInv => ClosedMeansLanded
  BY DEF IInv, ClosingInv
<1>. QED
  BY <1>1, AlwaysIn, PTL

\* The tip the merger is given passed the gates of a completed run, or its run was cut at the
\* iteration cap (issue-pipeline.mts:104-113, branch-guard.mts:3-11): a reviewer that
\* crashed on the branch leaves the validated tip or a rejected issue.
THEOREM MergedWasGatedHolds == Spec => []MergedWasGated
<1>1. IInv => MergedWasGated
  BY DEF IInv, SentInv
<1>. QED
  BY <1>1, AlwaysIn, PTL

\* Every commit an agent made stays on a branch, in HEAD or on a kept ref
\* (branch-guard.mts:93-95), through rewinds, failed merges and crashes.
THEOREM NothingDestroyedHolds == Spec => []NothingDestroyed
<1>1. IInv => NothingDestroyed
  BY DEF IInv
<1>. QED
  BY <1>1, AlwaysIn, PTL

\* A planning round runs on no HEAD this process broke, and queues no issue whose branch
\* was handed over and landed unless gh or git failed to answer about it
\* (main.mts:555-557, 912-914): the close ledger carries that over every crash.
THEOREM RoundSafeHolds == Spec => []RoundSafe
<1>1. IInv => NoDuplicateRound
  <2> SUFFICES ASSUME IInv, NEW i \in Issues, job[i] = "queued",
                      [id |-> i, tip |-> branch[i]] \in handed, branch[i] \subseteq head,
                      i \notin excused
               PROVE  FALSE
    BY DEF NoDuplicateRound
  <2>1. at = "executing" /\ i \in open
    BY DEF IInv, PipelineInv, JobFits
  <2>2. Forgettable(i)
    BY <2>1 DEF Forgettable, Handed, Entry
  <2>. QED
    BY <2>1, <2>2 DEF IInv, LedgerInv
<1>2. IInv => PlansOnGreenHead
  BY DEF IInv, RedInv, PlansOnGreenHead
<1>3. IInv => RoundSafe
  BY <1>1, <1>2 DEF IInv, RoundSafe
<1>. QED
  BY <1>3, AlwaysIn, PTL
=============================================================================
