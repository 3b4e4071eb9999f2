------------------------- MODULE TenantProvisioning -------------------------
(***************************************************************************)
(* The provisioning of one tenant (Modules/Multitenancy): the request that *)
(* creates it, operators who retry, deactivate and activate it, and the    *)
(* background job that runs the steps of a provisioning, on any instance,  *)
(* under Hangfire, which runs it again when it throws or its worker dies.  *)
(*                                                                         *)
(* The password of the tenant's administrator travels in the memory of the *)
(* instance that took the request, and the seed takes it out.  Each        *)
(* instance runs one job at a time here.                                   *)
(***************************************************************************)
EXTENDS Naturals, Sequences, FiniteSets

CONSTANTS
    Hosts,              \* instances, each with a worker
    Operators,          \* requests in flight at once
    Steps,              \* TenantProvisioningStepName, in the order of the job
    MaxCommands,        \* requests in all
    JobAttempts,        \* runs Hangfire gives a job that throws
    MaxMishaps,         \* crashes, failed saves and seeds, jobs fetched twice
    DefaultPassword     \* Seed:DefaultAdminPassword is configured

ASSUME ProvisioningAssumption ==
    /\ MaxCommands \in Nat /\ JobAttempts \in Nat \ {0} /\ MaxMishaps \in Nat
    /\ DefaultPassword \in BOOLEAN
    /\ Steps \in Seq({"Database", "Migrations", "Seeding", "CacheWarm"})
    /\ \E s \in DOMAIN Steps : Steps[s] = "Seeding"

VARIABLES
    tenant,     \* "none", "active" or "inactive": its row in the catalog
    admin,      \* the password its administrator was seeded with: "none", "asked", "default"
    buffered,   \* the instances whose memory holds the password asked for
    provs,      \* its provisionings, oldest first: [status, steps]
    job,        \* per provisioning: its job's state, and the runs that threw
    command,    \* per operator: its request, between two awaits; a creation has its host
    run,        \* per host: the job it runs, and the row its DbContext tracks
    commands,   \* requests so far
    mishaps     \* observation: [all, twice : a job was fetched while it ran,
                \*               unmarked : a run that failed could not say so,
                \*               relapsed : a run threw at a step an earlier one completed]

provVars == <<tenant, admin, buffered, provs, job, command, run, commands, mishaps>>

Step == DOMAIN Steps
IsSeeding(s) == Steps[s] = "Seeding"
Statuses == {"Pending", "Running", "Completed", "Failed"}

Nowhere == "nowhere"
Idle == [at |-> "idle", host |-> Nowhere, prov |-> 0, seen |-> "nothing"]
NoRun == [at |-> "idle", of |-> 0, step |-> 1, row |-> <<>>, password |-> "none"]

Latest == provs[Len(provs)]

ProvInit ==
    /\ tenant = "none" /\ admin = "none" /\ buffered = {} /\ provs = <<>> /\ job = <<>>
    /\ command = [o \in Operators |-> Idle]
    /\ run = [h \in Hosts |-> NoRun]
    /\ commands = 0 /\ mishaps = [all |-> 0, twice |-> FALSE, unmarked |-> FALSE,
                                  relapsed |-> FALSE]

Mishap(twice, unmarked, relapsed) ==
    /\ mishaps.all < MaxMishaps
    /\ mishaps' = [all |-> mishaps.all + 1,
                   twice |-> mishaps.twice \/ twice,
                   unmarked |-> mishaps.unmarked \/ unmarked,
                   relapsed |-> mishaps.relapsed \/ relapsed]

(***************************************************************************)
(* Requests.                                                               *)
(***************************************************************************)
Comes(o, place, h) ==
    /\ command[o].at = "idle" /\ commands < MaxCommands
    /\ o = CHOOSE q \in Operators : command[q].at = "idle"
    /\ commands' = commands + 1
    /\ command' = [command EXCEPT ![o] = [Idle EXCEPT !.at = place, !.host = h]]

RequestGoes(o, place) == command' = [command EXCEPT ![o].at = place]
Ends(o) == command' = [command EXCEPT ![o] = Idle]

\* CreateAsync: the tenant is active from the start.
Creates(o, h) ==
    /\ tenant = "none" /\ tenant' = "active"
    /\ Comes(o, "store", h)
    /\ UNCHANGED <<admin, buffered, provs, job, run, mishaps>>

BuffersPassword(o) ==
    /\ command[o].at = "store" /\ RequestGoes(o, "start")
    /\ buffered' = buffered \cup {command[o].host}
    /\ UNCHANGED <<tenant, admin, provs, job, run, commands, mishaps>>

Retries(o) ==
    /\ tenant # "none" /\ Comes(o, "start", Nowhere)
    /\ UNCHANGED <<tenant, admin, buffered, provs, job, run, mishaps>>

RunningAlready == provs # <<>> /\ Latest.status \in {"Running", "Pending"}

\* StartAsync reads the latest provisioning; the row is inserted after an await.
Checks(o) ==
    /\ command[o].at = "start"
    /\ IF RunningAlready THEN Ends(o) ELSE RequestGoes(o, "insert")
    /\ UNCHANGED <<tenant, admin, buffered, provs, job, run, commands, mishaps>>

Inserts(o) ==
    /\ command[o].at = "insert"
    /\ provs' = Append(provs, [status |-> "Pending", steps |-> [s \in Step |-> "Pending"]])
    /\ job' = Append(job, [state |-> "none", runs |-> 0])
    /\ command' = [command EXCEPT ![o] = [@ EXCEPT !.at = "enqueue", !.prov = Len(provs')]]
    /\ UNCHANGED <<tenant, admin, buffered, run, commands, mishaps>>

Enqueues(o) ==
    /\ command[o].at = "enqueue" /\ Ends(o)
    /\ job' = [job EXCEPT ![command[o].prov].state = "queued"]
    /\ UNCHANGED <<tenant, admin, buffered, provs, run, commands, mishaps>>

Deactivates(o) ==
    /\ tenant = "active" /\ Comes(o, "deactivate", Nowhere)
    /\ UNCHANGED <<tenant, admin, buffered, provs, job, run, mishaps>>

SavesInactive(o) ==
    /\ command[o].at = "deactivate" /\ Ends(o)
    /\ tenant' = "inactive"
    /\ UNCHANGED <<admin, buffered, provs, job, run, commands, mishaps>>

Activates(o) ==
    /\ tenant = "inactive" /\ Comes(o, "ensure", Nowhere)
    /\ UNCHANGED <<tenant, admin, buffered, provs, job, run, mishaps>>

\* A tenant without any provisioning may be activated.
MayActivate == provs = <<>> \/ Latest.status = "Completed"

EnsuresCanActivate(o) ==
    /\ command[o].at = "ensure"
    /\ IF MayActivate
       THEN command' = [command EXCEPT ![o] = [@ EXCEPT
                !.at = "activate", !.seen = IF provs = <<>> THEN "never" ELSE "completed"]]
       ELSE Ends(o)
    /\ UNCHANGED <<tenant, admin, buffered, provs, job, run, commands, mishaps>>

SavesActive(o) ==
    /\ command[o].at = "activate" /\ Ends(o)
    /\ tenant' = "active"
    /\ UNCHANGED <<admin, buffered, provs, job, run, commands, mishaps>>

(***************************************************************************)
(* The job.  Its DbContext tracks the row it loaded, so that it never sees *)
(* what another run writes, and a save writes the columns that changed.    *)
(***************************************************************************)
RunAt(h, place) == run[h].at = place
RunGoes(h, place) == run' = [run EXCEPT ![h].at = place]

Fetches(h, p) ==
    /\ RunAt(h, "idle") /\ job[p].state = "queued"
    /\ job' = [job EXCEPT ![p].state = "fetched"]
    /\ run' = [run EXCEPT ![h] = [NoRun EXCEPT !.at = "step", !.of = p, !.row = provs[p]]]
    /\ UNCHANGED <<tenant, admin, buffered, provs, command, commands, mishaps>>

\* A run that outlives the queue's invisibility timeout is fetched by another worker too.
FetchesAgain(h, p) ==
    /\ RunAt(h, "idle") /\ job[p].state = "fetched"
    /\ Mishap(TRUE, FALSE, FALSE)
    /\ run' = [run EXCEPT ![h] = [NoRun EXCEPT !.at = "step", !.of = p, !.row = provs[p]]]
    /\ UNCHANGED <<tenant, admin, buffered, provs, job, command, commands>>

\* What the database holds once the changes between two tracked rows are saved.
Merged(old, new, stored) ==
    [status |-> IF new.status # old.status THEN new.status ELSE stored.status,
     steps |-> [s \in Step |->
         IF new.steps[s] # old.steps[s] THEN new.steps[s] ELSE stored.steps[s]]]

SavesRow(h, new, place, step) ==
    /\ provs' = [provs EXCEPT ![run[h].of] = Merged(run[h].row, new, @)]
    /\ run' = [run EXCEPT ![h].row = new, ![h].at = place, ![h].step = step]

Stepping(h, status) == [status |-> "Running", steps |-> [run[h].row.steps EXCEPT ![run[h].step] = status]]
Next1(s) == IF s < Len(Steps) THEN s + 1 ELSE s
AfterStep(s) == IF s < Len(Steps) THEN "step" ELSE "finish"

\* Mutant: a step that was begun is not done again.
AlreadyDone_Begun(h) == run[h].row.steps[run[h].step] \in {"Completed", "Running", "Failed"}

AlreadyDone(h) == run[h].row.steps[run[h].step] = "Completed"

\* MarkRunningAsync: a step completed in an earlier run is skipped.
MarksRunning(h) ==
    /\ RunAt(h, "step")
    /\ IF AlreadyDone(h)
       THEN /\ run' = [run EXCEPT ![h].step = Next1(@), ![h].at = AfterStep(run[h].step)]
            /\ UNCHANGED provs
       ELSE SavesRow(h, Stepping(h, "Running"),
                     IF IsSeeding(run[h].step) THEN "seed" ELSE "done", run[h].step)
    /\ UNCHANGED <<tenant, admin, buffered, job, command, commands, mishaps>>

\* SeedAdminUserAsync, where there is no administrator yet: the password is taken out of the
\* buffer, or the configured one serves, or the seed throws.
FindsPassword(h) ==
    /\ RunAt(h, "seed")
    /\ run' = [run EXCEPT
           ![h].at = IF admin # "none" THEN "done"
                     ELSE IF h \in buffered \/ DefaultPassword THEN "create" ELSE "fail",
           ![h].password = IF h \in buffered THEN "asked" ELSE "default"]
    /\ buffered' = IF admin = "none" THEN buffered \ {h} ELSE buffered
    /\ UNCHANGED <<tenant, admin, provs, job, command, commands, mishaps>>

\* The user name is unique: of two seeds at once one fails.
CreatesAdmin(h) ==
    /\ RunAt(h, "create")
    /\ IF admin = "none"
       THEN admin' = run[h].password /\ RunGoes(h, "done")
       ELSE UNCHANGED admin /\ RunGoes(h, "fail")
    /\ UNCHANGED <<tenant, buffered, provs, job, command, commands, mishaps>>

MarksStepCompleted(h) ==
    /\ RunAt(h, "done")
    /\ SavesRow(h, Stepping(h, "Completed"), AfterStep(run[h].step), Next1(run[h].step))
    /\ UNCHANGED <<tenant, admin, buffered, job, command, commands, mishaps>>

\* MarkCompletedAsync; the job has succeeded.
MarksCompleted(h) ==
    /\ RunAt(h, "finish")
    /\ provs' = [provs EXCEPT ![run[h].of] =
                    Merged(run[h].row, [run[h].row EXCEPT !.status = "Completed"], @)]
    /\ job' = [job EXCEPT ![run[h].of].state = "succeeded"]
    /\ run' = [run EXCEPT ![h] = NoRun]
    /\ UNCHANGED <<tenant, admin, buffered, command, commands, mishaps>>

\* A migration, a seed, a save or the creation of the administrator throws.
StepThrows(h) ==
    /\ run[h].at \in {"step", "seed", "create", "done", "finish"}
    /\ Mishap(FALSE, FALSE, RunAt(h, "step") /\ AlreadyDone(h))
    /\ RunGoes(h, "fail")
    /\ UNCHANGED <<tenant, admin, buffered, provs, job, command, commands>>

\* Hangfire: a job that threw is run again until its attempts are used up.
Rethrows(h) ==
    /\ run' = [run EXCEPT ![h] = NoRun]
    /\ job' = [job EXCEPT ![run[h].of] =
           IF @.state = "succeeded" THEN @
           ELSE [state |-> IF @.runs + 1 < JobAttempts THEN "queued" ELSE "failed",
                 runs |-> IF @.runs < JobAttempts THEN @.runs + 1 ELSE @.runs]]

Failing(h) == [status |-> "Failed", steps |-> [run[h].row.steps EXCEPT ![run[h].step] = "Failed"]]

MarksFailed(h) ==
    /\ RunAt(h, "fail")
    /\ provs' = [provs EXCEPT ![run[h].of] = Merged(run[h].row, Failing(h), @)]
    /\ Rethrows(h)
    /\ UNCHANGED <<tenant, admin, buffered, command, commands, mishaps>>

MarkFailedThrows(h) ==
    /\ RunAt(h, "fail") /\ Mishap(FALSE, TRUE, FALSE)
    /\ Rethrows(h)
    /\ UNCHANGED <<tenant, admin, buffered, provs, command, commands>>

\* The process that serves a request dies between two of its awaits.
RequestDies(o) ==
    /\ command[o].at # "idle" /\ command[o].host = Nowhere
    /\ Mishap(FALSE, FALSE, FALSE) /\ Ends(o)
    /\ UNCHANGED <<tenant, admin, buffered, provs, job, run, commands>>

\* An instance dies: the creation it serves, its run and its memory; the job is fetched again.
HostCrashes(h) ==
    /\ Mishap(FALSE, FALSE, FALSE)
    /\ command' = [o \in Operators |-> IF command[o].host = h THEN Idle ELSE command[o]]
    /\ buffered' = buffered \ {h}
    /\ run' = [run EXCEPT ![h] = NoRun]
    /\ job' = IF RunAt(h, "idle") THEN job
              ELSE [job EXCEPT ![run[h].of].state = IF @ = "fetched" THEN "queued" ELSE @]
    /\ UNCHANGED <<tenant, admin, provs, commands>>

-----------------------------------------------------------------------------
RequestStep(o) ==
    \/ BuffersPassword(o) \/ Checks(o) \/ Inserts(o) \/ Enqueues(o)
    \/ SavesInactive(o) \/ EnsuresCanActivate(o) \/ SavesActive(o)

JobStep(h) ==
    \/ \E p \in DOMAIN job : Fetches(h, p)
    \/ MarksRunning(h) \/ FindsPassword(h) \/ CreatesAdmin(h) \/ MarksStepCompleted(h)
    \/ MarksCompleted(h) \/ MarksFailed(h)

ProvNext ==
    \/ \E o \in Operators, h \in Hosts : Creates(o, h)
    \/ \E o \in Operators :
         Retries(o) \/ Deactivates(o) \/ Activates(o) \/ RequestStep(o) \/ RequestDies(o)
    \/ \E h \in Hosts : JobStep(h) \/ StepThrows(h) \/ MarkFailedThrows(h) \/ HostCrashes(h)
    \/ \E h \in Hosts, p \in DOMAIN job : FetchesAgain(h, p)

\* Awaits return, and every worker fetches what is queued; no instance has to crash.
ProvFairness ==
    /\ \A o \in Operators : WF_provVars(RequestStep(o))
    /\ \A h \in Hosts : WF_provVars(JobStep(h))

ProvSpec == ProvInit /\ [][ProvNext]_provVars /\ ProvFairness

(***************************************************************************)
(* Properties.                                                             *)
(***************************************************************************)
Row == [status : Statuses, steps : [Step -> Statuses]]

ProvTypeOK ==
    /\ tenant \in {"none", "active", "inactive"} /\ admin \in {"none", "asked", "default"}
    /\ buffered \subseteq Hosts
    /\ DOMAIN job = DOMAIN provs
    /\ \A p \in DOMAIN provs :
         /\ provs[p] \in Row
         /\ job[p].state \in {"none", "queued", "fetched", "succeeded", "failed"}
         /\ job[p].runs \in 0..JobAttempts
    /\ \A h \in Hosts : run[h].at # "idle" => run[h].of \in DOMAIN provs /\ run[h].row \in Row

\* A provisioning that says Completed left a tenant someone can sign in to, whichever runs of
\* whichever provisionings failed, crashed or met (IdentityDbInitializer.cs:216-217).
CompletedMeansSeeded ==
    \A p \in DOMAIN provs : provs[p].status = "Completed" => admin # "none"

\* The steps tell how far a provisioning came: some are completed, the next is the one that
\* runs or failed, the rest never began (TenantProvisioningFailureTests.cs:76-83), unless a run
\* was fetched twice or threw where it only had to find a completed step.
StepsTell ==
    \A p \in DOMAIN provs : ~mishaps.twice /\ ~mishaps.relapsed =>
        LET steps == provs[p].steps
            reached == {s \in Step : steps[s] = "Completed"}
        IN  /\ \A s \in Step : steps[s] # "Pending" => 1..(s - 1) \subseteq reached
            /\ provs[p].status = "Completed" => reached = Step
            /\ provs[p].status = "Failed" => \E s \in Step : steps[s] = "Failed"

\* While a provisioning is not settled, a request or a job is on its way to settle it, unless
\* something broke: StartAsync refuses every retry until then.
NobodyForgetsIt ==
    \A p \in DOMAIN provs :
        provs[p].status \in {"Pending", "Running"} =>
            \/ \E o \in Operators : command[o].prov = p
            \/ job[p].state \in {"queued", "fetched"}
            \/ mishaps.all > 0

\* A tenant that was deactivated comes back only with an administrator, once it has had a
\* provisioning, whatever retries run meanwhile (TenantProvisioningFailureTests.cs:123-160).
ReactivatedIsSeeded ==
    \A o \in Operators :
        command[o].at = "activate" /\ command[o].seen = "completed" => admin # "none"

\* What the status of a provisioning tells its operator.
ProvisioningTells ==
    /\ ProvTypeOK /\ CompletedMeansSeeded /\ StepsTell /\ NobodyForgetsIt
    /\ ReactivatedIsSeeded

\* A provisioning that was queued is settled in the end - completed or failed, so that it can
\* be retried - if no run's last save failed and no run was fetched twice, crashes or not.
QueuedIsSettled ==
    <>[](\A p \in DOMAIN provs : job[p].state # "none" =>
            \/ provs[p].status \in {"Completed", "Failed"} /\ job[p].state \in {"succeeded", "failed"}
            \/ mishaps.unmarked \/ mishaps.twice)
=============================================================================
