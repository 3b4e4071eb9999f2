# Verification of dotnet-saas-boilerplate

TLA+ specifications of the parts of this repository whose correctness depends on the order in
which things happen: on the server the eventing block, the life of an uploaded file, the sessions
of a user, the replay of requests that carry an idempotency key, the provisioning of tenants and the
audit pipeline; in the two clients (`clients/console`, `clients/dashboard`) the session a browser
holds and every page that writes; and the development pipeline in `.sandcastle`. TLC checks them
on small instances; TLAPS proves the invariants that matter most for every value of the constants.

Paths are relative to the repository root; C# paths omit its `src/` solution directory, client
paths the `clients/<app>/src/` of both applications, which are largely copies of each other.

## 1. Inventory

The server is a modular monolith on .NET 10: building blocks, modules and hosts. Several instances
of the API may run against one PostgreSQL database; recurring work runs in Hangfire. The clients are
React applications over TanStack Query.

| Component | State | Operations | What is hard | Correct when |
|---|---|---|---|---|
| Outbox (`BuildingBlocks/Eventing/Outbox`) | `OutboxMessages` rows: retries, dead flag, processed time, next retry, claim lease | add, claim a batch, publish, mark processed, mark failed, redrive, purge | several dispatchers, leases that run out, crashes between publish and mark, whole-row writes from stale copies | no event lost; one publisher at a time while leases hold; dead only when exhausted; processed stays processed; every message settles |
| Event bus and inbox (`InMemory`, `Inbox`) | `InboxMessages` rows per event and handler | publish, skip what is recorded, run a handler, record it, purge | redelivery after partial failure, a handler that ran but was not recorded, retention | redelivery is harmless; every handler has run when the event is processed |
| File lifecycle (`Modules/Files`) | `FileAssets` row, object in storage, upload URL, outbox events | request upload, finalize, delete, restore, share, two purge jobs | unguarded read-await-save handlers that overlap, two stores without a common transaction, clients that never come back | events are true; no object or row left behind; nothing purged that is alive |
| Sessions (`Modules/Identity/Services/SessionService.cs`) | `UserSessions` rows: token hash, previous hash, stamp, revoked, expiry; the user's stamp and status | sign-in, rotate, replay detection, logout, revoke, password change, deactivate, clean up | concurrent rotations, revocation against rotation, a stamp read before it is used | one winner per token; revocation final; a reported revocation is real |
| Session liveness (`SessionLiveness.cs`) | a memory cache per instance | look up, store, mark revoked, evict | answers in flight, no invalidation between instances | bounded staleness in both directions; no readmission where revoked |
| HTTP idempotency (`BuildingBlocks/Web/Idempotency`) | cached responses, per-key in-process locks | probe, lock, re-probe, run, store, flush | duplicates in flight, client aborts, lock timeouts, reference counting | one execution per key and process unless excused; a committed one is replayable; no lock entry or permit leaked |
| Tenant provisioning (`Modules/Multitenancy/Provisioning`) | provisioning and step rows, the tenant's active flag, a password buffered in one process | start, retry, run the steps, mark running / completed / failed, activate, deactivate | check-then-insert, crash between save and enqueue, job retries against operator retries | completed means seeded; the steps tell how far it came; a deactivated tenant comes back seeded; what is queued ends |
| Audit pipeline (`Modules/Auditing/Core`) | two bounded channels, a worker's batch, the dead-letter file | publish, drain, flush, retry, dead-letter, stop | full lanes, a batch that failed half-way, batches in memory at shutdown | no security event dropped while the process lives; the trail is in order; dead letters are due to failures |
| Client session (`lib/api-client.ts`, `auth/*`) | tokens and acting session in storage, one refresh in flight, the query cache | sign in and out, call with refresh and retry, act as, hydrate permissions, follow other tabs | bursts of 401s, late answers, several tabs | no request under a borrowed credential; no cached answer shown to another identity; nobody waits for nothing |
| Client pages over the query cache (`pages/**`) | queries, forms, dialogs, mutations in flight | open, fetch, submit, invalidate, reseed, upload | refetches that meet saves and staged edits | own writes show; edits are kept; one request per button |
| Inactivity guard (`auth/use-inactivity-timeout.ts`) | a stamp shared by the tabs, a timer each | signal, tick, warn, stay, expire | late timers, sleep, stale stamps | grace after mount; a warning before the end; an abandoned session ends |
| Role editor (`pages/identity/role-detail.tsx`) | the staged permission set | toggle, group, preset, save, reset | refetches under staged edits, unlisted permissions | unlisted permissions are kept; clean means saved |
| Audit trail page (`pages/audits.tsx`) | filters, debounced search, page, drawer | filter, search, turn, follow links | rows of the old filters while the new load | rows answer the filters; the pager tells where they are |
| Theme (`components/theme`) | mode, accent, view transitions | switch, pick, apply, OS change, reload | commits that come later than the next choice | the last choice is what shows |
| Pipeline: usage wait (`.sandcastle/usage-limit.mts`) | budget, probes, accounts | fail, probe, wait, switch account | phases that share one wait | one probe per account and model; the whole budget is waited; every call settles |
| Pipeline: gate (`post-merge-gate.mts`, `gate-heal.mts`) | a child process group, its verdict | start, exit, time out, escalate, reap, heal | exit, timeout, Ctrl+C and reaping in any order | verdicts stand; red is delivered, an outage of docker is not blamed on the code; green is whole; a warning about survivors is lost only where the code drops it |
| Pipeline: rounds (`main.mts`, `issue-pipeline.mts`, `branch-guard.mts`, `close-ledger.mts`) | branches, ledger, GitHub issues, HEAD | plan, implement, guard, merge, gate, close | the process killed between any two steps, git and GitHub that fail | closed means landed; merged was gated; no commit is lost |
| Impersonation grants, users and roles, catalog, themes, notifications, mailing, storage, caching, persistence, jobs, hosts, migrator, client shell, tooling | rows, options, I/O | CRUD, queries, framework configuration | little of their own | see `PROJECT.json`, one entry each |

How they meet: modules write integration events through the outbox; `OutboxDispatcherHostedService`
on each instance drains it into `InMemoryEventBus`, whose handlers belong to other modules and are
made idempotent by the inbox. Files finalizes an upload and announces it through the outbox.
Sign-in, refresh and every authenticated request meet in the session row; the JWT hook asks
`SessionLiveness`, and `SessionService` tells it of revocations. In the clients every page calls
through `api-client`, and a change of identity clears the query cache the pages read.

## 2. Modules

| Module | Models | How state and actions correspond to the code |
|---|---|---|
| `Outbox` | the outbox table, dispatchers, redrive, retention | `rows` is the table, `disp[d]` the loop of one hosted service with the row copies it holds. One action per database statement or awaited call: `ClaimBatchAsync` is the single `UPDATE … RETURNING`, `PublishReturns`/`PublishThrows` the awaited publish, `MarkAsProcessedAsync`/`MarkAsFailedAsync` a save that may commit, fail, or commit unheard. Redrive is a load and a later save |
| `EventBus` | `InMemoryEventBus.PublishAsync` and the inbox | `call[d]` is one publish call; it has no Next of its own |
| `Eventing` | outbox, bus and retention composed | a dispatcher's publish step becomes the steps of the bus call; one clock for both tables |
| `EventDelivery` | what `IOutboxWriter` promises: at-least-once delivery | abstract: an event is unsent, owed, settled, parked or forgotten |
| `FileLifecycle` | the Files module | `row`, `object`, `url` are the three stores; `req[r]` is a request between its awaits with the copy it read; `job[j]` a purge run |
| `SessionRotation` | `SessionService` and the handlers around it | `sess` is the table, `user` the user's stamp and status, `req[r]` a request between its awaits. The rotation is find, stamp read, one guarded UPDATE; revocation is load and save |
| `SessionLiveness` | the per-instance cache | `cache[i]`, `lookup[l]` in flight; a store under the gate is one step |
| `KeyedAsyncLock` | the per-key lock of each process | `table[i]` is the dictionary, `entry[e]` an entry object with its semaphore, `turn[r]` a request's handle; the lock statement, the wait and the semaphore's release are separate steps |
| `Idempotency` | `IdempotencyEndpointFilter` over the lock and the distributed cache | `pc[r]` is the place in `InvokeAsync`, `stored` the cache entry; `runs` and `faults` only observe |
| `TenantProvisioning` | a tenant's provisioning, its job, the seed of its administrator | one action per save or awaited call; `job` is what Hangfire holds, `buffer` the password kept in the memory of one host |
| `AuditPipeline` | publisher, lanes, worker, sink, dead-letter file | one lane per channel of `ChannelAuditPublisher`; the batch is drained, written tenant by tenant, retried or dead-lettered |
| `ClientSession` | one browser: its tabs, storage, the refresh cookie, the server's answers | `app` says which client it is: the console in one tab with an acting session, the dashboard in two tabs. An `authFetch` call is one request that goes out, may be refused, refreshed and retried |
| `ClientPages` | TanStack Query under pages that write | queries with their state, fetches, mutations, dialogs, forms. What a page has - its views, queries, tasks, what each invalidates, what its form holds - comes from the tables below |
| `PageTables`, `ConsoleIdentity`, `ConsoleAccount`, `ConsoleTenants`, `DashboardIdentity`, `DashboardAccount`, `DashboardPages` | one record per page of each client | a definition per page, translated from its `useQuery`, `useMutation` and `useEffect` calls |
| `FileUpload` | the upload dropzone beside the pages | request URL, put, finalize, cancel, reset |
| `IdleWatch`, `RoleEditor`, `AuditsPage`, `ThemeSwitch` | the parts of the clients with a state machine of their own | one action per handler, timer or effect |
| `ClientParts` | the pages, the dropzone and these four side by side | they share no state, so one moves in a behaviour and the others rest |
| `UsageWait`, `PostMergeGate` | the usage-limit wait and the gate with healing | one action per event of the event loop |
| `SandcastleRound` | rounds of the pipeline over crashes | one action per awaited call; what survives a kill is in git, the ledger and GitHub |
| `MC*` | instances for TLC; `MCSessions`, `MCSandcastle` and `MCServerWork` put two components that share no state side by side, one moving per behaviour | |
| `*_proofs` | theorems about the module of that name; `ClientParts_proofs` about the five parts of the clients, `Sessions_proofs` about both session modules, `Server_proofs` about idempotency, the audit pipeline and provisioning, `Pipeline_proofs` about the usage wait and the gate, `Eventing_proofs` about the outbox and its composition | |

Time is kept as ticks left until a deadline passes, so one `Tick` moves all deadlines and the state
space is finite without a bound on time. Operators marked *Mutant* change one definition in the way
a bug in that code would; they are used by no specification and show that each property can fail.

## 3. What the runs check

Invariants that belong together are one conjunction; its parts are named in the module.

| Run | Instance | Shows |
|---|---|---|
| `outbox_safety` | 2 dispatchers, 3 messages (1 poison), batch 2, lease 2, 2 retries, 1 fault | `OnePublisher`, `ProcessedWasPublished`, `DeadIsExhausted`, `ProcessedIsFinal`: 305 000 states |
| `eventing_delivery` | 1 event, 2 dispatchers, 2 handlers, 2 faults, leases hold | the composition implements `EventDelivery!Spec` with its liveness; `EventingSafe`: a handler runs again only after a fault or inbox retention: 23 000 states |
| `eventing_overrun` | the same with leases that run out, 1 fault | `NoEventLost`, and `EveryMessageSettles` under fairness: 506 000 states |
| `files_lifecycle` | 1 file, 2 requests at once, 3 in all, 1 fault | `LifecycleSafe` (`TypeOK`, `EventsAreTrue`, `NoLeakedObject`), `EveryUploadEnds`, `EveryFinalizeIsToldUnlessItDies`: 298 000 states |
| `files_purged` | 1 file, 1 request, both purges | expects a violation, see below |
| `sessions` | rows: 2 sessions, 2 requests at once, 3 tokens, 2 stamps; check: 2 instances, 2 lookups, cache 3, latency 2, lifetime 7 | `OneWinner`, `RevokedIsFinal`, `EndedMeansEnded`, `AtMostOneLateRotation`; `AdmissionIsBounded` (`RevocationReachesEveryone`, `RefusedWhereRevoked`, `ExpiredIsRefused`, `RefusalLapses`, with the types of the check): 436 000 states up to symmetry |
| `idempotency_duplicates` | 2 requests on one process, 1 on another, 2 faults | `LockIsSound` (`LockInUseIsLive`, `NoEntryLeaks`, `OneHolder`), `RunsOnce` (`OneRunPerProcess`, `CommittedIsReplayable`), and `EveryRequestEnds` under fairness: 95 000 states |
| `server_work` | audit: 2 tenants, lanes of 1, batch 2, 2 retries, 3 events, 2 outages; provisioning: 2 hosts, 2 operators, 2 steps, 3 commands, 2 attempts, 1 mishap | `AuditTells` (`EventsKept`, `TrailInOrder`, `DeadLettersAreDue`), `ProvisioningTells` (`CompletedMeansSeeded`, `StepsTell`, `NobodyForgetsIt`, `ReactivatedIsSeeded`), and `WorkSettles` under fairness: 394 000 states |
| `client_session` | both clients; 2 users, 2 logins, 1 grant, 1 trouble; 2 calls in flight in the console, 1 per tab in the dashboard | `IdentitiesAgree` (`NoBorrowedCredential`, `CacheIsOwn`), `NoSelfRefusal`, `NobodyWaitsForNothing`: 1 031 000 states up to symmetry |
| `clients` | every page table with 2 moves of the user and 1 trouble; 2 tabs, idle and warning 2, 6 signals; 4 edits of 5 permissions; 4 clicks in the trail; 5 switches of mode | `OwnWritesShow` (but for calls that refetch only what their page shows), `StagedEditsKept`, `PagesCatchUp`, `ControlsTell` (`OneRequestPerButton`, `BusyMeansUploading`), `EditorTells` (`UnlistedKept`, `CleanMeansSaved`), `TrailTells` (`RowsAnswerFilters`, `SearchBoxTells`, `TurnsStayInRange`), `ThemeShows` (`ThemeSettles`, `AccentShows`), `GuardKeepsItsWord` (`GraceAfterMount`, `WarningHolds`, `AbandonedSessionEnds`): 410 000 states |
| `sandcastle_parts` | 2 phases on one model and 2 accounts, wait 2; gates with and without containers, 1 heal | `PipelineTells` (`OneProbePerPair`, `StartupFailsSafe`, `WholeWait`; `VerdictStands`, `RedIsDelivered`, `GreenIsWhole`), `SurvivorsTold`, and `PipelineEnds` under fairness: 494 000 states |
| `sandcastle_round` | 2 issues, 2 iterations, 2 agents, 2 commits per issue, 1 heal, 1 crash | `RoundSafe` (`NoDuplicateRound`, `PlansOnGreenHead`), `ClosedMeansLanded`, `MergedWasGated`, `NothingDestroyed`: 1 621 000 states |

In `EventsAreTrue` a file is vetted when its content passed the checks and its scan did not condemn it.
The run takes every answer a scanner can give, `NotScanned` included, which `MarkAvailable` lets through (section 5).

`files_purged` checks a sentence the code does not keep: a purged row "never reached Available"
(`PurgeOrphanedFilesJob.cs:81`). The orphan purge deletes by id rows that were finalized after it
loaded them; the purge of deleted files treats a restored one the same way.

The comment in `SessionLiveness.cs:26` says that other instances refuse a revoked session "at most
CacheDuration after the revoke commits". `Store` counts from the end of a lookup and not from its
read, so the bound that holds, `RevocationReachesEveryone`, is longer by the duration of a lookup.

Deadlock is not checked in `files_lifecycle`, `files_purged`, `client_session`, `clients`,
`sandcastle_parts` and `server_work`: there what users, operators or the environment may do is bounded, or
the part comes to its end, and the system stops.

### Bounds and why they are enough

* Two dispatchers, requests, instances, hosts, tabs: every hazard listed is a race of two parties over
  one row, one cache or one stored value. Three messages let a batch be cut by `LIMIT` while another is open.
* `MaxFaults`, `MaxTroubles`, `MaxMishaps`, `MaxOutages`, `MaxCrashes` count crashes, saves that fail or are
  not heard of, refusals and lost answers; one is enough for each crash window, two for a crash during
  the recovery from another.
* `MaxRetries = 2` separates a first failure from the last (the audit worker makes 3); `Lease`,
  `BackoffBase`, `Retention` of one or two ticks make each deadline come before and after each step.
* `MaxRequests` in `FileLifecycle` bounds the requests of a behaviour. `EveryUploadEnds` is about users
  who stop: one who deletes and restores a file for ever keeps it, and is outside the bound.
* `MaxTokens`, `MaxStamps` bound the rotations and password changes. A third token is enough to
  present one that is neither current nor the previous one.
* `MaxRuns` is where `Eventing` stops counting runs of a handler; it exceeds what `EventingSafe` allows.
* In `Idempotency` a request slot is used again once it is over, so the number of requests is not
  bounded, only how many overlap. `OneRunPerProcess` counts until the second fault.
* In `SessionLiveness` the lifetime exceeds cache plus latency: otherwise expiry alone would make
  the staleness bounds true. `MaxLatency` is not a limit of the code but the parameter of the bound.
* In `ClientPages` two moves let a save be under way while the user opens, closes or edits something
  else; the pages are grouped in areas and an area's queries interact only with each other.
* A role editor with a listed, an unlisted, a root-only and two grouped permissions has a member of each
  kind the code tells apart; four edits reach every staged set.
* `UsageWait` counts minutes in units of one poll; `MaxWait` of two polls has a first, a middle and a last.

### Fairness

* A dispatcher's steps are weakly fair: `ExecuteAsync` loops until the process stops, and an exception
  of a batch is caught and logged. A crash is followed by a restart, as the instance is idle again.
* Time passes (`WF` of `Tick`). The publish step may throw for ever, which is why a message settles as
  processed *or* dead.
* In `FileLifecycle` a request in flight ends, the two recurring jobs run again, and deadlines pass.
  Nothing obliges a client to finalize, or an operator to redrive: those actions have no fairness.
* In `Idempotency` awaits return and handlers end; `AcquiresLock` is strongly fair, since a
  `SemaphoreSlim` serves its asynchronous waiters in turn. The timeout of a wait is not fair:
  `EveryRequestEnds` does not rely on it, so a lost permit would show.
* In `AuditPipeline` the worker's loop goes on and its interval elapses; outages are bounded.
  In `TenantProvisioning` Hangfire runs what it holds and a job's awaits return.
* In `ClientPages` requests are answered (`WF` of `Answer`): `fetch` settles in either way. In
  `IdleWatch` a timer fires as long as its tab exists. Users never have to act.
* In `UsageWait` and `PostMergeGate` timers fire and the steps of the event loop run; a child
  process is obliged to nothing but to die of SIGKILL.
* The abstract `EventDelivery` asks fairness of settling or parking only.

### Abstractions to know about

* Query keys that no task of a page invalidates or edits are left out; `staleTime` is that a mounted query may
  or may not be fetched again (`Refetch`), and garbage collection forgets an unwatched query at any time.
* The retry of a call after a refresh is one step of the call; a call is refreshed at most once, as in the code.
* Compositions of parts without shared state move one part per behaviour. What holds of a part then
  holds in every interleaving, since no part reads what another writes.
* The two applications' copies of a file are one definition, where `diff` shows them equal in what
  the model reads; where they differ, `app` or the page table tells them apart.
* The order of audit rows and of provisioning rows is the order of insertion; both code paths sort by
  a timestamp taken just before.

## 4. What is proved

Every theorem holds for every value of the constants that meets the named assumptions of its
module. Nearly all have the same shape: the property is not inductive, a strengthening of it is,
TLC checked the strengthening on the instance of section 3, and the proof has one lemma per action or
per kind of step, one that joins them, and a last step that takes the property from the invariant.

**`Eventing_proofs`**, first about the outbox by itself (`TypeCorrect`, `NothingIsDropped`, `OnePublisherHolds`, `DeadIsExhaustedHolds`,
`ProcessedIsFinalHolds`). Messages are numbers in a finite set, poison messages are messages
(`MessagesAreOrdered`), and the options are positive (`OptionsAssumption`).
`IInv == TypeOK /\ RetryInv /\ LoopInv /\ PublishedInv /\ (LeaseHolds => Exclusion)`:

* `RetryInv` keeps stored and copied retry counts within the budget, which `TypeOK` needs, as a
  mark increments the copy. `LoopInv` ties a dispatcher's position to its batch.
* `PublishedInv` adds to `ProcessedWasPublished` that a copy marked processed, or a dispatcher about
  to mark, stands for a published message. Without it a stale write could not be followed.
* `Exclusion` is the argument for leases: while they hold, a batch's publishable messages have a lease
  left (`Held`), so no claim selects them, so batches stay disjoint (`Apart`); hence a copy is as
  recent as its row and the failures counted agree with it (`WithinBudget`, `Exhausted`).

Then about the outbox with its bus and inbox (`EventingTypeHolds`, `NoEventLostHolds`, `EventingSafeHolds`,
`StepsImplementDelivery`). Each step of the composition is a step of the outbox or leaves it alone, so
`IInv` carries over. `EventingInv` adds that a call of the bus fits its dispatcher's
place (`CallsFit`), that the inbox records only handlers that ran and a processed event has run them all
(`TableInv`), and, while leases hold, that a handler ran as often as faults and retention excuse
(`OnceInv`). `StepsImplementDelivery` is the safety half of the refinement: with leases that hold, the
initial states map to initial states of `EventDelivery` and every step to one of its steps or a stutter.

**`Sessions_proofs`**, about rotation and about the liveness cache, which share no state. Rotation (`TypeHolds`,
`OneWinnerHolds`, `EndedMeansEndedHolds`, `AtMostOneLateRotationHolds`, `RevokedIsFinalHolds`):
`IInv == TypeOK /\ RequestInv /\ RowInv /\ WonInv /\ LateInv /\ EndedMeansEnded`: what a request between
its awaits holds was read from a row that has only grown since (`RequestInv`), the hashes of a row
are distinct and issued (`RowInv`), a token that won is behind the row (`WonInv`), and a request still holding the
stamp of before a password change is the only one that may swap late (`LateInv`).

The cache (`AdmissionIsBoundedHolds`, from `CheckAssumption`; `CheckInv`): the staleness bounds need the age
of an answer across its life. A lookup's answer is at most `MaxLatency` old when stored, so an entry
with *f* ticks left was read at most `CacheFor - f + MaxLatency` ago (`CacheInv`, `LookupInv`); and where
a session was marked the marker outlives every lookup that read before it (`RevokedInv`).

**`Server_proofs`**, first about idempotent requests (`LockIsSoundHolds`, `RunsOnceHolds`; from `EnoughEntries`, `FinitelyMany`,
`HomeAssumption`, `MaxFaultsAssumption`). `LockInv` says that the reference count of an entry is the
number of requests that use it, an entry in the dictionary is its key's own, and there is one permit,
either free or with one holder. Over it `PlaceInv` ties a request's place to its turn, and `RunsInv`
the count of runs to the stored response: a request runs only under the permit and after a probe that missed.

Then about the audit pipeline (`AuditTellsHolds`; from `AuditAssumption`). Events are numbers in the order of their
publication. `LineInv`: each lane, and the publishers that wait in line behind a full one, hold rising numbers of
that lane, and what waits is behind what is queued. `OrderInv`: whatever is behind a queued event of its lane is
queued too, or excused, so no event is overtaken on its way into a batch or a sink. `BatchInv`: of a batch
the database holds whole tenants, those written in this attempt or torn off by a failure, and the failures
counted are as many as the attempt says, which is why a dead letter was due.

And about provisioning (`ProvisioningTellsHolds`; from `ProvisioningAssumption`). `RowFits` and `RunFits`: a row, stored or
tracked by a run, that calls the seed or the whole completed is one whose administrator exists, and a run at a
step has completed those before. Any mixture of columns that a save leaves (`MergedFits`) keeps that, also where
two runs of one job meet. `Owned`: unless a job was fetched twice it has one run, whose tracked row is the
stored one; from it `Told` follows, that steps complete in order and a failed one is where the run had come.
`NobodyForgetsIt` is inductive beside `CommandInv`: each request that enqueues has a row of its own.

**`FileLifecycle_proofs`** (`LifecycleSafeHolds`, for every outcome of a scan; from `BoundsAssumption`).
`IInv == TypeOK /\ ToldInv /\ PurgeInv`: what an in-flight request is about to announce is true of the row
whatever the other requests save meanwhile, and a purge that removed an object still holds the row it will delete.

**`SandcastleRound_proofs`** (`ClosedMeansLandedHolds`, `MergedWasGatedHolds`, `NothingDestroyedHolds`,
`RoundSafeHolds`; from `RoundAssumption`). Nine conjuncts follow the commits of an issue from the
implementer to the close across crashes: commits exist where the pipeline believes them (`CommitInv`,
`PipelineInv`), what is sent to the gate is merged (`SentInv`), what is being closed was sent and passed (`ClosingInv`),
a red HEAD admits no planning (`RedInv`), and an entry of the ledger names a tip that landed (`LedgerInv`).

**`Pipeline_proofs`** (`PipelineTellsHolds`, `SurvivorsToldHolds`; from `UsageAssumption`, `GateAssumption`), about two parts that share no state.
The wait (`WaitInv`): a pair of account and model has one probe out exactly when its slot says so
(`ProbeInv`), and a call's remaining budget and the time since its first failure add up to the whole wait
(`CallFits`), so that a call which gives up has waited all of it. The gate (`GateInv`): who listens to Ctrl+C at each
place (`PlaceInv`), what an exit code says about HEAD given that the gates before it passed (`HeadInv`),
and that the verdict frozen when the child closes survives the reaping of its group (`TellsInv`). A red gate that needs
docker was settled by asking the daemon, which answered; that is the step on which `RedIsDelivered` rests.

What becomes of a warning about survivors is `SurvivorsInv`, for `SurvivorsToldHolds`. Every execution of a
gate has a number and numbers rise along the pipeline (`OrderInv`); an execution whose group was not confirmed empty is in
the result just settled, in what the loop collected or in what was printed (`Kept`), or it was lost
for a named reason (`Dropped`): a retry after it, or a red gate after a green one.

**`ClientSession_proofs`** (`IdentitiesAgreeHolds`, `NoSelfRefusalHolds`, `NobodyWaitsForNothingHolds`; from `SessionAssumption`).
`IInv == ValuesFit /\ TabsFit /\ ConsoleSees /\ WaitInv /\ BoundsFit /\ RefreshInv`:

* `TabsFit` carries the identity from the moment a call begins to its answer: it is sent under the one it
  captured, the operator's own for permissions and exchanges, and an answer is kept only while the tab is
  in that identity still. `IdentitiesAgree` follows call by call and entry by entry.
* `ConsoleSees`: the console's one tab knows of every change of the stored token. It is what the dashboard,
  with its tabs, does not have, and why `NoSelfRefusal` is about the console only.
* `RefreshInv`: the console has one refresh out at a time (`OneRefresh`), with the cookie that the server's row
  expects, until an answer is lost or a 401 asks beside the refresh at boot, which are not single-flight with
  each other (section 5): `strained` records either, and nothing is claimed after it.
* `WaitInv`: what a call, a tab at boot or a shared refresh waits for is in flight.

**`ClientParts_proofs`**, the parts of the clients, each for its own part of `ClientParts`:

* Trail (`TrailTellsHolds`): `TrailTells` with the fact that cached rows stand under the filters that fetched them.
* Theme (`ThemeShowsHolds`): the pending commit is of the last choice, or the last choice is already what shows.
* Role editor (`EditorTellsHolds`): the payload of a save under way holds every permission stored that is not listed.
* Inactivity guard (`GuardIsFair`): `GraceAfterMount` and `WarningHolds`, the safety half of
  `GuardKeepsItsWord`; a tab is young at its mount and warns only of a stamp that is old.
* Pages (`OwnWritesShowHolds`, `ControlsTellHolds`, `StagedEditsKeptHolds`): `PagesInv` is about the cache. A
  fetch that nothing overtook was sent after the last acknowledged write of its query, and so was what a
  query not marked stale holds (`CacheFits`); with what is on the screen, what a request under way has spent and what a
  form holds (`ScreenFits`, `SpentFits`, `RequestsFit`, `DraftFits`) this gives the three properties.

The page theorems hold for every page table that meets `TablesAssumption` and `UploadAssumption`: a call refreshes
or sets the queries it writes, or refetches what its page shows, except those the table says it leaves stale, and a form is filled from
queries its page fetches. TLC evaluates both on the real tables of the two clients in the run
`clients`. So the general argument is proved, and that each page's `onSuccess` meets its condition is checked.

### Only model-checked

Every safety property that a passing run checks is stated by a theorem. Left to TLC are:

* Everything under fairness, and ENABLED: `EveryMessageSettles`, the liveness of `ImplementsDelivery`, `EveryUploadEnds`,
  `EveryFinalizeIsToldUnlessItDies`, `EveryRequestEnds`, `WorkSettles`, `PagesCatchUp`, `PipelineEnds`,
  and `AbandonedSessionEnds` of `GuardKeepsItsWord`. The prover has no rule for them.

No module uses RECURSIVE operators; recursion is written as functions or folds.

## 5. Not modelled, and where code and text disagree

* Outbox: the read without claim for databases other than PostgreSQL, the enlistment of `AddAsync` in
  an ambient transaction (a producer's row appears in one step), counts and pages, telemetry.
* Bus: what handlers do; tenant scopes appear only as a publish that throws.
* Files: queries, download URLs, quotas and name checks of an upload request.
* Sessions: credential checks, two-factor, the content of tokens; the tenant prefix of a token.
* Idempotency: the content of entries - status, headers, body, fingerprint - and so which hit is
  replayed and which refused with 422; a handler that commits and then fails counts as failed.
* Provisioning: the inline run without job storage, and the race of the tenant cache with the row
  (`RefreshTenantCacheAsync`, `TenantProvisioningService.cs:249-260`).
* Clients: pages that write nothing, field validation, layout, the live notification feed, the
  impersonation hand-over of the dashboard; in the audit trail the summary strip and the timeline of related
  events; in the theme font, density and motion.
* Pipeline: `dry-run.mts`, model resolution, log parsing, and the opt-out
  `SANDCASTLE_SKIP_POST_MERGE_GATE=1` (`main.mts:915`).
* Impersonation grants: the marker and the lookup race as in session liveness, over a two-level cache
  (`ImpersonationGrantService.cs:111-112`).
* Everything marked `not_modelled` in `PROJECT.json`, with the reason there.

Two races are in the models and lost by the code, so no property states their opposite:

* Deactivation: a sign-in passes its active check, `UserStatusService.cs:140-145` revokes every session and
  saves, and the sign-in then creates its session. In `SessionRotation` this is `SignIn` finishing after `Deactivate`.
* Un-sharing: a soft delete writes all columns of a stale copy
  (`AuditableEntitySaveChangesInterceptor.cs:99`), so a delete that read the file while it was shared undoes
  `ChangeFileVisibilityCommandHandler.cs:51`, and a restore brings the old visibility back.

Found while modelling; the models do what the code does:

**Server.**
* `SessionService.cs:203-205` says nothing can slip through the gap between read and write; the UPDATE at 214 compares the session's
  own stamp column, so a password change after the stamp read is missed. `AtMostOneLateRotation` says how far that goes.
* `FinalizeUploadCommandHandler.cs:74` commits the finalize and 79-81 the outbox row in two transactions: a crash between
  them leaves the file available and nobody told, which the outbox is there to exclude.
* `AuditBackgroundWorker.cs:69` speaks of a final flush; the batch is cleared or the token cancelled by then, so
  `FinalFlushAsync` never has anything to flush. A write that fails after a tenant's part of the batch was saved makes
  every retry fail on primary keys, and the whole batch is dead-lettered although 135-140 promise retries.
* `FileAsset.cs:99-101` says only a scan that came back Clean may serve the file; 102-104 quarantine `Infected` and
  `ScanFailed` and let everything else through, so `NotScanned`, the default of the enum, becomes Available. The only
  registered scanner (`NoOpFileScanner`, `FilesModule.cs:55`) answers Clean, so today nothing meets it.
* `IdentityDbInitializer.cs:216-217` calls a failed seed retryable; the retry finds the password consumed (211). With a
  `DefaultAdminPassword` configured it seeds that one silently, without it no retry ever succeeds.
* A retry whose lookup of a completed step fails marks that step failed. A `MarkFailed` that fails on the last attempt
  leaves `Running` for ever, and a crash between save and enqueue `Pending` for ever: `StartAsync` refuses both.

**Client session.**
* The console's logout comment says the server "revokes the session row" (`auth-context.tsx:291-292`). The call goes
  out without a bearer token and with a null refresh token (`auth/api.ts:36-45`), and the cookie's Path keeps it off the
  route (`EndSessionEndpoint.cs:47-48`): it is answered 204, clears the cookie and revokes nothing.
* `query-client.ts:28-39` says every path that ends a session calls `endSessionLocally`. A sign-out in another tab of the
  console does not: its listener (`auth-context.tsx:228-246`) only sets the user, and this tab's acting session and query cache
  stay. Should the other tab sign in again, this one goes on acting under the old grant until its token ends. The
  console is modelled in one tab, so nothing here checks that case.
* A refresh answered after a logout stores its token; an exchange answered after the session ended installs an acting
  session; `actingStore.drop` drops the current acting session for a 401 of an earlier one.
* The refresh at boot is not single-flight with that of a 401, nor are two tabs with each other. Another tab's sign-in leaves the
  old query cache, and a late answer to a logout clears the cookie of the next sign-in.

**Client pages.**
* A profile saved after a background refetch sends the new etag with the old fields (`identity.ts:314-319`, `profile.tsx:79-80`);
  an avatar upload followed by Save is refused with 412 by itself.
* "never clobbers" (`branding.tsx:45-49`, `55-57`) is not so for edits typed while a save is in flight; the same holds
  for toggles of the user's page, group members and the role's form.
* A change of visibility leaves the lists stale (`my-files.tsx:176`); the preview's "re-fetch each open" keeps its initial data for 30 s.
  `metaQuery.refetch()` (dashboard `file-preview-dialog.tsx:110-111`) refetches what the dialog shows when the answer comes: once it is
  closed or shows another file, the metadata of the file that was changed keeps the old visibility while it counts as fresh.
* Cancel while an upload is prepared or finalized does not stop it, and the result of a cancelled one resets the next.
  A late success of a create navigates a user who has left; a late success of a registration closes a reopened dialog.
* Polling of a provisioning stops after a failed fetch. A `setQueryData` of the unread count is overwritten by a fetch in
  flight, and an invalidation during the first load joins that load.
* "Existing sessions remain unless revoked" on the user's page, though deactivation ends them.

**Parts.**
* After sleep, a mouse event before the tick revives a session whose time is over. A tab that never heard of a sign-out may
  expire the next session before its shell is mounted. "Sign out now" stores the reason "inactivity", which
  `inactivity.ts:56-57` keeps for expiry.
* Role editor: "All changes saved" (441) shows after a save whose refetch failed; root-only permissions that the server drops leave the form dirty.
* Audit trail: a jump leaves the search text (415-422); Next on placeholder rows can strand on an empty page; an error of
  the related events shows "No other events share…".
* Theme: an OS change between a switch and its commit leaves the wrong class until the next one; a comment names indigo as
  default, `DEFAULT_ACCENT` is rose.

**Pipeline.**
* `close-ledger.mts:11-13`: a branch that gained commits after its merge gets its issue closed on the old work
  (`main.mts:762-765`). A run at its cap resolves, so its merges are not gated again, nor is a HEAD that is red at the start.
* A warning about survivors is to be surfaced and never swallowed (`post-merge-gate.mts:215-217`, `main.mts:1006-1008`). The reaper
  retry overwrites the first attempt's (465); those of green gates (434) are left out of every failing return (472-522); and
  what is left is printed after the healing loop only, so a Ctrl+C in between, or a healer's dirty worktree
  (`main.mts:995-1003`), loses it. `SurvivorsTold` says that of the steps
  modelled nothing else does; the scan of the healer's worktree is not among them.
* The healer's dirt scan matches `sandcastle-merger-` only (`merger-dirt.mts:129`), not what `main.mts:993-995` names.

## 6. Plan

Done: the modules of section 2 and the proofs of section 4. Next, in this order:

1. `ImpersonationGrant`: grant rows and the two-level cache.
2. The tenant cache against the tenant's row.
