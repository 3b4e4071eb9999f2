---------------------------- MODULE FileLifecycle ----------------------------
(***************************************************************************)
(* The Files module: an asset row, its object in storage, the requests     *)
(* that finalize, delete, restore and share it, and the two purge jobs.    *)
(* A handler reads the row, awaits storage or the scanner, and saves; no   *)
(* row version guards the save.  EF writes the columns that changed, but a *)
(* soft delete (Remove turned into an update by the audit interceptor)     *)
(* writes every column of the copy the handler read.                       *)
(***************************************************************************)
EXTENDS Integers, FiniteSets

CONSTANTS
    Files,        \* asset ids
    Requests,     \* requests that may be in flight at once
    MaxRequests,  \* bound: requests that load a row in one behaviour
    MaxFaults     \* bound: crashed requests and jobs, failed removals

ASSUME BoundsAssumption == Files # {} /\ MaxRequests \in Nat /\ MaxFaults \in Nat

VARIABLES
    row,       \* the FileAssets table
    url,       \* each file's upload URL and the upload it started
    object,    \* what storage holds under the file's key
    req,       \* requests in flight: position, file and the copy they read
    job,       \* the two purge jobs: position, candidates, objects left to remove
    told,      \* outbox: FinalStatus of the FileFinalized events added
    started, faults,     \* counts up to MaxRequests and MaxFaults
    vetted,    \* observation: files whose bytes passed both checks and no condemning scan
    final,     \* observation: files whose finalize was saved
    unremoved  \* observation: files whose object a purge failed to remove

vars == <<row, url, object, req, job, told, started, faults, vetted, final, unremoved>>
seen == <<vetted, final, unremoved>>

Statuses == {"PendingUpload", "Available", "Quarantined"}
Columns == [status : Statuses, public : BOOLEAN]

\* ScanStatus, all of which IFileScanner may answer; the scanner registered
\* today answers Clean.
Scans == {"NotScanned", "Clean", "Infected", "ScanFailed"}
Condemning == {"Infected", "ScanFailed"}   \* found infected, or reached no verdict

Row == [at : {"none", "live", "gone"}, cols : Columns,
        deleted : BOOLEAN,
        expired : BOOLEAN]   \* DeletedOnUtc is before the retention cutoff

\* badMeta: size or content type differ; badContent: the bytes are of another type.
Objects == {"none", "good", "badMeta", "badContent"}

Positions == {"idle", "head", "prefix", "scan", "save", "tell", "remove", "drop",
              "delete", "restore", "share", "unshare"}
Jobs == {"orphans", "deleted"}

Blank == [status |-> "PendingUpload", public |-> FALSE]
NoRequest(f) == [pc |-> "idle", f |-> f, copy |-> Blank]
NoRun == [pc |-> "idle", files |-> {}, left |-> {}]

Live(f) == row[f].at = "live" /\ ~row[f].deleted   \* what the query filter lets through

Init ==
    /\ row = [f \in Files |-> [at |-> "none", cols |-> Blank, deleted |-> FALSE, expired |-> FALSE]]
    /\ url = [f \in Files |-> [valid |-> FALSE, busy |-> FALSE, overran |-> FALSE]]
    /\ object = [f \in Files |-> "none"]
    /\ req = [r \in Requests |-> NoRequest(CHOOSE f \in Files : TRUE)]
    /\ job = [j \in Jobs |-> NoRun]
    /\ told = [f \in Files |-> {}]
    /\ started = 0 /\ faults = 0
    /\ vetted = {} /\ final = {} /\ unremoved = {}

-----------------------------------------------------------------------------
(* The client's side, and the clocks. *)

\* The pending row and the presigned URL; the deadline is the URL's.
RequestUploadUrl(f, public) ==
    /\ row[f].at = "none"
    /\ row' = [row EXCEPT ![f] =
         [row[f] EXCEPT !.at = "live", !.cols = [row[f].cols EXCEPT !.public = public]]]
    /\ url' = [url EXCEPT ![f].valid = TRUE]
    /\ UNCHANGED <<object, req, job, told, started, faults, vetted, final, unremoved>>

\* The URL takes any number of uploads until it expires, and storage checks it
\* when an upload begins: the object is there when the upload has ended.
PutBegins(f) ==
    /\ url[f].valid /\ ~url[f].busy
    /\ url' = [url EXCEPT ![f].busy = TRUE]
    /\ UNCHANGED <<row, object, req, job, told, started, faults, seen>>

PutEnds(f, bytes) ==
    /\ url[f].busy
    /\ object' = [object EXCEPT ![f] = bytes]
    /\ url' = [url EXCEPT ![f].busy = FALSE, ![f].overran = @ \/ ~url[f].valid]
    /\ UNCHANGED <<row, req, job, told, started, faults, seen>>

DeadlinePasses(f) ==
    /\ url[f].valid
    /\ url' = [url EXCEPT ![f].valid = FALSE]
    /\ UNCHANGED <<row, object, req, job, told, started, faults, seen>>

\* The retention of a deleted file is days, an upload URL lives for minutes.
RetentionPasses(f) ==
    /\ row[f].at = "live" /\ row[f].deleted /\ ~row[f].expired
    /\ ~url[f].valid
    /\ row' = [row EXCEPT ![f].expired = TRUE]
    /\ UNCHANGED <<url, object, req, job, told, started, faults, seen>>

-----------------------------------------------------------------------------
(* Requests. *)

\* A handler reads the row and passes its checks.
Loads(r, f, pc) ==
    /\ req[r].pc = "idle"
    /\ started < MaxRequests /\ started' = started + 1
    /\ req' = [req EXCEPT ![r] = [pc |-> pc, f |-> f, copy |-> row[f].cols]]
    /\ UNCHANGED <<row, url, object, job, told, faults, seen>>

FinalizeLoads(r, f) ==
    Live(f) /\ row[f].cols.status = "PendingUpload" /\ Loads(r, f, "head")
DeleteLoads(r, f) == Live(f) /\ Loads(r, f, "delete")
RestoreLoads(r, f) == row[f].at = "live" /\ row[f].deleted /\ Loads(r, f, "restore")
ChangeVisibilityLoads(r, f, public) ==
    /\ Live(f) /\ row[f].cols.status = "Available"
    /\ row[f].cols.public # public
    /\ Loads(r, f, IF public THEN "share" ELSE "unshare")

Goes(r, pc) == req' = [req EXCEPT ![r].pc = pc]
Ends(r) == req' = [req EXCEPT ![r] = NoRequest(@.f)]

\* HeadObjectAsync: nothing uploaded is a conflict, the wrong size or type a refusal.
FinalizeHead(r) ==
    LET bytes == object[req[r].f] IN
    /\ req[r].pc = "head"
    /\ \/ bytes = "none" /\ Ends(r)
       \/ bytes = "badMeta" /\ Goes(r, "remove")
       \/ bytes \in {"good", "badContent"} /\ Goes(r, "prefix")
    /\ UNCHANGED <<row, url, object, job, told, started, faults, seen>>

\* ReadPrefixAsync reads again: an object gone meanwhile reads as empty and is refused.
FinalizePrefix(r) ==
    /\ req[r].pc = "prefix"
    /\ Goes(r, IF object[req[r].f] \in {"none", "badContent"} THEN "remove" ELSE "scan")
    /\ UNCHANGED <<row, url, object, job, told, started, faults, seen>>

\* Mutant: a scan that reached no verdict lets the file through.
FailsOpen(scan) == IF scan = "Infected" THEN "Quarantined" ELSE "Available"

\* A denylist: NotScanned, the enum's default, makes the file Available too.
MarkAvailable(scan) == IF scan \in Condemning THEN "Quarantined" ELSE "Available"

FinalizeScan(r, scan) ==
    /\ req[r].pc = "scan"
    /\ req' = [req EXCEPT ![r].pc = "save", ![r].copy.status = MarkAvailable(scan)]
    /\ vetted' = IF scan \in Condemning THEN vetted ELSE vetted \cup {req[r].f}
    /\ UNCHANGED <<row, url, object, job, told, started, faults, final, unremoved>>

\* A save of a row that a purge has deleted throws.
Saves(r, written) ==
    LET f == req[r].f IN
    IF row[f].at = "live" THEN row' = [row EXCEPT ![f] = written]
                          ELSE UNCHANGED row

FinalizeSaves(r) ==
    LET f == req[r].f IN
    /\ req[r].pc = "save"
    /\ Saves(r, [row[f] EXCEPT !.cols.status = req[r].copy.status])
    /\ IF row[f].at = "live" THEN Goes(r, "tell") /\ final' = final \cup {f}
                             ELSE Ends(r) /\ UNCHANGED final
    /\ UNCHANGED <<url, object, job, told, started, faults, vetted, unremoved>>

\* Mutant: only what became Available is announced.
TellsIfAvailable(r) ==
    /\ req[r].pc = "tell"
    /\ told' = IF req[r].copy.status = "Available"
               THEN [told EXCEPT ![req[r].f] = @ \cup {"Available"}] ELSE told
    /\ Ends(r)
    /\ UNCHANGED <<row, url, object, job, started, faults, seen>>

\* The event is another save, in another transaction.
FinalizeTells(r) ==
    /\ req[r].pc = "tell"
    /\ told' = [told EXCEPT ![req[r].f] = @ \cup {req[r].copy.status}]
    /\ Ends(r)
    /\ UNCHANGED <<row, url, object, job, started, faults, seen>>

RefuseRemoves(r) ==
    /\ req[r].pc = "remove"
    /\ object' = [object EXCEPT ![req[r].f] = "none"]
    /\ Goes(r, "drop")
    /\ UNCHANGED <<row, url, job, told, started, faults, seen>>

\* Remove() of a soft-deletable row: every column of the copy, and IsDeleted.
SoftDeletes(r) ==
    LET f == req[r].f IN
    /\ req[r].pc \in {"drop", "delete"}
    /\ Saves(r, [row[f] EXCEPT !.cols = req[r].copy, !.deleted = TRUE, !.expired = FALSE])
    /\ Ends(r)
    /\ UNCHANGED <<url, object, job, told, started, faults, seen>>

RestoreSaves(r) ==
    LET f == req[r].f IN
    /\ req[r].pc = "restore"
    /\ Saves(r, [row[f] EXCEPT !.deleted = FALSE, !.expired = FALSE])
    /\ Ends(r)
    /\ UNCHANGED <<url, object, job, told, started, faults, seen>>

ChangeVisibilitySaves(r) ==
    LET f == req[r].f
        public == req[r].pc = "share"
    IN
    /\ req[r].pc \in {"share", "unshare"}
    /\ Saves(r, [row[f] EXCEPT !.cols.public = public])
    /\ Ends(r)
    /\ UNCHANGED <<url, object, job, told, started, faults, vetted, final, unremoved>>

\* The process stops, the caller hangs up, or an awaited call throws.
RequestDies(r) ==
    /\ req[r].pc # "idle"
    /\ faults < MaxFaults /\ faults' = faults + 1
    /\ Ends(r)
    /\ UNCHANGED <<row, url, object, job, told, started, seen>>

-----------------------------------------------------------------------------
(* The purge jobs: load, remove the objects one by one, delete the rows by id. *)

\* Mutant: only finalized files are purged once deleted.
OverdueOrFinalized(j) ==
    {f \in Files :
        \/ j = "orphans" /\ Live(f) /\ row[f].cols.status = "PendingUpload" /\ ~url[f].valid
        \/ j = "deleted" /\ row[f].at = "live" /\ row[f].expired
                          /\ row[f].cols.status = "Available"}

Candidates(j) ==
    {f \in Files :
        \/ j = "orphans" /\ Live(f) /\ row[f].cols.status = "PendingUpload" /\ ~url[f].valid
        \/ j = "deleted" /\ row[f].at = "live" /\ row[f].deleted /\ row[f].expired}

PurgeLoads(j) ==
    /\ job[j].pc = "idle"
    /\ Candidates(j) # {}
    /\ job' = [job EXCEPT ![j] = [pc |-> "removing", files |-> Candidates(j),
                                  left |-> Candidates(j)]]
    /\ UNCHANGED <<row, url, object, req, told, started, faults, seen>>

\* A removal that throws is logged, and the job goes on.
PurgeRemoves(j, f) ==
    /\ job[j].pc = "removing" /\ f \in job[j].left
    /\ job' = [job EXCEPT ![j].left = @ \ {f}]
    /\ \/ /\ object' = [object EXCEPT ![f] = "none"]
          /\ UNCHANGED <<faults, unremoved>>
       \/ /\ faults < MaxFaults /\ faults' = faults + 1
          /\ unremoved' = unremoved \cup {f}
          /\ UNCHANGED object
    /\ UNCHANGED <<row, url, req, told, started, vetted, final>>

\* By id alone; the orphan purge keeps the soft-delete filter.
PurgeDeletes(j) ==
    /\ job[j].pc = "removing" /\ job[j].left = {}
    /\ row' = [f \in Files |-> IF f \in job[j].files /\ (j = "orphans" => ~row[f].deleted)
                               THEN [row[f] EXCEPT !.at = "gone"] ELSE row[f]]
    /\ job' = [job EXCEPT ![j] = NoRun]
    /\ UNCHANGED <<url, object, req, told, started, faults, seen>>

PurgeDies(j) ==
    /\ job[j].pc # "idle"
    /\ faults < MaxFaults /\ faults' = faults + 1
    /\ job' = [job EXCEPT ![j] = NoRun]
    /\ UNCHANGED <<row, url, object, req, told, started, seen>>

-----------------------------------------------------------------------------

RequestStep(r) ==
    \/ FinalizeHead(r)
    \/ FinalizePrefix(r)
    \/ \E scan \in Scans : FinalizeScan(r, scan)
    \/ FinalizeSaves(r)
    \/ FinalizeTells(r)
    \/ RefuseRemoves(r)
    \/ SoftDeletes(r)
    \/ RestoreSaves(r)
    \/ ChangeVisibilitySaves(r)

JobStep(j) == PurgeLoads(j) \/ (\E f \in Files : PurgeRemoves(j, f)) \/ PurgeDeletes(j)

Next ==
    \/ \E f \in Files, public \in BOOLEAN : RequestUploadUrl(f, public)
    \/ \E f \in Files : PutBegins(f) \/ \E bytes \in Objects \ {"none"} : PutEnds(f, bytes)
    \/ \E f \in Files : DeadlinePasses(f) \/ RetentionPasses(f)
    \/ \E r \in Requests, f \in Files :
         \/ FinalizeLoads(r, f)
         \/ DeleteLoads(r, f)
         \/ RestoreLoads(r, f)
         \/ \E public \in BOOLEAN : ChangeVisibilityLoads(r, f, public)
    \/ \E r \in Requests : RequestStep(r) \/ RequestDies(r)
    \/ \E j \in Jobs : JobStep(j) \/ PurgeDies(j)

Spec == Init /\ [][Next]_vars

\* A request in flight ends, the recurring jobs run again and again, time passes.
Fairness ==
    /\ \A r \in Requests : WF_vars(RequestStep(r))
    /\ \A j \in Jobs : WF_vars(JobStep(j))
    /\ \A f \in Files : WF_vars(DeadlinePasses(f)) /\ WF_vars(RetentionPasses(f))

FairSpec == Spec /\ Fairness

-----------------------------------------------------------------------------
(* Properties. *)

TypeOK ==
    /\ row \in [Files -> Row]
    /\ url \in [Files -> [valid : BOOLEAN, busy : BOOLEAN, overran : BOOLEAN]]
    /\ object \in [Files -> Objects]
    /\ req \in [Requests -> [pc : Positions, f : Files, copy : Columns]]
    /\ job \in [Jobs -> [pc : {"idle", "removing"}, files : SUBSET Files, left : SUBSET Files]]
    /\ told \in [Files -> SUBSET Statuses]
    /\ started \in 0..MaxRequests /\ faults \in 0..MaxFaults
    /\ vetted \subseteq Files /\ final \subseteq Files /\ unremoved \subseteq Files

\* What consumers are told is true however finalizes, deletes and purges
\* overlap and requests die: the finalize was saved, and a file announced as
\* Available passed both content checks and a scan that neither found it
\* infected nor failed.  It need not have come back Clean, as FileAsset.cs:99-101
\* has it: MarkAvailable lets NotScanned through.
EventsAreTrue ==
    \A f \in Files : told[f] # {} =>
        f \in final /\ ("Available" \in told[f] => f \in vetted)

\* Purging leaves nothing behind: an object outlives its row only where a
\* removal failed or an upload ended after the deadline it began before.
NoLeakedObject ==
    \A f \in Files : row[f].at = "gone" /\ object[f] # "none" => f \in unremoved \/ url[f].overran

\* What is announced and what is left behind, in every interleaving.
LifecycleSafe == TypeOK /\ EventsAreTrue /\ NoLeakedObject

\* An upload nobody completes does not stay: a pending row, also one that was
\* refused, deleted or restored, is finalized or purged.
EveryUploadEnds ==
    \A f \in Files :
        row[f].at = "live" /\ row[f].cols.status = "PendingUpload"
          ~> row[f].at = "gone" \/ row[f].cols.status # "PendingUpload"

\* A finalized file is announced, unless a request dies: the event is a transaction of
\* its own (FinalizeUploadCommandHandler.cs:74-81).
EveryFinalizeIsToldUnlessItDies ==
    \A f \in Files : f \in final ~> told[f] # {} \/ faults > 0

\* The rows that are hard-deleted are the orphans that "never reached Available"
\* and the "soft-deleted FileAsset rows past the retention window".
OnlyOrphansAndExpiredPurged ==
    [][\A f \in Files : row[f].at = "live" /\ row'[f].at = "gone" =>
         \/ ~row[f].deleted /\ row[f].cols.status = "PendingUpload"
         \/ row[f].deleted /\ row[f].expired]_vars
=============================================================================
