----------------------------- MODULE FileUpload -----------------------------
(***************************************************************************)
(* The dropzone of the dashboard's file page, beside the pages: an upload  *)
(* asks for a presigned URL, puts the bytes, and finalizes; the server     *)
(* then lists the file, and the page marks its lists as out of date.       *)
(*                                                                         *)
(* The state of the hook lives as long as the dropzone is mounted.  A run  *)
(* of `upload` goes on without it, and Cancel, which resets the hook right *)
(* after, stops only a run whose PUT is under way.                         *)
(***************************************************************************)
EXTENDS ClientPages

CONSTANTS
    DropPage, DropViews,    \* where the dropzone is mounted: a page, its views
    Listed, Invalidates     \* the queries a new file changes; what onUploaded invalidates

\* What onUploaded invalidates covers what a new file changes.
ASSUME UploadAssumption ==
    \A a \in DOMAIN Areas : \A k \in Listed \cap KeysOf[a] : \E x \in Invalidates : IsPrefix(x, k)

VARIABLES
    dropzone,   \* the hook: its progress, its XHR, how often it was mounted
    uploads     \* the runs of `upload`, in order

uploadVars == <<dropzone, uploads>>
allVars == <<vars, uploadVars>>

NoXhr == 0
Rearmed == [dropzone EXCEPT !.status = "none", !.xhr = NoXhr]
Busy == {"preparing", "uploading", "finalizing"}

IsMounted == page = DropPage /\ view \in DropViews

(***************************************************************************)
(* setProgress: only while this run's hook is mounted, and only over some  *)
(* progress - after a reset there is none to change.                       *)
(***************************************************************************)
Progress(u, status) ==
    IF uploads[u].mount = dropzone.mount /\ dropzone.status # "none"
    THEN [dropzone EXCEPT !.status = status] ELSE dropzone

Goes(u, stage) == uploads' = [uploads EXCEPT ![u].stage = stage]

(***************************************************************************)
(* The steps.                                                              *)
(***************************************************************************)
\* A file picked or dropped; the extension and the size are looked at first.  It counts
\* as one of the requests of its area.
Pick ==
    /\ IsMounted /\ view = "page"
    /\ spent.requests < MaxRequests[area.name]
    /\ dropzone.status \notin Busy
    /\ \/ /\ dropzone' = [dropzone EXCEPT !.status = "preparing"]
          /\ uploads' = Append(uploads, [mount |-> dropzone.mount, stage |-> "mint"])
          /\ Spend("requests")
       \/ /\ dropzone' = [dropzone EXCEPT !.status = "error"]
          /\ UNCHANGED <<uploads, spent>>
    /\ UNCHANGED <<area, page, view, draft, server, cache, requests, wrote>>

Minted(u) ==
    /\ uploads[u].stage = "mint"
    /\ Goes(u, "put")
    /\ dropzone' = [Progress(u, "uploading") EXCEPT
           !.xhr = IF uploads[u].mount = dropzone.mount THEN u ELSE @]
    /\ UNCHANGED vars

Put(u) ==
    /\ uploads[u].stage = "put"
    /\ Goes(u, "finalize")
    /\ dropzone' = Progress(u, "finalizing")
    /\ UNCHANGED vars

\* The server verifies the object and lists the file.
Finalize(u) ==
    /\ uploads[u].stage = "finalize"
    /\ Goes(u, "listed")
    /\ server' = [k \in Keys |-> IF k \in Listed THEN server[k] + 1 ELSE server[k]]
    /\ UNCHANGED <<area, page, view, draft, cache, requests, wrote, spent, dropzone>>

\* onUploaded, then reset: the dropzone is ready for the next file.
Uploaded(u) ==
    /\ uploads[u].stage = "listed"
    /\ Goes(u, "over")
    /\ wrote' = [k \in Keys |-> IF k \in Listed THEN server[k] ELSE wrote[k]]
    /\ cache' = Invalidating(cache, Invalidates)
    /\ dropzone' = IF uploads[u].mount = dropzone.mount THEN Rearmed ELSE dropzone
    /\ UNCHANGED <<area, page, view, draft, server, requests, spent>>

AfterFailure(u) == Progress(u, "error")

\* Any of the three requests fails, or the answer of the last is lost.
UploadFails(u) ==
    /\ spent.troubles < MaxTroubles
    /\ uploads[u].stage \in {"mint", "put", "finalize", "listed"}
    /\ Goes(u, "over")
    /\ dropzone' = AfterFailure(u)
    /\ Spend("troubles")
    /\ UNCHANGED <<area, page, view, draft, server, cache, requests, wrote>>

Aborted(u) == uploads[u].stage = "put" /\ dropzone.xhr = u

Cancel ==
    /\ IsMounted /\ dropzone.status \in Busy
    /\ uploads' = [u \in DOMAIN uploads |->
                      IF Aborted(u) THEN [uploads[u] EXCEPT !.stage = "over"] ELSE uploads[u]]
    /\ dropzone' = Rearmed
    /\ UNCHANGED vars

Dismiss ==
    /\ IsMounted /\ dropzone.status = "error"
    /\ dropzone' = Rearmed
    /\ UNCHANGED <<vars, uploads>>

UploadStep ==
    \/ Pick \/ Cancel \/ Dismiss
    \/ \E u \in DOMAIN uploads :
           Minted(u) \/ Put(u) \/ Finalize(u) \/ Uploaded(u) \/ UploadFails(u)

\* The pages go on; leaving the dropzone's tab or page loses the state of the hook.
Aside ==
    /\ UNCHANGED uploads
    /\ dropzone' = IF IsMounted /\ ~(IsMounted' /\ spent'.visits = spent.visits)
                   THEN [Rearmed EXCEPT !.mount = @ + 1] ELSE dropzone

PageStep == Next /\ Aside
Answer == (\E k \in Keys : Arrive(k)) /\ Aside

UploadInit == Init /\ dropzone = [mount |-> 0, status |-> "none", xhr |-> NoXhr] /\ uploads = <<>>

AppSpec ==
    UploadInit /\ [][PageStep \/ UploadStep]_allVars /\ WF_allVars(Answer)

(***************************************************************************)
(* Properties.                                                             *)
(***************************************************************************)
\* Every variable has its type: the page on screen has the tab that is open, and no query
\* holds a version the server has not had.
AppTypeOK ==
    /\ TypeOK
    /\ dropzone \in [mount : Nat, status : Busy \cup {"none", "error"},
                     xhr : {NoXhr} \cup DOMAIN uploads]
    /\ \A u \in DOMAIN uploads :
           uploads[u] \in [mount : Nat,
                           stage : {"mint", "put", "finalize", "listed", "over"}]

\* A dropzone that says it is at work is: a run of its own hook is under way, so that it
\* re-arms or shows an error in the end, however uploads and cancels overlapped.
BusyMeansUploading ==
    dropzone.status \in Busy =>
        \E u \in DOMAIN uploads :
            uploads[u].mount = dropzone.mount /\ uploads[u].stage # "over"

\* What buttons and dropzones allow and show.
ControlsTell == AppTypeOK /\ OneRequestPerButton /\ BusyMeansUploading
=============================================================================
