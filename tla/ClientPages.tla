---------------------------- MODULE ClientPages ----------------------------
(***************************************************************************)
(* The pages of the two web clients over their query cache.  A page shows  *)
(* what its queries hold, stages edits in a form, and submits tasks: calls *)
(* to the API whose success marks queries as out of date.  What each page  *)
(* queries, writes and invalidates is in the tables `Areas` is given from  *)
(* (Console..., Dashboard...); this module is the machine they all run on, *)
(* TanStack Query 5 under the options of lib/query-client.ts.              *)
(*                                                                         *)
(* A query is named by its key, a sequence, and matched by prefix.  Data   *)
(* is a version number: the server's version of a key grows with every     *)
(* write that changes the answer to that query.                            *)
(***************************************************************************)
EXTENDS Naturals, FiniteSets, SequencesExt

CONSTANTS
    Areas,          \* per area: its pages, by name
    MaxMoves,       \* pages visited and dialogs, tabs or filters opened
    MaxRequests,    \* per area: tasks submitted
    MaxTroubles     \* requests that fail, and records written by somebody else

VARIABLES
    area,       \* the part of the client being used: its name, its pages
    page, view, \* the page on screen, and the tab, filter or dialog of it
    draft,      \* the page's form: the version it was filled from, its edits
    server,     \* per query: the version the server holds
    cache,      \* per query: what the client holds
    requests,   \* the tasks submitted and not answered
    wrote,      \* per query: the version when a write of ours was acknowledged
    spent       \* what is used up of the bounds

vars == <<area, page, view, draft, server, cache, requests, wrote, spent>>

\* The queries of an area whose answer can change: written by a task, or behind a form.
KeysOf == [a \in DOMAIN Areas |->
    LET pages == {Areas[a][p] : p \in DOMAIN Areas[a]}
        shown == UNION {p.base \cup UNION {p.views[v] : v \in DOMAIN p.views} : p \in pages}
        calls == UNION {UNION {Range(p.tasks[t].calls) : t \in DOMAIN p.tasks} : p \in pages}
    IN  shown \cap (UNION {c.writes : c \in calls} \cup {p.form.of : p \in pages})]

\* What this module relies on in the tables.  Every page has its view without dialogs, a task
\* its calls.  A call sets, refreshes or refetches every query it changes, but for those it
\* leaves.  What a form is filled from is a query of its page and is only ever fetched; a form
\* that is discarded has one, and so has a form saved under an etag, whose page waits for it.
Covers(call, ks) ==
    \A k \in (call.writes \ call.leaves) \cap ks :
        k \in call.sets \cup call.refetches \/ \E x \in call.refreshes : IsPrefix(x, k)

TaskFits(p, task, ks, forms) ==
    /\ task.guarded => p.form.of \in p.gate \cap ks
    /\ Len(task.calls) \in Nat \ {0}
    /\ \A n \in 1..Len(task.calls) :
           Covers(task.calls[n], ks) /\ task.calls[n].sets \cap forms = {}

ASSUME TablesAssumption ==
    \A a \in DOMAIN Areas : \A p \in DOMAIN Areas[a] :
        LET forms == {Areas[a][q].form.of : q \in DOMAIN Areas[a]}
            form == Areas[a][p].form
            tasks == Areas[a][p].tasks
        IN  /\ "page" \in DOMAIN Areas[a][p].views
            /\ form.of \in KeysOf[a] => form.of \in Areas[a][p].base
            /\ form.discards => form.of \in KeysOf[a]
            /\ form.of \notin DOMAIN Areas[a][p].given
            /\ \A t \in DOMAIN tasks : TaskFits(Areas[a][p], tasks[t], KeysOf[a], forms)

Keys == DOMAIN server
Pages == area.pages
TaskOf(r) == Pages[r.page].tasks[r.task]
CallOf(r) == TaskOf(r).calls[r.step]
Visit == spent.visits       \* the mounted page: its hooks are those of this visit

Mounted(p, v) == (Pages[p].base \cup Pages[p].views[v]) \cap Keys
Shown == Mounted(page, view)
ThisForm == Pages[page].form

(***************************************************************************)
(* One query.  Version 0 is none: nothing cached, no fetch in flight.  A   *)
(* fetch remembers the version the server had when it was sent; its answer *)
(* is that one or a later one.                                             *)
(***************************************************************************)
Unknown == [data |-> 0, flight |-> 0, invalid |-> FALSE, failed |-> FALSE, outrun |-> FALSE]

Exists(q) == q.data # 0 \/ q.flight # 0 \/ q.failed

Fetching(q, now) == [q EXCEPT !.flight = now, !.failed = FALSE, !.outrun = FALSE]

\* mutant: a fetch in flight is left to answer, though it was sent before the write
Invalidated_Joins(q, now, active) ==
    IF ~Exists(q) THEN q
    ELSE IF ~active THEN [q EXCEPT !.invalid = TRUE, !.outrun = q.flight # 0]
    ELSE IF q.flight # 0 THEN [q EXCEPT !.invalid = TRUE]
    ELSE [Fetching(q, now) EXCEPT !.invalid = TRUE]

\* mutant: the query on screen is marked and not fetched again
Invalidated_MarksOnly(q, now, active) ==
    IF Exists(q) THEN [q EXCEPT !.invalid = TRUE] ELSE q

\* A query on screen is fetched again, its fetch in flight cancelled; but a first load
\* cannot be cancelled, and the answer of any fetch left in flight clears the mark.
Invalidated(q, now, active) ==
    IF ~Exists(q) THEN q
    ELSE IF ~active \/ (q.flight # 0 /\ q.data = 0)
         THEN [q EXCEPT !.invalid = TRUE, !.outrun = q.flight # 0]
         ELSE [Fetching(q, now) EXCEPT !.invalid = TRUE]

Invalidating(c, prefixes) ==
    [k \in DOMAIN c |->
        IF \E p \in prefixes : IsPrefix(p, k) THEN Invalidated(c[k], server[k], k \in Shown)
                                              ELSE c[k]]

\* refetch() of a hook: cancels a fetch in flight, but joins a first load.
Refetched(c, ks) ==
    [k \in DOMAIN c |->
        IF k \notin ks THEN c[k]
        ELSE IF c[k].flight # 0 /\ c[k].data = 0 THEN [c[k] EXCEPT !.outrun = TRUE]
        ELSE Fetching(c[k], server[k])]

\* setQueryData: a fetch in flight is not cancelled and will write over it.
Setting(c, ks) ==
    [k \in DOMAIN c |-> IF k \in ks THEN [c[k] EXCEPT !.data = server[k], !.outrun = c[k].flight # 0]
                                   ELSE c[k]]

\* initialData: the row that was clicked stands for an unknown query, as if just fetched.
Giving(c, ks) ==
    [k \in DOMAIN c |-> IF k \in ks /\ ~Exists(c[k]) THEN [c[k] EXCEPT !.data = server[k]]
                                                  ELSE c[k]]

\* The queries a page or a dialog brings on screen: fetched if there is nothing or a mark.
Mounting(c, ks) ==
    [k \in DOMAIN c |-> IF k \in ks /\ c[k].flight = 0 /\ (c[k].data = 0 \/ c[k].invalid)
                        THEN Fetching(c[k], server[k]) ELSE c[k]]

(***************************************************************************)
(* The form.                                                               *)
(***************************************************************************)
Untouched == [base |-> 0, edits |-> "none"]

Opened(p, c) ==
    LET f == Pages[p].form IN
    IF f.of \in DOMAIN c THEN [base |-> c[f.of].data, edits |-> "none"] ELSE Untouched

\* mutant: every answer fills the form, the same payload too
Refilled_Always(f, d, old, new) ==
    IF d.base = 0 \/ d.edits = "conflict" \/ f.seeds = "each" THEN [base |-> new, edits |-> "none"]
    ELSE IF f.seeds = "kept" THEN [d EXCEPT !.base = new]
    ELSE d

\* An answer fills the form by the page's rule: "each" new payload (the effect depends on
\* the object, which structural sharing keeps while the payload is the same), "once", or
\* "kept": toggles staged over whatever the payload is.
Refilled(f, d, old, new) ==
    IF d.base = 0 \/ d.edits = "conflict" \/ (f.seeds = "each" /\ new # old)
    THEN [base |-> new, edits |-> "none"]
    ELSE IF f.seeds = "kept" THEN [d EXCEPT !.base = new]
    ELSE d

(***************************************************************************)
(* The user moves.                                                         *)
(***************************************************************************)
Spend(what) == spent' = [spent EXCEPT ![what] = @ + 1]

GoTo(p, v, c) ==
    /\ page' = p
    /\ view' = v
    /\ cache' = Mounting(Giving(c, DOMAIN Pages[p].given \cap Mounted(p, v)), Mounted(p, v) \ Shown)

Navigate(p) ==
    /\ spent.moves < MaxMoves
    /\ GoTo(p, "page", cache)
    /\ draft' = Opened(p, cache)
    /\ spent' = [spent EXCEPT !.moves = @ + 1, !.visits = @ + 1]
    /\ UNCHANGED <<area, server, requests, wrote>>

\* A tab, a filter, a page number, a dialog, a drawer: opened from the page, closed to it.
\* Escape closes a dialog whatever is pending.
ChangeView(v) ==
    /\ spent.moves < MaxMoves
    /\ v # view /\ "page" \in {v, view}
    /\ \A k \in DOMAIN Pages[page].given \cap Mounted(page, v) :
           cache[Pages[page].given[k]].data # 0
    /\ GoTo(page, v, cache)
    /\ Spend("moves")
    /\ UNCHANGED <<area, draft, server, requests, wrote>>

Type ==
    /\ view = "page" /\ draft.base # 0
    /\ draft.edits \in {"none", "sent"}
    /\ draft' = [draft EXCEPT !.edits = "staged"]
    /\ UNCHANGED <<area, page, view, server, cache, requests, wrote, spent>>

Pending(t) == \E r \in requests : r.visit = Visit /\ r.task = t

Discard ==
    /\ view = "page"
    /\ ThisForm.discards /\ draft.edits # "none"
    /\ ~\E t \in ThisForm.savers : Pending(t)
    /\ draft' = [base |-> cache[ThisForm.of].data, edits |-> "none"]
    /\ UNCHANGED <<area, page, view, server, cache, requests, wrote, spent>>

(***************************************************************************)
(* Queries answer.                                                         *)
(***************************************************************************)
Arrive(k) ==
    /\ cache[k].flight # 0
    /\ \E v \in cache[k].flight .. server[k] :
        /\ cache' = [cache EXCEPT ![k] = [@ EXCEPT !.data = v, !.flight = 0, !.invalid = FALSE]]
        /\ draft' = IF k = ThisForm.of THEN Refilled(ThisForm, draft, cache[k].data, v) ELSE draft
    /\ UNCHANGED <<area, page, view, server, requests, wrote, spent>>

FetchFails(k) ==
    /\ spent.troubles < MaxTroubles
    /\ cache[k].flight # 0
    /\ cache' = [cache EXCEPT ![k] = [@ EXCEPT !.flight = 0, !.invalid = TRUE, !.failed = TRUE]]
    /\ draft' = IF k = ThisForm.of /\ draft.edits = "conflict"
                THEN [draft EXCEPT !.edits = "staged"] ELSE draft
    /\ Spend("troubles")
    /\ UNCHANGED <<area, page, view, server, requests, wrote>>

\* A poll, the network coming back, a Refresh button, or a page opened past the staleTime.
Refetch(k) ==
    /\ spent.moves < MaxMoves
    /\ k \in Shown
    /\ cache[k].flight = 0
    /\ cache' = [cache EXCEPT ![k] = Fetching(@, server[k])]
    /\ Spend("moves")
    /\ UNCHANGED <<area, page, view, draft, server, requests, wrote>>

OtherWrites(k) ==
    /\ spent.troubles < MaxTroubles
    /\ \E p \in DOMAIN Pages : k = Pages[p].form.of
    /\ server' = [server EXCEPT ![k] = @ + 1]
    /\ Spend("troubles")
    /\ UNCHANGED <<area, page, view, draft, cache, requests, wrote>>

(***************************************************************************)
(* Tasks: useMutation, which never retries.  The hook lives as long as the *)
(* page, its dialogs closed or not; its callbacks run even if the user has *)
(* left, but what they do to the page's own state is then lost.            *)
(***************************************************************************)
\* mutant: closing the dialog forgets that its request is pending
Waits_WhileOpen(t) ==
    \E w \in Pages[page].controls[t].waits : Pending(w) /\ "page" \in Pages[page].controls[w].at

Waits(t) == \E w \in Pages[page].controls[t].waits : Pending(w)

Submit(t) ==
    LET task == Pages[page].tasks[t] IN
    /\ spent.requests < MaxRequests[area.name]
    /\ view \in Pages[page].controls[t].at
    /\ \A k \in Pages[page].gate \cap Keys : cache[k].data # 0
    /\ ~Waits(t)
    /\ task.saves => draft.edits # "none"
    /\ requests' = requests \cup
           {[id |-> spent.requests, visit |-> Visit, page |-> page, task |-> t, step |-> 1,
             state |-> "sent",
             etag |-> IF task.guarded THEN cache[ThisForm.of].data ELSE 0]}
    /\ draft' = IF task.saves /\ draft.edits = "staged"
                THEN [draft EXCEPT !.edits = "sent"] ELSE draft
    /\ Spend("requests")
    /\ UNCHANGED <<area, page, view, server, cache, wrote>>

Becomes(r, state) == requests' = (requests \ {r}) \cup {[r EXCEPT !.state = state]}

UpToDate(r) == TaskOf(r).guarded => r.etag = server[Pages[r.page].form.of]

Apply(r) ==
    /\ r.state = "sent" /\ UpToDate(r)
    /\ server' = [k \in Keys |-> IF k \in CallOf(r).writes THEN server[k] + 1 ELSE server[k]]
    /\ Becomes(r, "applied")
    /\ UNCHANGED <<area, page, view, draft, cache, wrote, spent>>

\* 412: the record is not the one the save was based on.
Conflict(r) ==
    /\ r.state = "sent" /\ ~UpToDate(r)
    /\ Becomes(r, "conflict")
    /\ UNCHANGED <<area, page, view, draft, server, cache, wrote, spent>>

\* The server refuses, or its answer is lost.
Fail(r) ==
    /\ spent.troubles < MaxTroubles
    /\ r.state \in {"sent", "applied"}
    /\ Becomes(r, "failed")
    /\ Spend("troubles")
    /\ UNCHANGED <<area, page, view, draft, server, cache, wrote>>

Told(c, call, again) ==
    Refetched(Invalidating(Setting(c, call.sets), call.refreshes), again)

\* What the hook of the request fetches again: what it shows; or, with its page left, what
\* it showed then.
Again(r) ==
    IF r.visit = Visit THEN {CallOf(r).refetches \cap Shown} ELSE SUBSET (CallOf(r).refetches \cap Keys)

\* What a call is answerable for: not for what it leaves, nor for what was off the screen.
Answers(call, again) == (call.writes \ call.leaves) \ (call.refetches \ again)

\* onSuccess, then the next call of the task or its end.
Succeeds(r, again) ==
    LET task == TaskOf(r)
        call == CallOf(r)
        here == r.visit = Visit
        told == Told(cache, call, again)
        last == r.step = Len(task.calls)
    IN  /\ r.state = "applied"
        /\ wrote' = [k \in Keys |-> IF k \in Answers(call, again) THEN server[k] ELSE wrote[k]]
        /\ requests' = (requests \ {r}) \cup
               IF last THEN {} ELSE {[r EXCEPT !.step = @ + 1, !.state = "sent"]}
        /\ IF last /\ task.done \in DOMAIN Pages
           THEN /\ GoTo(task.done, "page", told)
                /\ draft' = Opened(task.done, told)
                /\ Spend("visits")
           ELSE /\ IF last /\ here /\ task.done \in DOMAIN Pages[page].views
                   THEN GoTo(page, task.done, told)
                   ELSE cache' = told /\ UNCHANGED <<page, view>>
                /\ draft' = IF ~(last /\ here /\ task.saves) THEN draft
                            ELSE CASE ThisForm.seeds = "kept" -> [draft EXCEPT !.edits = "none"]
                                   [] ThisForm.seeds = "once" /\ draft.edits = "sent" ->
                                          [draft EXCEPT !.edits = "none"]
                                   [] OTHER -> draft
                /\ UNCHANGED spent
        /\ UNCHANGED <<area, server>>

Succeed(r) == \E again \in Again(r) : Succeeds(r, again)

\* onError.  A conflict fetches the record and puts it in the form.
Reject(r) ==
    LET task == TaskOf(r)
        here == r.visit = Visit
        of == Pages[r.page].form.of
        fetched == IF r.state = "conflict" /\ cache[of].flight = 0
                   THEN [cache EXCEPT ![of] = Fetching(@, server[of])] ELSE cache
    IN  /\ r.state \in {"failed", "conflict"}
        /\ requests' = requests \ {r}
        /\ draft' = IF here /\ r.state = "conflict" THEN [draft EXCEPT !.edits = "conflict"]
                    ELSE IF here /\ task.saves /\ draft.edits = "sent"
                         THEN [draft EXCEPT !.edits = "staged"] ELSE draft
        /\ IF here /\ task.fails = "page"
           THEN GoTo(page, "page", fetched)
           ELSE cache' = fetched /\ UNCHANGED <<page, view>>
        /\ UNCHANGED <<area, server, wrote, spent>>

(***************************************************************************)
(* Properties.                                                             *)
(***************************************************************************)
TypeOK ==
    /\ area.name \in DOMAIN Areas
    /\ page \in DOMAIN Pages /\ view \in DOMAIN Pages[page].views
    /\ draft \in [base : Nat, edits : {"none", "staged", "sent", "conflict"}]
    /\ server \in [Keys -> Nat]
    /\ wrote \in [Keys -> Nat]
    /\ cache \in [Keys -> [data : Nat, flight : Nat, invalid : BOOLEAN, failed : BOOLEAN,
                           outrun : BOOLEAN]]
    /\ \A r \in requests : r.page \in DOMAIN Pages /\ r.task \in DOMAIN Pages[r.page].tasks
    /\ \A k \in Keys : cache[k].data <= server[k] /\ cache[k].flight <= server[k]

\* What the user sees is never older than what they were told is saved: once a task is
\* acknowledged, every query on screen that it changed holds that version or a later one,
\* or is being fetched.  Except what onSuccess leaves out (`leaves`) or refetches only if it is
\* still shown (`refetches`: file-preview-dialog.tsx:111), and the two cases the cache itself
\* loses: a first load that was in flight, and setQueryData under a fetch.
Settled(q) == q.flight = 0 /\ ~q.failed /\ ~q.outrun

OwnWritesShow == \A k \in Shown : Settled(cache[k]) => cache[k].data >= wrote[k]

\* A button that waits for its own request sends one at a time: closing its dialog and
\* opening it again, or failing in between, never gets a second one out beside the first.
\* (The buttons of a list's rows do not wait: each disables only its own row.)
OneRequestPerButton ==
    \A r, s \in requests :
        /\ r.visit = s.visit /\ r.page = s.page /\ r.task = s.task
        /\ r.task \in Pages[r.page].controls[r.task].waits
        => r = s

\* Staged edits are only lost to the user: sent, discarded, or left with the page; or to
\* a new version of the record, on a page that fills its form from each, and after a 412.
GivenUp ==
    \/ draft'.edits = "sent" \/ Discard
    \/ spent'.visits # spent.visits
    \/ \E r \in requests \ requests' :
           r.visit = Visit /\ (r.state = "conflict" \/ (TaskOf(r).saves /\ ThisForm.seeds = "kept"))
    \/ ThisForm.seeds = "each" /\ cache'[ThisForm.of].data # cache[ThisForm.of].data

StagedEditsKept ==
    [][draft.edits = "staged" /\ draft'.edits # "staged" => GivenUp]_vars

\* A query on screen that was marked as out of date is brought up to date, or fails.
Behind == \E k \in Shown : cache[k].invalid /\ ~cache[k].failed

PagesCatchUp == Behind ~> ~Behind

(***************************************************************************)
(* The specification.                                                      *)
(***************************************************************************)
\* A page that has loaded; what the user has not opened yet is not cached.
Opening(a) ==
    /\ area = [name |-> a, pages |-> Areas[a]]
    /\ page \in DOMAIN Areas[a] /\ view \in DOMAIN Areas[a][page].views
    /\ server = [k \in KeysOf[a] |-> 1]
    /\ cache = [k \in KeysOf[a] |->
                   IF k \in Areas[a][page].base \cup Areas[a][page].views[view]
                   THEN [Unknown EXCEPT !.data = 1] ELSE Unknown]
    /\ draft = IF Areas[a][page].form.of \in KeysOf[a] THEN [Untouched EXCEPT !.base = 1]
                                                      ELSE Untouched
    /\ wrote = [k \in KeysOf[a] |-> 1]
    /\ requests = {}
    /\ spent = [moves |-> 0, visits |-> 0, requests |-> 0, troubles |-> 0]

Init == \E a \in DOMAIN Areas : Opening(a)

Next ==
    \/ \E p \in DOMAIN Pages : Navigate(p)
    \/ \E v \in DOMAIN Pages[page].views : ChangeView(v)
    \/ Type \/ Discard
    \/ \E k \in Keys : Arrive(k) \/ FetchFails(k) \/ Refetch(k) \/ OtherWrites(k)
    \/ \E t \in DOMAIN Pages[page].tasks : Submit(t)
    \/ \E r \in requests : Apply(r) \/ Conflict(r) \/ Fail(r) \/ Succeed(r) \/ Reject(r)

\* A fetch is answered or fails: the browser settles every request it sends.
Spec == Init /\ [][Next]_vars /\ WF_vars(\E k \in Keys : Arrive(k))
=============================================================================
