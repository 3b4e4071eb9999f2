----------------------------- MODULE PageTables -----------------------------
(* The vocabulary of the page tables that ClientPages runs on. *)
EXTENDS Naturals, Sequences, TLC

(***************************************************************************)
(* A call to the API: the queries whose answer it changes on the server,   *)
(* among those of its area, and what its onSuccess invalidates (prefixes). *)
(***************************************************************************)
Call(writes, refreshes) ==
    [writes |-> writes, refreshes |-> refreshes, refetches |-> {}, sets |-> {}, leaves |-> {}]

\* What onSuccess fetches again by the hook of a query: what that hook shows by then.
Refetching(call, keys) == [call EXCEPT !.refetches = keys]

\* What onSuccess puts in the cache itself.
Putting(call, keys) == [call EXCEPT !.sets = keys]

\* What onSuccess leaves out, though the call changes it: stale until its staleTime is over.
Leaving(call, keys) == [call EXCEPT !.leaves = keys]

(***************************************************************************)
(* A task: its calls one after the other, and then "stay", or the view of  *)
(* this page, or the page, it goes to.                                     *)
(***************************************************************************)
Task(calls, done) ==
    [calls |-> calls, done |-> done, fails |-> "stay", saves |-> FALSE, guarded |-> FALSE]

ClosingOnError(task) == [task EXCEPT !.fails = "page"]
Saving(task) == [task EXCEPT !.saves = TRUE]
IfMatch(task) == [task EXCEPT !.guarded = TRUE]

(* A control: the views it is on, and the tasks whose request disables it. *)
Control(at, waits) == [at |-> at, waits |-> waits]

(***************************************************************************)
(* A page: its queries, always on screen or by view; its tasks and their   *)
(* controls.  Until the queries of `gate` have data it renders none.       *)
(***************************************************************************)
NoForm == [of |-> <<>>, seeds |-> "none", savers |-> {}, discards |-> FALSE]

Page(base, views, tasks, controls) ==
    [base |-> base, views |-> views, tasks |-> tasks, controls |-> controls,
     gate |-> {}, given |-> <<>>, form |-> NoForm]

Gated(p, keys) == [p EXCEPT !.gate = keys]

\* A query that starts with the row of a list, as fresh as if it were fetched.
Given(p, key, list) == [p EXCEPT !.given = key :> list]

(***************************************************************************)
(* The form of a page: the query it is filled from, and when; the tasks    *)
(* that save it, which disable its Discard button.                         *)
(***************************************************************************)
Form(of, seeds, savers) ==
    [of |-> of, seeds |-> seeds, savers |-> savers, discards |-> TRUE]

NoDiscard(form) == [form EXCEPT !.discards = FALSE]

WithForm(p, form) == [p EXCEPT !.form = form]

JustThePage == [page |-> {}]

Elsewhere == Page({}, JustThePage, <<>>, <<>>)
=============================================================================
