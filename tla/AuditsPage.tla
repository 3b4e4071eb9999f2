----------------------------- MODULE AuditsPage -----------------------------
(***************************************************************************)
(* The audit trail (pages/audits.tsx): filters, a search box that reaches  *)
(* them 300 ms later, pages of rows that stay on screen while the next are *)
(* fetched, and a drawer with one event and links back into the filters.   *)
(*                                                                         *)
(* What can be filtered by, apart from the search, is one field here; the  *)
(* rows of an answer are known by the filters it was asked with.           *)
(***************************************************************************)
EXTENDS Naturals

CONSTANTS
    Searches,   \* what can be typed, NoText included
    Values,     \* of the other filters, "any" included; the drawer links to each other one
    PagesOf,    \* [search, value -> how many pages match]
    MaxClicks

NoText == ""

ASSUME AuditsAssumption ==
    /\ NoText \in Searches /\ "any" \in Values
    /\ PagesOf \in [Searches \X Values -> Nat]

VARIABLES
    filters, box,   \* FilterState; searchInput
    debounce,       \* the 300 ms timer is running
    rows,           \* the rows on screen: the filters they answer, or NoRows
    known,          \* the answers the cache holds for this window: [key, of]
    asking,         \* the list is being fetched
    listFailed,
    drawer,         \* the event in it: "closed", "loading", "shown" or "failed"
    jumped, blind,  \* history: a link changed the filters under a text in the box; a page
                    \* was turned on rows of other filters
    clicks

auditsVars ==
    <<filters, box, debounce, rows, known, asking, listFailed, drawer, jumped, blind, clicks>>

NoRows == [range |-> 0, value |-> "any", search |-> NoText, page |-> 0]
INITIAL_FILTERS == [range |-> 1, value |-> "any", search |-> NoText, page |-> 1]

\* mutant: the key of the query forgets the page
ListKey_AnyPage(f) == [f EXCEPT !.page = 1]

ListKey(f) == f

Total(f) == PagesOf[<<f.search, f.value>>]
Click == clicks < MaxClicks /\ clicks' = clicks + 1

(***************************************************************************)
(* The filters change, and with them the key of the query: what the cache  *)
(* holds is shown at once; else the rows stay (keepPreviousData) while the *)
(* new ones are fetched, the fetch for the old ones aborted.  Another      *)
(* range is another window, up to now: nothing in the cache fits it.       *)
(***************************************************************************)
FiltersBecome(f) ==
    /\ filters' = f
    /\ known' = IF f.range = filters.range THEN known ELSE {}
    /\ IF ListKey(f) = ListKey(filters)
       THEN UNCHANGED <<rows, asking, listFailed>>
       ELSE LET hit == {a \in known' : a.key = ListKey(f)} IN
            /\ rows' = IF hit = {} THEN rows ELSE (CHOOSE a \in hit : TRUE).of
            /\ asking' \in {TRUE, hit = {}}     \* one older than 5 s is fetched again
            /\ listFailed' = FALSE

\* The drawer is modal: the page behind it takes no input.
OnPage == drawer = "closed" /\ Click

Types(s) ==
    /\ s # box /\ OnPage
    /\ box' = s /\ debounce' = TRUE
    /\ UNCHANGED <<filters, rows, known, asking, listFailed, drawer, jumped, blind>>

Debounced ==
    /\ debounce
    /\ FiltersBecome([filters EXCEPT !.search = box, !.page = 1])
    /\ debounce' = FALSE
    /\ jumped' = FALSE /\ blind' = FALSE
    /\ UNCHANGED <<box, drawer, clicks>>

\* onPatch: another range, and a chip, a field or the switch.
PatchesRange ==
    /\ OnPage
    /\ FiltersBecome([filters EXCEPT !.range = 3 - @, !.page = 1])
    /\ blind' = FALSE
    /\ UNCHANGED <<box, debounce, drawer, jumped>>

Patches ==
    /\ OnPage
    /\ \E v \in Values : FiltersBecome([filters EXCEPT !.value = v, !.page = 1])
    /\ blind' = FALSE
    /\ UNCHANGED <<box, debounce, drawer, jumped>>

\* Offered by the bar while a field is set, and by an empty list for a search too.
onResetFilters ==
    /\ filters.value # "any" \/ filters.search # NoText
    /\ OnPage
    /\ FiltersBecome(INITIAL_FILTERS)
    /\ box' = NoText
    /\ debounce' = (debounce \/ box' # box)
    /\ jumped' = FALSE /\ blind' = FALSE
    /\ UNCHANGED drawer

\* The pager is under rows, whichever they are, and counts their pages.
Listing == ~listFailed /\ rows # NoRows /\ rows.page <= Total(rows)

HasNext == filters.page < Total(rows)

onNext ==
    /\ Listing /\ Total(rows) > 1 /\ HasNext /\ OnPage
    /\ FiltersBecome([filters EXCEPT !.page = @ + 1])
    /\ blind' = (blind \/ rows # filters)
    /\ UNCHANGED <<box, debounce, drawer, jumped>>

onPrev ==
    /\ Listing /\ Total(rows) > 1 /\ filters.page > 1 /\ OnPage
    /\ FiltersBecome([filters EXCEPT !.page = @ - 1])
    /\ UNCHANGED <<box, debounce, drawer, jumped, blind>>

(***************************************************************************)
(* The list is fetched.                                                    *)
(***************************************************************************)
Refresh ==
    /\ ~asking /\ OnPage
    /\ asking' = TRUE
    /\ listFailed' = (listFailed /\ \E a \in known : a.key = ListKey(filters))
    /\ UNCHANGED <<filters, box, debounce, rows, known, drawer, jumped, blind>>

Answered ==
    /\ asking
    /\ rows' = filters
    /\ known' = {a \in known : a.key # ListKey(filters)} \cup {[key |-> ListKey(filters), of |-> filters]}
    /\ asking' = FALSE /\ listFailed' = FALSE
    /\ UNCHANGED <<filters, box, debounce, drawer, jumped, blind, clicks>>

ListFails ==
    /\ asking
    /\ asking' = FALSE /\ listFailed' = TRUE
    /\ UNCHANGED <<filters, box, debounce, rows, known, drawer, jumped, blind, clicks>>

(***************************************************************************)
(* The drawer.                                                             *)
(***************************************************************************)
listVars == <<filters, box, debounce, rows, known, asking, listFailed, jumped, blind>>

\* A row of the list.
ShowAudit ==
    /\ Listing /\ OnPage
    /\ drawer' \in {"loading", "shown"}
    /\ UNCHANGED listVars

\* Another event of the timeline in the drawer.
JumpAudit ==
    /\ drawer = "shown" /\ Click
    /\ drawer' \in {"loading", "shown"}
    /\ UNCHANGED listVars

DrawerAnswered ==
    /\ drawer = "loading"
    /\ drawer' \in {"shown", "failed"}
    /\ UNCHANGED <<listVars, clicks>>

CloseDrawer ==
    /\ drawer # "closed"
    /\ drawer' = "closed"
    /\ UNCHANGED <<listVars, clicks>>

\* "All by correlation", "All by trace": the box keeps its text, and so does its timer.
JumpTo(v) ==
    /\ drawer = "shown" /\ Click
    /\ drawer' = "closed"
    /\ FiltersBecome([INITIAL_FILTERS EXCEPT !.range = filters.range, !.value = v])
    /\ jumped' = (box # NoText) /\ blind' = FALSE
    /\ UNCHANGED <<box, debounce>>

(***************************************************************************)
(* The specification.  The search box's timer runs once after mount.       *)
(***************************************************************************)
AuditsInit ==
    /\ filters = INITIAL_FILTERS /\ box = NoText /\ debounce = TRUE
    /\ rows = NoRows /\ known = {} /\ asking = TRUE /\ listFailed = FALSE
    /\ drawer = "closed" /\ jumped = FALSE /\ blind = FALSE /\ clicks = 0

AuditsNext ==
    \/ \E s \in Searches : Types(s)
    \/ Debounced \/ PatchesRange \/ Patches \/ onResetFilters \/ onNext \/ onPrev
    \/ Refresh \/ Answered \/ ListFails
    \/ ShowAudit \/ JumpAudit \/ DrawerAnswered \/ CloseDrawer
    \/ \E v \in Values \ {"any"} : JumpTo(v)

AuditsSpec == AuditsInit /\ [][AuditsNext]_auditsVars

(***************************************************************************)
(* Properties.                                                             *)
(***************************************************************************)
Filters == [range : 1..2, value : Values, search : Searches, page : Nat \ {0}]

AuditsTypeOK ==
    /\ filters \in Filters /\ rows \in Filters \cup {NoRows}
    /\ box \in Searches /\ debounce \in BOOLEAN
    /\ \A a \in known : a.of \in Filters /\ a.of.range = filters.range
    /\ asking \in BOOLEAN /\ listFailed \in BOOLEAN
    /\ drawer \in {"closed", "loading", "shown", "failed"}
    /\ jumped \in BOOLEAN /\ blind \in BOOLEAN

\* Once the list is at rest the rows are those of the filters shown above them, whatever
\* order timers, clicks, links and answers came in.
RowsAnswerFilters == ~asking /\ ~listFailed => rows = filters

\* The text in the box is the search applied, once its timer has run: except after a link
\* of the drawer, which drops the search and leaves the text (pages/audits.tsx:415-422).
SearchBoxTells == ~debounce /\ ~jumped => filters.search = box

\* Turning pages never leads past the last, unless they were turned while the rows of
\* other filters, and their number of pages, were still on screen.
TurnsStayInRange == ~blind /\ Total(filters) > 0 => filters.page <= Total(filters)

\* Rows, search box and page number agree with the filters on screen.
TrailTells == AuditsTypeOK /\ RowsAnswerFilters /\ SearchBoxTells /\ TurnsStayInRange
=============================================================================
