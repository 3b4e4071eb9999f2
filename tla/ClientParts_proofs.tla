------------------------- MODULE ClientParts_proofs -------------------------
(***************************************************************************)
(* Proofs about the clients: the audit trail for every set of filter       *)
(* values and of pages, the theme for every set of accents and hues and    *)
(* any number of view transitions under way, the permission editor for     *)
(* every catalog and every grant, the inactivity guard for every set of    *)
(* tabs and every pair of limits, and the pages over the query cache with  *)
(* their dropzone, for every table of pages in which the calls cover what  *)
(* they write.                                                             *)
(***************************************************************************)
EXTENDS ClientParts, FiniteSetTheorems, TLAPS

-----------------------------------------------------------------------------
(* The audit trail page. *)

\* An answer in the cache is kept under the key of the filters it was asked with.
KeptUnderKey == \A a \in known : a.key = ListKey(a.of)

AuditsInv == TrailTells /\ KeptUnderKey

-----------------------------------------------------------------------------
\* Back to the first page.
LEMMA BackToFirst ==
    ASSUME NEW f \in Filters
    PROVE  /\ [f EXCEPT !.page = 1] \in Filters /\ [f EXCEPT !.page = 1].page = 1
           /\ [f EXCEPT !.page = 1].search = f.search
BY DEF Filters

\* A field of the filters changes, and the page with it.
LEMMA FieldChanges ==
    ASSUME filters \in Filters, NEW g \in 1..2, NEW v \in Values, NEW s \in Searches
    PROVE  /\ [filters EXCEPT !.range = g, !.page = 1] \in Filters
           /\ [filters EXCEPT !.range = g, !.page = 1].page = 1
           /\ [filters EXCEPT !.range = g, !.page = 1].search = filters.search
           /\ [filters EXCEPT !.value = v, !.page = 1] \in Filters
           /\ [filters EXCEPT !.value = v, !.page = 1].page = 1
           /\ [filters EXCEPT !.value = v, !.page = 1].search = filters.search
           /\ [filters EXCEPT !.search = s, !.page = 1] \in Filters
           /\ [filters EXCEPT !.search = s, !.page = 1].page = 1
           /\ [filters EXCEPT !.search = s, !.page = 1].search = s
<1>1. /\ [filters EXCEPT !.range = g, !.page = 1] \in Filters
      /\ [filters EXCEPT !.range = g, !.page = 1].page = 1
      /\ [filters EXCEPT !.range = g, !.page = 1].search = filters.search
  <2>1. [filters EXCEPT !.range = g] \in Filters /\ [filters EXCEPT !.range = g].search = filters.search
    BY DEF Filters
  <2>2. /\ [[filters EXCEPT !.range = g] EXCEPT !.page = 1] \in Filters
        /\ [[filters EXCEPT !.range = g] EXCEPT !.page = 1].page = 1
        /\ [[filters EXCEPT !.range = g] EXCEPT !.page = 1].search = filters.search
    BY <2>1, BackToFirst
  <2>. QED
    BY <2>2
<1>2. /\ [filters EXCEPT !.value = v, !.page = 1] \in Filters
      /\ [filters EXCEPT !.value = v, !.page = 1].page = 1
      /\ [filters EXCEPT !.value = v, !.page = 1].search = filters.search
  <2>1. [filters EXCEPT !.value = v] \in Filters /\ [filters EXCEPT !.value = v].search = filters.search
    BY DEF Filters
  <2>2. /\ [[filters EXCEPT !.value = v] EXCEPT !.page = 1] \in Filters
        /\ [[filters EXCEPT !.value = v] EXCEPT !.page = 1].page = 1
        /\ [[filters EXCEPT !.value = v] EXCEPT !.page = 1].search = filters.search
    BY <2>1, BackToFirst
  <2>. QED
    BY <2>2
<1>3. /\ [filters EXCEPT !.search = s, !.page = 1] \in Filters
      /\ [filters EXCEPT !.search = s, !.page = 1].page = 1
      /\ [filters EXCEPT !.search = s, !.page = 1].search = s
  <2>1. [filters EXCEPT !.search = s] \in Filters /\ [filters EXCEPT !.search = s].search = s
    BY DEF Filters
  <2>2. /\ [[filters EXCEPT !.search = s] EXCEPT !.page = 1] \in Filters
        /\ [[filters EXCEPT !.search = s] EXCEPT !.page = 1].page = 1
        /\ [[filters EXCEPT !.search = s] EXCEPT !.page = 1].search = s
    BY <2>1, BackToFirst
  <2>. QED
    BY <2>2
<1>. QED
  BY <1>1, <1>2, <1>3

\* What the page starts with are filters, and so are they after a link of the drawer.
LEMMA InitialType ==
    /\ INITIAL_FILTERS \in Filters /\ INITIAL_FILTERS.page = 1
    /\ INITIAL_FILTERS.search = NoText
BY AuditsAssumption DEF INITIAL_FILTERS, Filters

LEMMA LinkType ==
    ASSUME NEW g \in 1..2, NEW v \in Values
    PROVE  LET f == [INITIAL_FILTERS EXCEPT !.range = g, !.value = v] IN
           f \in Filters /\ f.page = 1 /\ f.search = NoText
<1> DEFINE h == [INITIAL_FILTERS EXCEPT !.range = g]
<1>1. h \in Filters /\ h.page = 1 /\ h.search = NoText
  BY InitialType DEF Filters
<1>2. [h EXCEPT !.value = v] \in Filters /\ [h EXCEPT !.value = v].page = 1
      /\ [h EXCEPT !.value = v].search = NoText
  BY <1>1 DEF Filters
<1>. QED
  BY <1>2

\* The page as it is opened.
LEMMA AuditsStarts == AuditsInit => AuditsInv
<1> SUFFICES ASSUME AuditsInit PROVE AuditsInv
  OBVIOUS
<1>1. INITIAL_FILTERS \in Filters /\ Total(INITIAL_FILTERS) \in Nat
  BY InitialType, AuditsAssumption DEF Filters, Total
<1>a. filters = INITIAL_FILTERS /\ Total(filters) = Total(INITIAL_FILTERS) /\ filters.page = 1
  BY DEF AuditsInit, INITIAL_FILTERS
<1>2. AuditsTypeOK
  BY <1>1, AuditsAssumption DEF AuditsInit, AuditsTypeOK
<1>3. RowsAnswerFilters /\ SearchBoxTells /\ KeptUnderKey
  BY DEF AuditsInit, RowsAnswerFilters, SearchBoxTells, KeptUnderKey
<1>4. TurnsStayInRange
  BY <1>1, <1>a DEF TurnsStayInRange
<1>. QED
  BY <1>2, <1>3, <1>4 DEF AuditsInv, TrailTells

\* Other filters: the rows on screen are theirs, or the list is being fetched.
LEMMA BecomeEffect ==
    ASSUME AuditsInv, NEW f \in Filters, FiltersBecome(f)
    PROVE  /\ filters' = f /\ rows' \in Filters \cup {NoRows}
           /\ \A a \in known' : a.of \in Filters /\ a.of.range = f.range
           /\ asking' \in BOOLEAN /\ listFailed' \in BOOLEAN
           /\ RowsAnswerFilters' /\ KeptUnderKey'
<1>1. /\ filters \in Filters /\ rows \in Filters \cup {NoRows}
      /\ \A a \in known : a.of \in Filters /\ a.of.range = filters.range
      /\ asking \in BOOLEAN /\ listFailed \in BOOLEAN
      /\ RowsAnswerFilters /\ KeptUnderKey
  BY DEF AuditsInv, TrailTells, AuditsTypeOK
<1>2. /\ filters' = f /\ known' \subseteq known
      /\ \A a \in known' : a.of \in Filters /\ a.of.range = f.range
  BY <1>1 DEF FiltersBecome
<1>3. KeptUnderKey'
  BY <1>1, <1>2 DEF KeptUnderKey, ListKey
<1>4. CASE f = filters
  <2>1. UNCHANGED <<rows, asking, listFailed>>
    BY <1>4 DEF FiltersBecome
  <2>2. RowsAnswerFilters'
    BY <1>1, <1>2, <1>4, <2>1 DEF RowsAnswerFilters
  <2>. QED
    BY <1>1, <1>2, <1>3, <2>1, <2>2
<1>5. CASE f # filters
  <2> DEFINE hit == {a \in known' : a.key = ListKey(f)}
  <2>1. /\ rows' = IF hit = {} THEN rows ELSE (CHOOSE a \in hit : TRUE).of
        /\ asking' \in {TRUE, hit = {}} /\ listFailed' = FALSE
    BY <1>5 DEF FiltersBecome, ListKey
  <2>2. CASE hit = {}
    <3>1. rows' = rows /\ asking' = TRUE
      BY <2>1, <2>2
    <3>. QED
      BY <1>1, <1>2, <1>3, <2>1, <3>1 DEF RowsAnswerFilters
  <2>3. CASE hit # {}
    <3>1. PICK a \in hit : rows' = a.of
      BY <2>1, <2>3
    <3>2. a.of = f /\ a.of \in Filters
      BY <1>2, <1>3, <3>1 DEF KeptUnderKey, ListKey
    <3>3. asking' \in BOOLEAN
      BY <2>1
    <3>. QED
      BY <1>2, <1>3, <2>1, <3>1, <3>2, <3>3 DEF RowsAnswerFilters
  <2>. QED
    BY <2>2, <2>3
<1>. QED
  BY <1>4, <1>5 DEF ListKey

\* The steps that leave the filters alone and at most refetch the list.
LEMMA SameFilters ==
    ASSUME AuditsInv, filters' = filters, known' = known, rows' = rows, asking' = asking,
           listFailed' = listFailed, jumped' = jumped, blind' = blind,
           box' \in Searches, debounce' \in BOOLEAN,
           drawer' \in {"closed", "loading", "shown", "failed"},
           debounce' = TRUE \/ (debounce' = debounce /\ box' = box)
    PROVE  AuditsInv'
BY DEF AuditsInv, TrailTells, AuditsTypeOK, RowsAnswerFilters, SearchBoxTells, TurnsStayInRange,
       KeptUnderKey, Total

\* Filters that start again at the first page.
LEMMA FirstPage ==
    ASSUME AuditsInv, NEW f \in Filters, f.page = 1, FiltersBecome(f),
           box' \in Searches, debounce' \in BOOLEAN,
           drawer' \in {"closed", "loading", "shown", "failed"},
           jumped' \in BOOLEAN, blind' \in BOOLEAN,
           f.search = box' \/ debounce' = TRUE \/ jumped' = TRUE
    PROVE  AuditsInv'
<1>1. /\ filters' = f /\ rows' \in Filters \cup {NoRows}
      /\ \A a \in known' : a.of \in Filters /\ a.of.range = f.range
      /\ asking' \in BOOLEAN /\ listFailed' \in BOOLEAN
      /\ RowsAnswerFilters' /\ KeptUnderKey'
  BY BecomeEffect
<1>2. AuditsTypeOK' /\ SearchBoxTells'
  BY <1>1 DEF AuditsTypeOK, SearchBoxTells
<1>3. TurnsStayInRange'
  <2>1. Total(f) \in Nat
    BY AuditsAssumption DEF Total, Filters
  <2>2. Total(filters)' = Total(f) /\ filters'.page = 1
    BY <1>1 DEF Total
  <2>. QED
    BY <2>1, <2>2 DEF TurnsStayInRange
<1>. QED
  BY <1>1, <1>2, <1>3 DEF AuditsInv, TrailTells

\* The pager moves to a page that the rows, if they are those of the filters, have.
LEMMA TurnStep ==
    ASSUME AuditsInv, NEW n \in Nat \ {0}, FiltersBecome([filters EXCEPT !.page = n]),
           box' = box, debounce' = debounce, drawer' = drawer, jumped' = jumped,
           blind' \in BOOLEAN,
           blind' = FALSE => /\ blind = FALSE
                             /\ n <= filters.page \/ n <= Total(filters)
    PROVE  AuditsInv'
<1>3. filters \in Filters /\ filters.page \in Nat \ {0}
  BY DEF AuditsInv, TrailTells, AuditsTypeOK, Filters
<1> DEFINE f == [filters EXCEPT !.page = n]
<1>5. /\ f \in Filters /\ f.page = n /\ f.search = filters.search /\ f.value = filters.value
      /\ f.range = filters.range
  BY <1>3 DEF Filters
<1>6. /\ filters' = f /\ rows' \in Filters \cup {NoRows}
      /\ \A a \in known' : a.of \in Filters /\ a.of.range = f.range
      /\ asking' \in BOOLEAN /\ listFailed' \in BOOLEAN
      /\ RowsAnswerFilters' /\ KeptUnderKey'
  BY <1>5, BecomeEffect
<1>7. AuditsTypeOK' /\ SearchBoxTells'
  BY <1>5, <1>6 DEF AuditsTypeOK, SearchBoxTells, AuditsInv, TrailTells
<1>8. TurnsStayInRange'
  <2>1. Total(filters) \in Nat /\ Total(filters)' = Total(filters)
    BY <1>3, <1>5, <1>6, AuditsAssumption DEF Total, Filters
  <2>2. ~blind /\ Total(filters) > 0 => filters.page <= Total(filters)
    BY DEF AuditsInv, TrailTells, TurnsStayInRange
  <2>3. filters'.page = n
    BY <1>5, <1>6
  <2>4. blind \in BOOLEAN
    BY DEF AuditsInv, TrailTells, AuditsTypeOK
  <2>5. ~blind' /\ Total(filters) > 0 => n <= Total(filters)
    BY <1>3, <2>1, <2>2, <2>4
  <2>. QED
    BY <2>1, <2>3, <2>5 DEF TurnsStayInRange
<1>. QED
  BY <1>6, <1>7, <1>8 DEF AuditsInv, TrailTells

-----------------------------------------------------------------------------
\* Every step keeps the invariant.
LEMMA AuditsSteps == AuditsInv /\ [AuditsNext]_auditsVars => AuditsInv'
<1> SUFFICES ASSUME AuditsInv, [AuditsNext]_auditsVars PROVE AuditsInv'
  OBVIOUS
<1>0. /\ filters \in Filters /\ box \in Searches /\ debounce \in BOOLEAN
      /\ drawer \in {"closed", "loading", "shown", "failed"}
      /\ NoText \in Searches /\ "any" \in Values
      /\ jumped \in BOOLEAN /\ blind \in BOOLEAN
      /\ filters.search = box \/ debounce = TRUE \/ jumped = TRUE
  BY AuditsAssumption DEF AuditsInv, TrailTells, AuditsTypeOK, SearchBoxTells
<1>a. filters \in Filters /\ box \in Searches
  BY <1>0
<1>b. NoText \in Searches
  BY <1>0
<1>c. 1 \in Nat \ {0} /\ 1 \in 1..2 /\ "any" \in Values
  BY <1>0
<1>1. ASSUME NEW s \in Searches, Types(s) PROVE AuditsInv'
  <2>1. /\ filters' = filters /\ known' = known /\ rows' = rows /\ asking' = asking
        /\ listFailed' = listFailed /\ jumped' = jumped /\ blind' = blind
        /\ drawer' = drawer /\ box' = s /\ debounce' = TRUE
    BY <1>1 DEF Types
  <2>. QED
    BY <1>0, <2>1, SameFilters
<1>2. CASE Debounced
  <2>1. /\ [filters EXCEPT !.search = box, !.page = 1] \in Filters
        /\ [filters EXCEPT !.search = box, !.page = 1].page = 1
        /\ [filters EXCEPT !.search = box, !.page = 1].search = box
    BY <1>a, <1>c, FieldChanges
  <2>2. /\ FiltersBecome([filters EXCEPT !.search = box, !.page = 1])
        /\ box' = box /\ drawer' = drawer /\ debounce' = FALSE
        /\ jumped' = FALSE /\ blind' = FALSE
    BY <1>2 DEF Debounced
  <2>. QED
    BY <1>0, <2>1, <2>2, FirstPage
<1>3. CASE PatchesRange
  <2> DEFINE f == [filters EXCEPT !.range = 3 - @, !.page = 1]
  <2>0. 3 - filters.range \in 1..2
    BY <1>a DEF Filters
  <2>1. f \in Filters /\ f.page = 1 /\ f.search = filters.search
    BY <1>a, <1>c, <2>0, FieldChanges
  <2>2. /\ FiltersBecome(f) /\ blind' = FALSE
        /\ box' = box /\ debounce' = debounce /\ drawer' = drawer /\ jumped' = jumped
    BY <1>3 DEF PatchesRange
  <2>. QED
    BY <1>0, <2>1, <2>2, FirstPage
<1>4. CASE Patches
  <2>1. PICK v \in Values : FiltersBecome([filters EXCEPT !.value = v, !.page = 1])
    BY <1>4 DEF Patches
  <2> DEFINE f == [filters EXCEPT !.value = v, !.page = 1]
  <2>2. f \in Filters /\ f.page = 1 /\ f.search = filters.search
    BY <1>a, <1>c, FieldChanges
  <2>3. /\ FiltersBecome(f) /\ blind' = FALSE
        /\ box' = box /\ debounce' = debounce /\ drawer' = drawer /\ jumped' = jumped
    BY <1>4, <2>1 DEF Patches
  <2>. QED
    BY <1>0, <2>2, <2>3, FirstPage
<1>5. CASE onResetFilters
  <2>1. /\ INITIAL_FILTERS \in Filters /\ INITIAL_FILTERS.page = 1
        /\ INITIAL_FILTERS.search = NoText
    BY InitialType
  <2>2. FiltersBecome(INITIAL_FILTERS) /\ box' = NoText /\ debounce' \in BOOLEAN /\ drawer' = drawer
        /\ jumped' = FALSE /\ blind' = FALSE
    BY <1>0, <1>5 DEF onResetFilters
  <2>. QED
    BY <1>0, <2>1, <2>2, FirstPage
<1>6a. CASE onNext
  <2>1. /\ FiltersBecome([filters EXCEPT !.page = @ + 1])
        /\ blind' = (blind \/ rows # filters) /\ filters.page < Total(rows)
        /\ box' = box /\ debounce' = debounce /\ drawer' = drawer /\ jumped' = jumped
    BY <1>6a DEF onNext, HasNext
  <2>2. filters.page + 1 \in Nat \ {0}
    BY <1>a DEF Filters
  <2>3. blind' = FALSE => blind = FALSE /\ rows = filters
    BY <1>0, <2>1
  <2>4. rows = filters => filters.page + 1 <= Total(filters)
    BY <1>0, <2>1, AuditsAssumption DEF Filters, Total
  <2>. QED
    BY <1>0, <2>1, <2>2, <2>3, <2>4, TurnStep
<1>6b. CASE onPrev
  <2>1. /\ FiltersBecome([filters EXCEPT !.page = @ - 1])
        /\ blind' = blind /\ filters.page > 1
        /\ box' = box /\ debounce' = debounce /\ drawer' = drawer /\ jumped' = jumped
    BY <1>6b DEF onPrev
  <2>2. filters.page - 1 \in Nat \ {0} /\ filters.page - 1 <= filters.page
    BY <1>0, <2>1 DEF Filters
  <2>. QED
    BY <1>0, <2>1, <2>2, TurnStep
<1>7. CASE Refresh
  BY <1>7 DEF Refresh, AuditsInv, TrailTells, AuditsTypeOK, RowsAnswerFilters, SearchBoxTells,
              TurnsStayInRange, KeptUnderKey, Total
<1>8. CASE Answered
  <2>1. /\ UNCHANGED <<filters, box, debounce, drawer, jumped, blind>> /\ rows' = filters
        /\ known' = {a \in known : a.key # ListKey(filters)}
                      \cup {[key |-> ListKey(filters), of |-> filters]}
        /\ asking' = FALSE /\ listFailed' = FALSE
    BY <1>8 DEF Answered
  <2>2. \A a \in known' : /\ a.of \in Filters /\ a.of.range = filters.range
                          /\ a.key = ListKey(a.of)
    BY <2>1 DEF AuditsInv, TrailTells, AuditsTypeOK, KeptUnderKey
  <2>. QED
    BY <2>1, <2>2 DEF AuditsInv, TrailTells, AuditsTypeOK, RowsAnswerFilters, SearchBoxTells,
                      TurnsStayInRange, KeptUnderKey, Total
<1>9. CASE ListFails
  BY <1>9 DEF ListFails, AuditsInv, TrailTells, AuditsTypeOK, RowsAnswerFilters, SearchBoxTells,
              TurnsStayInRange, KeptUnderKey, Total
<1>10. CASE ShowAudit \/ JumpAudit \/ DrawerAnswered \/ CloseDrawer
  <2>1. /\ drawer' \in {"closed", "loading", "shown", "failed"} /\ UNCHANGED listVars
    BY <1>10 DEF ShowAudit, JumpAudit, DrawerAnswered, CloseDrawer
  <2>2. /\ filters' = filters /\ known' = known /\ rows' = rows /\ asking' = asking
        /\ listFailed' = listFailed /\ jumped' = jumped /\ blind' = blind
        /\ box' = box /\ debounce' = debounce
    BY <2>1 DEF listVars
  <2>. QED
    BY <1>0, <2>1, <2>2, SameFilters
<1>11. ASSUME NEW v \in Values \ {"any"}, JumpTo(v) PROVE AuditsInv'
  <2> DEFINE f == [INITIAL_FILTERS EXCEPT !.range = filters.range, !.value = v]
  <2>1. f \in Filters /\ f.page = 1 /\ f.search = NoText
    <3>1. filters.range \in 1..2 /\ v \in Values
      BY <1>a DEF Filters
    <3>. QED
      BY <3>1, LinkType
  <2>2. /\ FiltersBecome(f) /\ drawer' = "closed" /\ box' = box /\ debounce' = debounce
        /\ jumped' = (box # NoText) /\ blind' = FALSE
    BY <1>11 DEF JumpTo
  <2>3. jumped' \in BOOLEAN /\ (box = NoText \/ jumped' = TRUE)
    BY <2>2
  <2>. QED
    BY <1>0, <2>1, <2>2, <2>3, FirstPage
<1>12. CASE UNCHANGED auditsVars
  BY <1>12 DEF auditsVars, AuditsInv, TrailTells, AuditsTypeOK, RowsAnswerFilters, SearchBoxTells,
               TurnsStayInRange, KeptUnderKey, Total
<1>. QED
  BY <1>1, <1>2, <1>3, <1>4, <1>5, <1>6a, <1>6b, <1>7, <1>8, <1>9, <1>10, <1>11, <1>12
     DEF AuditsNext

\* Whatever order keystrokes, the debounce, answers, failures, turned pages and jumps out of
\* the drawer come in: a list at rest shows the rows of the filters above it, the search
\* applied is the one in the box, and pages turned on their own rows stay in range.
THEOREM TrailTellsHolds == AuditsSpec => []TrailTells
<1>1. AuditsInv => TrailTells
  BY DEF AuditsInv
<1>. QED
  BY <1>1, AuditsStarts, AuditsSteps, PTL DEF AuditsSpec

-----------------------------------------------------------------------------
(* The theme. *)

\* The mode chosen last is the last one a transition will commit, or the committed one.
ChosenIsLast ==
    \/ mode = storedMode /\ \A i \in DOMAIN commits : commits[i].mode = "kept"
    \/ \E i \in DOMAIN commits :
           /\ commits[i].mode = storedMode
           /\ \A j \in DOMAIN commits : j > i => commits[j].mode = "kept"

\* The darkness the page will end up with.
Finally == IF commits = <<>> THEN dark ELSE commits[Len(commits)].dark

FinallyRight == ~raced => Finally = ResolvedDark(storedMode, osDark)

\* Without animation nothing is ever pending.
NothingPending == ~animates => commits = <<>>

ThemePending == ChosenIsLast /\ FinallyRight /\ NothingPending

\* The root element is what the accent makes it.
Painting == root = Accented(accent, spec)

ThemeInv == ThemeTypeOK /\ animates \in BOOLEAN /\ ThemePending /\ Painting

Callback == [mode : Modes \cup {"kept"}, dark : BOOLEAN]

-----------------------------------------------------------------------------
\* A mode is dark or it is not.
LEMMA ResolvedType ==
    ASSUME NEW m, NEW os \in BOOLEAN
    PROVE  ResolvedDark(m, os) \in BOOLEAN
BY DEF ResolvedDark

\* "system" is what the OS says.
LEMMA SystemFollows ==
    ASSUME NEW os \in BOOLEAN
    PROVE  ResolvedDark("system", os) = os
BY DEF ResolvedDark

\* The page as it is first loaded.
LEMMA ThemeStarts == ThemeInit => ThemeInv
<1> SUFFICES ASSUME ThemeInit PROVE ThemeInv
  OBVIOUS
<1>1. ThemeTypeOK /\ animates \in BOOLEAN
  <2>1. dark \in BOOLEAN
    BY ResolvedType DEF ThemeInit
  <2>2. commits \in Seq(Callback)
    BY DEF ThemeInit
  <2>. QED
    BY <2>1, <2>2 DEF ThemeInit, ThemeTypeOK, Callback
<1>2. ThemePending
  BY DEF ThemeInit, ThemePending, ChosenIsLast, FinallyRight, Finally, NothingPending
<1>3. Painting
  BY ThemeAssumption DEF ThemeInit, Painting, Accented
<1>. QED
  BY <1>1, <1>2, <1>3 DEF ThemeInv

\* What the root may become.
LEMMA AccentedType ==
    ASSUME NEW id \in Palettes \cup {"default", "custom"}, NEW s \in Specs
    PROVE  Accented(id, s) \in [class : Palettes \cup {"none"}, inline : Specs \cup {0}]
BY DEF Accented

\* A transition is queued, or takes effect at once when nothing is pending.
LEMMA TransitionEffect ==
    ASSUME ThemeInv, NEW c \in Callback, withThemeTransition(c)
    PROVE  /\ commits' \in Seq(Callback) /\ mode' \in Modes /\ dark' \in BOOLEAN
           /\ \/ /\ animates /\ UNCHANGED <<mode, dark>>
                 /\ Len(commits') = Len(commits) + 1
                 /\ commits' # <<>> /\ commits'[Len(commits')] = c
                 /\ \A i \in DOMAIN commits : i \in DOMAIN commits' /\ commits'[i] = commits[i]
                 /\ DOMAIN commits' = DOMAIN commits \cup {Len(commits')}
              \/ /\ commits = <<>> /\ commits' = <<>> /\ dark' = c.dark
                 /\ mode' = IF c.mode = "kept" THEN mode ELSE c.mode
<1>1. commits \in Seq(Callback) /\ mode \in Modes /\ dark \in BOOLEAN
  BY DEF ThemeInv, ThemeTypeOK, Callback
<1>2. CASE animates
  <2>1. commits' = Append(commits, c) /\ UNCHANGED <<mode, dark>>
    BY <1>2 DEF withThemeTransition
  <2>. QED
    BY <1>1, <1>2, <2>1
<1>3. CASE ~animates
  <2>1. commits = <<>> /\ commits' = <<>>
    BY <1>3 DEF ThemeInv, ThemePending, NothingPending, withThemeTransition
  <2>2. dark' = c.dark /\ mode' = IF c.mode = "kept" THEN mode ELSE c.mode
    BY <1>3 DEF withThemeTransition, Committing
  <2>. QED
    BY <1>1, <2>1, <2>2 DEF Callback
<1>. QED
  BY <1>2, <1>3

-----------------------------------------------------------------------------
(* The colour mode, step by step. *)

\* A click: the mode it chooses is the last one to be committed.
LEMMA SetModeStep ==
    ASSUME ThemeInv, NEW m \in Modes, setMode(m)
    PROVE  ThemeInv'
<1> DEFINE c == [mode |-> m, dark |-> ResolvedDark(m, osDark)]
<1>1. c \in Callback /\ m # "kept"
  BY DEF Callback, ResolvedDark, Modes, ThemeInv, ThemeTypeOK
<1>2. /\ withThemeTransition(c) /\ storedMode' = m
      /\ UNCHANGED <<osDark, animates, accent, spec, root, picker>>
      /\ raced' = (raced /\ commits # <<>>)
  BY DEF setMode, accentVars
<1>3. ThemeTypeOK' /\ (animates \in BOOLEAN)'
  BY <1>1, <1>2, TransitionEffect DEF ThemeInv, ThemeTypeOK, Callback
<1>4. CASE commits' # <<>>
  <2>1. /\ commits'[Len(commits')] = c /\ animates
        /\ DOMAIN commits' = DOMAIN commits \cup {Len(commits')}
        /\ Len(commits') = Len(commits) + 1 /\ commits \in Seq(Callback)
    BY <1>1, <1>2, <1>4, TransitionEffect DEF ThemeInv, ThemeTypeOK, Callback
  <2>2. ChosenIsLast'
    <3>1. Len(commits') \in DOMAIN commits'
      BY <2>1
    <3>2. \A j \in DOMAIN commits' : ~(j > Len(commits'))
      BY <2>1
    <3>. QED
      BY <1>2, <2>1, <3>1, <3>2 DEF ChosenIsLast
  <2>3. FinallyRight' /\ NothingPending'
    BY <1>2, <1>4, <2>1 DEF FinallyRight, Finally, NothingPending
  <2>. QED
    BY <1>2, <1>3, <2>2, <2>3 DEF ThemeInv, ThemePending, Painting
<1>5. CASE commits' = <<>>
  <2>1. mode' = m /\ dark' = ResolvedDark(m, osDark)
    BY <1>1, <1>2, <1>5, TransitionEffect
  <2>2. ChosenIsLast'
    BY <1>2, <1>5, <2>1 DEF ChosenIsLast
  <2>3. FinallyRight' /\ NothingPending'
    BY <1>2, <1>5, <2>1 DEF FinallyRight, Finally, NothingPending
  <2>. QED
    BY <1>2, <1>3, <2>2, <2>3 DEF ThemeInv, ThemePending, Painting
<1>. QED
  BY <1>4, <1>5

\* The OS changes its preference: a page that follows it will, another does not depend on it.
LEMMA OsChangesStep ==
    ASSUME ThemeInv, OsChanges
    PROVE  ThemeInv'
<1>1. /\ UNCHANGED <<storedMode, animates, accent, spec, root, picker>>
      /\ osDark' = ~osDark
      /\ raced' = (raced \/ \E i \in DOMAIN commits : commits[i].mode # "kept")
  BY DEF OsChanges, accentVars
<1>2. /\ commits \in Seq(Callback) /\ storedMode \in Modes /\ mode \in Modes
      /\ raced \in BOOLEAN => TRUE
  BY DEF ThemeInv, ThemeTypeOK, Callback
<1>3. ~raced' => /\ ~raced /\ \A i \in DOMAIN commits : commits[i].mode = "kept"
                 /\ mode = storedMode
  BY <1>1, <1>2 DEF ThemeInv, ThemePending, ChosenIsLast, Modes
<1>4. CASE ~Follows
  <2>1. UNCHANGED <<mode, dark, commits>>
    BY <1>4 DEF OsChanges
  <2>2. ThemeTypeOK' /\ (animates \in BOOLEAN)' /\ Painting' /\ NothingPending'
    BY <1>1, <2>1 DEF ThemeInv, ThemeTypeOK, Painting, ThemePending, NothingPending
  <2>3. ChosenIsLast'
    BY <1>1, <2>1 DEF ThemeInv, ThemePending, ChosenIsLast
  <2>4. FinallyRight'
    BY <1>1, <1>3, <1>4, <2>1 DEF ThemeInv, ThemePending, FinallyRight, Finally, ResolvedDark, Follows
  <2>. QED
    BY <2>2, <2>3, <2>4 DEF ThemeInv, ThemePending
<1>5. CASE Follows
  <2> DEFINE c == [mode |-> "kept", dark |-> ~osDark]
  <2>1. c \in Callback /\ withThemeTransition(c) /\ c.mode = "kept"
    BY <1>1, <1>5 DEF OsChanges, Callback, ThemeInv, ThemeTypeOK
  <2>2. ThemeTypeOK' /\ (animates \in BOOLEAN)' /\ Painting'
    BY <1>1, <2>1, TransitionEffect DEF ThemeInv, ThemeTypeOK, Callback, Painting
  <2>3. mode' = mode /\ (commits' = <<>> => dark' = c.dark /\ commits = <<>>)
    BY <1>2, <2>1, TransitionEffect
  <2>4. CASE commits' # <<>>
    <3>1. /\ commits'[Len(commits')] = c /\ animates
          /\ DOMAIN commits' = DOMAIN commits \cup {Len(commits')}
          /\ \A i \in DOMAIN commits : commits'[i] = commits[i]
      BY <2>1, <2>4, TransitionEffect
    <3>2. ChosenIsLast'
      <4>1. CASE mode = storedMode /\ \A i \in DOMAIN commits : commits[i].mode = "kept"
        <5>1. \A i \in DOMAIN commits' : commits'[i].mode = "kept"
          BY <2>1, <3>1, <4>1
        <5>. QED
          BY <1>1, <2>3, <4>1, <5>1 DEF ChosenIsLast
      <4>2. ASSUME NEW i \in DOMAIN commits, commits[i].mode = storedMode,
                   \A j \in DOMAIN commits : j > i => commits[j].mode = "kept"
            PROVE  ChosenIsLast'
        <5>1. i \in DOMAIN commits' /\ commits'[i].mode = storedMode'
          BY <1>1, <3>1, <4>2
        <5>2. \A j \in DOMAIN commits' : j > i => commits'[j].mode = "kept"
          BY <2>1, <3>1, <4>2
        <5>. QED
          BY <5>1, <5>2 DEF ChosenIsLast
      <4>3. ChosenIsLast
        BY DEF ThemeInv, ThemePending
      <4>4. \/ mode = storedMode /\ \A i \in DOMAIN commits : commits[i].mode = "kept"
            \/ \E i \in DOMAIN commits :
                  /\ commits[i].mode = storedMode
                  /\ \A j \in DOMAIN commits : j > i => commits[j].mode = "kept"
        BY <4>3 DEF ChosenIsLast
      <4>. QED
        BY <4>1, <4>2, <4>4
    <3>3. Finally' = osDark'
      BY <1>1, <2>4, <3>1 DEF Finally
    <3>4. NothingPending'
      BY <1>1, <3>1 DEF NothingPending
    <3>5. ~raced' => ResolvedDark(storedMode, osDark)' = osDark'
      BY <1>1, <1>3, <1>5, SystemFollows DEF Follows
    <3>6. FinallyRight'
      BY <3>3, <3>5 DEF FinallyRight
    <3>. QED
      BY <2>2, <3>2, <3>4, <3>6 DEF ThemeInv, ThemePending
  <2>5. CASE commits' = <<>>
    <3>1. ChosenIsLast'
      BY <1>1, <2>3, <2>5 DEF ThemeInv, ThemePending, ChosenIsLast
    <3>2. Finally' = osDark'
      BY <1>1, <2>3, <2>5 DEF Finally
    <3>3. ~raced' => ResolvedDark(storedMode, osDark)' = osDark'
      BY <1>1, <1>3, <1>5, SystemFollows DEF Follows
    <3>4. FinallyRight' /\ NothingPending'
      BY <2>5, <3>2, <3>3 DEF FinallyRight, NothingPending
    <3>. QED
      BY <2>2, <3>1, <3>4 DEF ThemeInv, ThemePending
  <2>. QED
    BY <2>4, <2>5
<1>. QED
  BY <1>4, <1>5

\* The browser runs the callback that has waited longest.
LEMMA CommitStep ==
    ASSUME ThemeInv, Commit
    PROVE  ThemeInv'
<1>1. /\ commits \in Seq(Callback) /\ commits # <<>> /\ mode \in Modes
  BY DEF ThemeInv, ThemeTypeOK, Callback, Commit
<1> DEFINE c == commits[1]
<1>2. /\ c \in Callback /\ dark' = c.dark /\ mode' = IF c.mode = "kept" THEN mode ELSE c.mode
      /\ commits' = Tail(commits)
      /\ UNCHANGED <<storedMode, osDark, animates, raced, accent, spec, root, picker>>
  BY <1>1 DEF Commit, Committing, accentVars
<1>3. /\ commits' \in Seq(Callback) /\ Len(commits') = Len(commits) - 1
      /\ \A i \in DOMAIN commits' : i + 1 \in DOMAIN commits /\ commits'[i] = commits[i + 1]
      /\ \A i \in DOMAIN commits : i = 1 \/ (i - 1 \in DOMAIN commits')
  BY <1>1, <1>2
<1>4. ThemeTypeOK' /\ (animates \in BOOLEAN)' /\ Painting'
  BY <1>2, <1>3 DEF ThemeInv, ThemeTypeOK, Callback, Painting
<1>5. ChosenIsLast'
  <2>1. CASE mode = storedMode /\ \A i \in DOMAIN commits : commits[i].mode = "kept"
    BY <1>1, <1>2, <1>3, <2>1 DEF ChosenIsLast
  <2>2. ASSUME NEW i \in DOMAIN commits, commits[i].mode = storedMode,
               \A j \in DOMAIN commits : j > i => commits[j].mode = "kept"
        PROVE  ChosenIsLast'
    <3>1. storedMode # "kept"
      BY DEF ThemeInv, ThemeTypeOK, Modes
    <3>2. CASE i = 1
      <4>1. mode' = storedMode'
        BY <1>2, <2>2, <3>1, <3>2
      <4>2. \A k \in DOMAIN commits' : commits'[k].mode = "kept"
        <5> TAKE k \in DOMAIN commits'
        <5>1. k + 1 \in DOMAIN commits /\ k + 1 > 1 /\ commits'[k] = commits[k + 1]
          BY <1>3
        <5>. QED
          BY <2>2, <3>2, <5>1
      <4>. QED
        BY <4>1, <4>2 DEF ChosenIsLast
    <3>3. CASE i # 1
      <4>1. /\ i - 1 \in DOMAIN commits' /\ commits'[i - 1] = commits[i]
        BY <1>1, <1>3, <3>3
      <4>2. \A j \in DOMAIN commits' : j > i - 1 => commits'[j].mode = "kept"
        BY <1>1, <1>3, <2>2
      <4>3. commits'[i - 1].mode = storedMode'
        BY <1>2, <2>2, <4>1
      <4>. QED
        BY <4>1, <4>2, <4>3 DEF ChosenIsLast
    <3>. QED
      BY <3>2, <3>3
  <2>. QED
    BY <2>1, <2>2 DEF ThemeInv, ThemePending, ChosenIsLast
<1>6. Finally' = Finally
  <2>1. CASE Len(commits) = 1
    BY <1>1, <1>2, <1>3, <2>1 DEF Finally
  <2>2. CASE Len(commits) # 1
    <3>1. commits' # <<>> /\ commits'[Len(commits')] = commits[Len(commits)]
      BY <1>1, <1>3, <2>2
    <3>. QED
      BY <1>1, <3>1 DEF Finally
  <2>. QED
    BY <2>1, <2>2
<1>7. FinallyRight' /\ NothingPending'
  BY <1>1, <1>2, <1>6 DEF ThemeInv, ThemePending, FinallyRight, NothingPending, ResolvedDark
<1>. QED
  BY <1>4, <1>5, <1>7 DEF ThemeInv, ThemePending

-----------------------------------------------------------------------------
\* Every step keeps the invariant.
LEMMA ThemeSteps == ThemeInv /\ [ThemeNext]_themeVars => ThemeInv'
<1> SUFFICES ASSUME ThemeInv, [ThemeNext]_themeVars PROVE ThemeInv'
  OBVIOUS
<1>1. ASSUME UNCHANGED modeVars, ThemeTypeOK', Painting' PROVE ThemeInv'
  BY <1>1 DEF ThemeInv, modeVars, ThemePending, ChosenIsLast, FinallyRight, Finally, NothingPending,
              ResolvedDark
<1>2. ASSUME NEW m \in Modes, setMode(m) PROVE ThemeInv'
  BY <1>2, SetModeStep
<1>3. CASE Commit
  BY <1>3, CommitStep
<1>4. CASE OsChanges
  BY <1>4, OsChangesStep
<1>5. CASE ThemeReady
  BY <1>5 DEF ThemeReady, ThemeInv, ThemeTypeOK, ThemePending, ChosenIsLast, FinallyRight, Finally,
              NothingPending, ResolvedDark, Painting, Accented, accentVars
<1>6. CASE Reload
  <2>1. /\ mode' = storedMode /\ dark' = ResolvedDark(storedMode, osDark)
        /\ commits' = <<>> /\ animates' = FALSE
        /\ root' = Accented(accent, spec) /\ picker' = 0
        /\ UNCHANGED <<storedMode, osDark, accent, spec>>
    BY <1>6 DEF Reload
  <2>2. ThemeTypeOK'
    <3>1. dark' \in BOOLEAN
      BY <2>1, ResolvedType DEF ThemeInv, ThemeTypeOK
    <3>2. commits' \in Seq(Callback)
      BY <2>1
    <3>3. root' \in [class : Palettes \cup {"none"}, inline : Specs \cup {0}]
      BY <2>1, AccentedType DEF ThemeInv, ThemeTypeOK
    <3>. QED
      BY <2>1, <3>1, <3>2, <3>3 DEF ThemeInv, ThemeTypeOK, Callback
  <2>3. ThemePending'
    BY <2>1 DEF ThemePending, ChosenIsLast, FinallyRight, Finally, NothingPending
  <2>. QED
    BY <2>1, <2>2, <2>3 DEF ThemeInv, Painting
<1>7. ASSUME NEW id \in Palettes \cup {"default"}, setAccent(id) PROVE ThemeInv'
  <2>1. /\ accent' = id /\ root' = Accented(id, spec)
        /\ UNCHANGED <<spec, picker, modeVars>>
    BY <1>7 DEF setAccent
  <2>2. ThemeTypeOK'
    BY <2>1, AccentedType DEF ThemeInv, ThemeTypeOK, modeVars
  <2>. QED
    BY <1>1, <2>1, <2>2 DEF Painting
<1>8. CASE OpenPicker
  <2>1. /\ accent' = "custom" /\ root' = Accented("custom", spec) /\ picker' = spec
        /\ UNCHANGED <<spec, modeVars>>
    BY <1>8 DEF OpenPicker
  <2>2. ThemeTypeOK'
    BY <2>1, AccentedType DEF ThemeInv, ThemeTypeOK, modeVars
  <2>. QED
    BY <1>1, <2>1, <2>2 DEF Painting
<1>9. CASE ApplyAccent
  <2>1. /\ spec' = picker /\ accent' = "custom" /\ root' = Accented("custom", picker)
        /\ picker' = 0 /\ picker \in Specs /\ UNCHANGED modeVars
    BY <1>9 DEF ApplyAccent, ThemeInv, ThemeTypeOK
  <2>2. ThemeTypeOK'
    BY <2>1, AccentedType DEF ThemeInv, ThemeTypeOK, modeVars
  <2>. QED
    BY <1>1, <2>1, <2>2 DEF Painting
<1>10. CASE ClosePicker
  BY <1>1, <1>10 DEF ClosePicker, ThemeInv, ThemeTypeOK, modeVars, Painting
<1>11. ASSUME NEW h \in Specs, PickHue(h) PROVE ThemeInv'
  BY <1>1, <1>11 DEF PickHue, ThemeInv, ThemeTypeOK, modeVars, Painting
<1>12. CASE UNCHANGED themeVars
  BY <1>1, <1>12 DEF themeVars, accentVars, ThemeInv, ThemeTypeOK, modeVars, Painting
<1>. QED
  BY <1>2, <1>3, <1>4, <1>5, <1>6, <1>7, <1>8, <1>9, <1>10, <1>11, <1>12 DEF ThemeNext

\* The page shows the mode and the colours that were chosen: once no transition is pending
\* it is in the stored mode, light or dark as that says now, and no inline colour of a
\* custom accent outlives it.
THEOREM ThemeShowsHolds == ThemeSpec => []ThemeShows
<1>1. ThemeInv => ThemeShows
  <2> SUFFICES ASSUME ThemeInv PROVE ThemeShows
    OBVIOUS
  <2>1. ThemeSettles
    <3> SUFFICES ASSUME commits = <<>>, ~raced
                 PROVE  mode = storedMode /\ dark = ResolvedDark(mode, osDark)
      BY DEF ThemeSettles
    <3>1. DOMAIN commits = {}
      OBVIOUS
    <3>2. mode = storedMode
      BY <3>1 DEF ThemeInv, ThemePending, ChosenIsLast
    <3>. QED
      BY <3>2 DEF ThemeInv, ThemePending, FinallyRight, Finally
  <2>2. AccentShows
    BY ThemeAssumption
       DEF AccentShows, Painted, Accented, ThemeInv, ThemeTypeOK, Painting
  <2>. QED
    BY <2>1, <2>2 DEF ThemeShows, ThemeInv
<1>. QED
  BY <1>1, ThemeStarts, ThemeSteps, PTL DEF ThemeSpec

-----------------------------------------------------------------------------
(* The permission editor. *)

\* A payload no save has marked is what the role holds.
PayloadIsStored == ~stale => payload = stored

EditorInv == EditorTypeOK /\ UnlistedKept /\ PayloadIsStored

Look == [search : DOMAIN Matches, filter : {"all", "enabled", "modified", "basic"},
         opened : SUBSET {g.resource : g \in Groups}]

\* A group lists permissions of the catalog.
LEMMA GroupsListNames ==
    ASSUME NEW g \in Groups
    PROVE  g.names \subseteq Names
BY DEF Groups, Names

\* What a role may hold is finite.
LEMMA HeldIsFinite == IsFiniteSet(Held)
BY CatalogAssumption, FS_Union DEF Held, Names

\* The bound on edits is a number.
LEMMA EditsAreBounded == MaxEdits \in Nat
BY CatalogAssumption

\* The page as the role is first fetched.
LEMMA EditorStarts == EditorInit => EditorInv
<1> SUFFICES ASSUME EditorInit PROVE EditorInv
  OBVIOUS
<1>1. Everything \in Look
  <2>1. NoSearch \in DOMAIN Matches
    BY CatalogAssumption
  <2>. QED
    BY <2>1 DEF Everything, Look
<1>2. Granted \subseteq Held /\ 0 \in 0..MaxEdits
  BY EditsAreBounded DEF Held
<1>3. EditorTypeOK
  BY <1>1, <1>2, Zenon DEF EditorInit, EditorTypeOK, Look
<1>. QED
  BY <1>3 DEF EditorInit, EditorInv, UnlistedKept, PayloadIsStored

\* An edit of the selection that leaves what no row shows, or that a preset makes.
LEMMA SelectsStep ==
    ASSUME EditorInv, NEW names \in SUBSET Held, NEW replaced \in BOOLEAN,
           Selects(names, replaced), replaced \/ names \ Names = selected \ Names
    PROVE  EditorInv'
<1>1. /\ edits < MaxEdits /\ edits' = edits + 1
      /\ selected' = names /\ preset' = (preset \/ replaced)
      /\ UNCHANGED stored /\ UNCHANGED payload /\ UNCHANGED look /\ UNCHANGED saving
      /\ UNCHANGED fetch /\ UNCHANGED stale
  BY DEF Selects, Edit
<1>2. preset' \in BOOLEAN
  BY <1>1 DEF EditorInv, EditorTypeOK
<1>3. edits' \in 0..MaxEdits
  BY <1>1, EditsAreBounded DEF EditorInv, EditorTypeOK
<1>4. EditorTypeOK'
  BY <1>1, <1>2, <1>3 DEF EditorInv, EditorTypeOK
<1>5. UnlistedKept'
  BY <1>1 DEF EditorInv, UnlistedKept
<1>6. PayloadIsStored'
  BY <1>1 DEF EditorInv, PayloadIsStored
<1>. QED
  BY <1>4, <1>5, <1>6 DEF EditorInv

\* Toggles, group buttons and presets.
LEMMA EditingStep ==
    ASSUME EditorInv, togglePerm \/ setGroupAll \/ Presets
    PROVE  EditorInv'
<1>0. selected \in SUBSET Held /\ Names \subseteq Held /\ Basic \subseteq Names
  BY DEF EditorInv, EditorTypeOK, Held, Basic, Names
<1>1. CASE togglePerm
  <2>1. PICK g \in Groups : \E n \in visible(g) :
               Selects(IF n \in selected THEN selected \ {n} ELSE selected \cup {n}, FALSE)
    BY <1>1 DEF togglePerm
  <2>2. PICK n \in visible(g) :
               Selects(IF n \in selected THEN selected \ {n} ELSE selected \cup {n}, FALSE)
    BY <2>1
  <2>3. n \in Names
    BY GroupsListNames DEF visible
  <2> DEFINE chosen == IF n \in selected THEN selected \ {n} ELSE selected \cup {n}
  <2>4. chosen \in SUBSET Held /\ chosen \ Names = selected \ Names
    BY <1>0, <2>3
  <2>5. Selects(chosen, FALSE)
    BY <2>2
  <2> HIDE DEF chosen
  <2>. QED
    BY <2>4, <2>5, SelectsStep
<1>2. CASE setGroupAll
  <2>1. PICK g \in Groups : \E on \in BOOLEAN : Selects(GroupSet(g, on), FALSE)
    BY <1>2 DEF setGroupAll
  <2>2. PICK on \in BOOLEAN : Selects(GroupSet(g, on), FALSE)
    BY <2>1
  <2>3. GroupSet(g, on) \in SUBSET Held /\ GroupSet(g, on) \ Names = selected \ Names
    BY <1>0, GroupsListNames DEF GroupSet
  <2>. QED
    BY <2>2, <2>3, SelectsStep
<1>3. CASE Presets
  <2>1. PICK names \in {Basic, Names, {}} : Selects(names, TRUE)
    BY <1>3 DEF Presets
  <2>2. names \in SUBSET Held
    BY <1>0
  <2>. QED
    BY <2>1, <2>2, SelectsStep
<1>. QED
  BY <1>1, <1>2, <1>3

\* Searching, filtering and opening groups changes what is looked at only.
LEMMA BrowseStep ==
    ASSUME EditorInv, Browse
    PROVE  EditorInv'
<1>1. look \in Look
  BY DEF EditorInv, EditorTypeOK, Look
<1>2. ASSUME NEW l \in Look, LooksAt(l) PROVE EditorInv'
  <2>1. /\ look' = l /\ UNCHANGED stored /\ UNCHANGED payload /\ UNCHANGED selected
        /\ UNCHANGED saving /\ UNCHANGED fetch /\ UNCHANGED stale /\ UNCHANGED preset
        /\ UNCHANGED edits
    BY <1>2 DEF LooksAt
  <2>. QED
    BY <1>2, <2>1 DEF EditorInv, EditorTypeOK, UnlistedKept, PayloadIsStored, Look
<1>3. ASSUME NEW s \in DOMAIN Matches, LooksAt([look EXCEPT !.search = s]) PROVE EditorInv'
  <2>1. [look EXCEPT !.search = s] \in Look
    BY <1>1 DEF Look
  <2>. QED
    BY <1>2, <1>3, <2>1
<1>4. ASSUME NEW f \in chips, LooksAt([look EXCEPT !.filter = f]) PROVE EditorInv'
  <2>1. f \in {"all", "enabled", "modified", "basic"}
    BY DEF chips
  <2>2. [look EXCEPT !.filter = f] \in Look
    BY <1>1, <2>1 DEF Look
  <2>. QED
    BY <1>2, <1>4, <2>2
<1>5. ASSUME NEW o \in SUBSET {g.resource : g \in Groups}, LooksAt([look EXCEPT !.opened = o])
      PROVE  EditorInv'
  <2>1. [look EXCEPT !.opened = o] \in Look
    BY <1>1 DEF Look
  <2>. QED
    BY <1>2, <1>5, <2>1
<1>6. ASSUME NEW g \in Groups, LooksAt([look EXCEPT !.opened = SymDiff(@, {g.resource})])
      PROVE  EditorInv'
  <2> DEFINE o == SymDiff(look.opened, {g.resource})
  <2>1. o \in SUBSET {h.resource : h \in Groups}
    BY <1>1 DEF SymDiff, Look
  <2>2. LooksAt([look EXCEPT !.opened = o])
    BY <1>6
  <2> HIDE DEF o
  <2>. QED
    BY <1>5, <2>1, <2>2
<1>7. ASSUME LooksAt([look EXCEPT !.search = NoSearch, !.filter = "all"]) PROVE EditorInv'
  <2>1. [look EXCEPT !.search = NoSearch, !.filter = "all"] \in Look
    BY <1>1, CatalogAssumption DEF Look
  <2>. QED
    BY <1>2, <1>7, <2>1
<1>. QED
  BY <1>3, <1>4, <1>5, <1>6, <1>7 DEF Browse

\* A save, its answer, a reset, and fetches of the role.
LEMMA SavingStep ==
    ASSUME EditorInv,
           \/ savePerms \/ ResetSelection \/ PermsSaved \/ PermsRefused
           \/ FetchRole \/ RoleFetched \/ RoleFetchFails
    PROVE  EditorInv'
<1>0. EditorTypeOK /\ UnlistedKept /\ PayloadIsStored
  BY DEF EditorInv
<1>1. UNCHANGED look
  BY DEF savePerms, ResetSelection, PermsSaved, PermsRefused, FetchRole, RoleFetched, RoleFetchFails
<1>2. edits' \in 0..MaxEdits
  <2>1. edits' = edits \/ (edits < MaxEdits /\ edits' = edits + 1)
    BY DEF savePerms, ResetSelection, PermsSaved, PermsRefused, FetchRole, RoleFetched,
           RoleFetchFails, Edit
  <2>. QED
    BY <1>0, <2>1, EditsAreBounded DEF EditorTypeOK
<1>3. saving # None => saving \in SUBSET Held
  BY <1>0 DEF EditorTypeOK
<1>4. fetch # None => fetch \in SUBSET Held
  BY <1>0 DEF EditorTypeOK
<1>5. stored' \in SUBSET Held /\ payload' \in SUBSET Held /\ selected' \in SUBSET Held
  BY <1>0, <1>3, <1>4
     DEF EditorTypeOK, savePerms, ResetSelection, PermsSaved, PermsRefused, FetchRole,
         RoleFetched, RoleFetchFails
<1>6. saving' \in {None} \cup SUBSET Held /\ fetch' \in {None} \cup SUBSET Held
  BY <1>0, <1>5
     DEF EditorTypeOK, savePerms, ResetSelection, PermsSaved, PermsRefused, FetchRole,
         RoleFetched, RoleFetchFails
<1>7. stale' \in BOOLEAN /\ preset' \in BOOLEAN
  BY <1>0
     DEF EditorTypeOK, savePerms, ResetSelection, PermsSaved, PermsRefused, FetchRole,
         RoleFetched, RoleFetchFails
<1>8. EditorTypeOK'
  BY <1>0, <1>1, <1>2, <1>5, <1>6, <1>7 DEF EditorTypeOK
<1>9. UnlistedKept'
  BY <1>0
     DEF UnlistedKept, savePerms, ResetSelection, PermsSaved, PermsRefused, FetchRole,
         RoleFetched, RoleFetchFails
<1>10. PayloadIsStored'
  BY <1>0
     DEF PayloadIsStored, savePerms, ResetSelection, PermsSaved, PermsRefused, FetchRole,
         RoleFetched, RoleFetchFails
<1>. QED
  BY <1>8, <1>9, <1>10 DEF EditorInv

\* Every step of the editor.
LEMMA EditorSteps == EditorInv /\ [EditorNext]_editorVars => EditorInv'
<1> SUFFICES ASSUME EditorInv, [EditorNext]_editorVars PROVE EditorInv'
  OBVIOUS
<1>1. CASE UNCHANGED editorVars
  BY <1>1 DEF editorVars, EditorInv, EditorTypeOK, UnlistedKept, PayloadIsStored
<1>. QED
  BY <1>1, EditingStep, BrowseStep, SavingStep DEF EditorNext

\* The editor keeps what its rows do not show, and "All changes saved" is true, for every
\* catalog, grant and search, in every order of edits, saves, refusals and fetches.
THEOREM EditorTellsHolds == EditorSpec => []EditorTells
<1>1. EditorInv => EditorTells
  <2> SUFFICES ASSUME EditorInv, ~dirtyPerms, ~stale PROVE selected = stored
    BY DEF EditorInv, EditorTells, CleanMeansSaved
  <2>1. /\ selected \in SUBSET payload /\ Cardinality(selected) = Cardinality(payload)
        /\ payload \in SUBSET Held
    BY DEF dirtyPerms, EditorInv, EditorTypeOK
  <2>2. selected = payload
    BY <2>1, HeldIsFinite, FS_Subset
  <2>. QED
    BY <2>2 DEF EditorInv, PayloadIsStored
<1>. QED
  BY <1>1, EditorStarts, EditorSteps, PTL DEF EditorSpec

-----------------------------------------------------------------------------
(* The inactivity guard. *)

\* A guard just mounted has found the stamp young or made it so.
YoungAtMount == age < Idle + mounted \/ mounted = Warning

\* Only a guard that watches warns, and not over a stamp of its own that is young.
WarnsOfOld ==
    \A t \in Tabs : phase[t] = "warning" => tab[t] = "watching" /\ (writer = t => age >= Idle)

IdleInv == IdleTypeOK /\ YoungAtMount /\ WarnsOfOld

\* What the age of the stamp means.
LEMMA EvaluatesTo ==
    ASSUME NEW n \in Nat
    PROVE  /\ n >= Limit <=> evaluateInactivity(n) = "expired"
           /\ evaluateInactivity(n) = "warning" => n >= Idle
           /\ evaluateInactivity(n) = "active" => n < Idle
           /\ evaluateInactivity(n) \in {"active", "warning", "expired"}
<1>1. Limit \in Nat /\ Idle \in Nat
  BY IdleAssumption DEF Limit
<1>2. CASE n >= Limit
  BY <1>1, <1>2 DEF evaluateInactivity
<1>3. CASE ~(n >= Limit) /\ n >= Idle
  BY <1>1, <1>3 DEF evaluateInactivity
<1>4. CASE ~(n >= Limit) /\ ~(n >= Idle)
  BY <1>1, <1>4 DEF evaluateInactivity
<1>. QED
  BY <1>2, <1>3, <1>4

\* No session, and a stamp as old as can be.
LEMMA IdleStarts == IdleInit => IdleInv
<1> SUFFICES ASSUME IdleInit PROVE IdleInv
  OBVIOUS
<1>1. /\ Limit \in Nat /\ Limit \in 0..Limit /\ Warning \in 0..Warning /\ 0 \in 0..MaxSignals
  BY IdleAssumption DEF Limit
<1>2. IdleTypeOK
  BY <1>1 DEF IdleInit, IdleTypeOK
<1>3. YoungAtMount /\ WarnsOfOld
  BY DEF IdleInit, YoungAtMount, WarnsOfOld
<1>. QED
  BY <1>2, <1>3 DEF IdleInv

\* The clock.
LEMMA TimeStep ==
    ASSUME IdleInv, TimePasses
    PROVE  IdleInv'
<1>1. /\ age \in 0..Limit /\ mounted \in 0..Warning /\ Limit = Idle + Warning
      /\ Idle \in Nat \ {0} /\ Warning \in Nat \ {0}
  BY IdleAssumption DEF IdleInv, IdleTypeOK, Limit
<1>2. /\ age' = IF age + 1 < Limit THEN age + 1 ELSE Limit
      /\ mounted' = IF mounted + 1 < Warning THEN mounted + 1 ELSE Warning
      /\ UNCHANGED signedIn /\ UNCHANGED tab /\ UNCHANGED phase /\ UNCHANGED writer
      /\ UNCHANGED signals
  BY DEF TimePasses, SmallerOf
<1>3. age' \in 0..Limit /\ mounted' \in 0..Warning /\ age <= age'
  BY <1>1, <1>2
<1>4. YoungAtMount'
  BY <1>1, <1>2 DEF IdleInv, YoungAtMount
<1>5. WarnsOfOld'
  BY <1>1, <1>2, <1>3 DEF IdleInv, WarnsOfOld
<1>6. IdleTypeOK'
  BY <1>2, <1>3 DEF IdleInv, IdleTypeOK, Limit
<1>. QED
  BY <1>4, <1>5, <1>6 DEF IdleInv

\* What a tab does.
LEMMA TabStep ==
    ASSUME IdleInv, NEW t \in Tabs,
           \/ SignIn(t) \/ SignOut(t) \/ Hears(t) \/ Mount(t)
           \/ recordActivity(t) \/ dismiss(t) \/ evaluateNow(t) \/ Expires(t)
    PROVE  IdleInv'
<1>0. /\ IdleTypeOK /\ YoungAtMount /\ WarnsOfOld
      /\ Idle \in Nat \ {0} /\ Warning \in Nat \ {0} /\ Limit = Idle + Warning
      /\ age \in 0..Limit /\ mounted \in 0..Warning /\ MaxSignals \in Nat
  BY IdleAssumption DEF IdleInv, IdleTypeOK, Limit
<1>1. signals' \in 0..MaxSignals
  <2>1. signals' = signals \/ (signals < MaxSignals /\ signals' = signals + 1)
    BY DEF SignIn, SignOut, Hears, Mount, recordActivity, dismiss, evaluateNow, Expires, Signal
  <2>. QED
    BY <1>0, <2>1 DEF IdleTypeOK
<1>2. signedIn' \in BOOLEAN
  BY <1>0 DEF IdleTypeOK, SignIn, SignOut, Hears, Mount, recordActivity, dismiss, evaluateNow,
              Expires
<1> DEFINE TabKept == /\ tab' \in [Tabs -> {"out", "loading", "watching"}]
                      /\ phase' \in [Tabs -> {"active", "warning"}]
                      /\ age' \in 0..Limit /\ mounted' \in 0..Warning
                      /\ writer' \in Tabs \cup {Nobody}
                      /\ YoungAtMount' /\ WarnsOfOld'
<1>3. ASSUME SignIn(t) PROVE TabKept
  BY <1>0, <1>3 DEF SignIn, IdleTypeOK, YoungAtMount, WarnsOfOld
<1>4. ASSUME SignOut(t) PROVE TabKept
  BY <1>0, <1>4 DEF SignOut, Leaves, IdleTypeOK, YoungAtMount, WarnsOfOld
<1>5. ASSUME Hears(t) PROVE TabKept
  BY <1>0, <1>5 DEF Hears, Leaves, IdleTypeOK, YoungAtMount, WarnsOfOld
<1>6. ASSUME Mount(t) PROVE TabKept
  <2>1. /\ tab' = [tab EXCEPT ![t] = "watching"]
        /\ IF Stale THEN age' = 0 /\ writer' = t ELSE UNCHANGED <<age, writer>>
        /\ phase' = [phase EXCEPT ![t] = evaluateInactivity(age')]
        /\ mounted' = 0
    BY <1>6 DEF Mount
  <2>2. age' \in 0..Limit /\ age' < Idle /\ writer' \in Tabs \cup {Nobody}
        /\ (writer' = t \/ (writer' = writer /\ age' = age))
    BY <1>0, <2>1 DEF Stale, IdleTypeOK
  <2>3. evaluateInactivity(age') = "active"
    BY <1>0, <2>2 DEF evaluateInactivity
  <2>4. YoungAtMount'
    BY <1>0, <2>1, <2>2 DEF YoungAtMount
  <2>5. phase' = [phase EXCEPT ![t] = "active"]
    BY <2>1, <2>3
  <2>6. WarnsOfOld'
    BY <1>0, <2>1, <2>2, <2>5 DEF WarnsOfOld, IdleTypeOK
  <2>. QED
    BY <1>0, <2>1, <2>2, <2>4, <2>5, <2>6 DEF IdleTypeOK
<1>7. ASSUME recordActivity(t) PROVE TabKept
  BY <1>0, <1>7 DEF recordActivity, Records, IdleTypeOK, YoungAtMount, WarnsOfOld
<1>8. ASSUME dismiss(t) PROVE TabKept
  BY <1>0, <1>8 DEF dismiss, IdleTypeOK, YoungAtMount, WarnsOfOld
<1>9. ASSUME evaluateNow(t) PROVE TabKept
  <2>0. /\ tab[t] = "watching" /\ evaluateInactivity(age) # "expired"
        /\ phase' = [phase EXCEPT ![t] = evaluateInactivity(age)]
        /\ UNCHANGED tab /\ UNCHANGED age /\ UNCHANGED writer /\ UNCHANGED mounted
    BY <1>9 DEF evaluateNow, Expired
  <2>1. age < Limit
    BY <1>0, <2>0, EvaluatesTo
  <2>2. /\ evaluateInactivity(age) \in {"active", "warning"}
        /\ (evaluateInactivity(age) = "warning" => age >= Idle)
    BY <1>0, <2>1 DEF evaluateInactivity
  <2>3. WarnsOfOld'
    BY <1>0, <2>0, <2>2 DEF WarnsOfOld, IdleTypeOK
  <2>. QED
    BY <1>0, <2>0, <2>2, <2>3 DEF IdleTypeOK, YoungAtMount
<1>10. ASSUME Expires(t) PROVE TabKept
  BY <1>0, <1>10 DEF Expires, Leaves, IdleTypeOK, YoungAtMount, WarnsOfOld
<1>11. TabKept
  BY <1>3, <1>4, <1>5, <1>6, <1>7, <1>8, <1>9, <1>10
<1>. QED
  BY <1>1, <1>2, <1>11 DEF IdleInv, IdleTypeOK

\* Every step of the guard.
LEMMA IdleSteps == IdleInv /\ [IdleNext]_idleVars => IdleInv'
<1> SUFFICES ASSUME IdleInv, [IdleNext]_idleVars PROVE IdleInv'
  OBVIOUS
<1>1. CASE UNCHANGED idleVars
  BY <1>1 DEF idleVars, IdleInv, IdleTypeOK, YoungAtMount, WarnsOfOld
<1>. QED
  BY <1>1, TimeStep, TabStep DEF IdleNext

\* A tab that signs the user out has had a mounted guard for a whole warning.
LEMMA GraceStep == IdleInv => ((\E t \in Tabs : Expires(t)) => mounted >= Warning)
<1> SUFFICES ASSUME IdleInv, NEW t \in Tabs, Expires(t) PROVE mounted >= Warning
  OBVIOUS
<1>1. /\ age \in 0..Limit /\ mounted \in 0..Warning /\ Limit = Idle + Warning
      /\ Idle \in Nat \ {0} /\ Warning \in Nat \ {0}
  BY IdleAssumption DEF IdleInv, IdleTypeOK, Limit
<1>2. age >= Limit
  BY <1>1 DEF Expires, Expired, evaluateInactivity
<1>. QED
  BY <1>1, <1>2 DEF IdleInv, YoungAtMount

\* A warning is not taken away by the tab's own mouse.
LEMMA WarningStep ==
    ASSUME IdleInv, IdleNext, NEW t \in Tabs, phase[t] = "warning", phase'[t] = "active"
    PROVE  dismiss(t) \/ tab'[t] = "out" \/ writer # t
<1>0. /\ tab[t] = "watching" /\ (writer = t => age >= Idle)
      /\ Idle \in Nat \ {0} /\ age \in 0..Limit /\ phase \in [Tabs -> {"active", "warning"}]
      /\ tab \in [Tabs -> {"out", "loading", "watching"}]
  BY IdleAssumption DEF IdleInv, IdleTypeOK, WarnsOfOld
<1>1. ~TimePasses
  BY DEF TimePasses
<1>2. PICK u \in Tabs : \/ SignIn(u) \/ SignOut(u) \/ Hears(u) \/ Mount(u)
                        \/ recordActivity(u) \/ dismiss(u) \/ evaluateNow(u) \/ Expires(u)
  BY <1>1 DEF IdleNext
<1>3. u = t
  BY <1>0, <1>2 DEF SignIn, SignOut, Hears, Mount, recordActivity, dismiss, evaluateNow, Expires,
                    Leaves
<1>4. CASE SignOut(t) \/ Hears(t) \/ Expires(t)
  BY <1>0, <1>4 DEF SignOut, Hears, Expires, Leaves
<1>5. CASE SignIn(t) \/ recordActivity(t) \/ Mount(t)
  BY <1>0, <1>5 DEF SignIn, recordActivity, Records, Mount
<1>6. CASE evaluateNow(t)
  <2>1. evaluateInactivity(age) = "active"
    BY <1>0, <1>6 DEF evaluateNow
  <2>2. age < Idle
    BY <1>0, <2>1 DEF evaluateInactivity
  <2>. QED
    BY <1>0, <2>2
<1>. QED
  BY <1>2, <1>3, <1>4, <1>5, <1>6

\* A fresh sign-in is not signed straight back out, in any tab, and a warning on screen is
\* only taken away by an answer, the end of the session or activity elsewhere, for any
\* number of tabs and any two limits (use-inactivity-timeout.ts).
THEOREM GuardIsFair == IdleSpec => GraceAfterMount /\ WarningHolds
<1>1. IdleInv /\ [IdleNext]_idleVars => [(\E t \in Tabs : Expires(t)) => mounted >= Warning]_idleVars
  BY GraceStep
<1>2. IdleInv /\ [IdleNext]_idleVars =>
        [\A t \in Tabs :
           phase[t] = "warning" /\ phase'[t] = "active" =>
               dismiss(t) \/ tab'[t] = "out" \/ writer # t]_idleVars
  BY WarningStep
<1>. QED
  BY <1>1, <1>2, IdleStarts, IdleSteps, PTL DEF IdleSpec, GraceAfterMount, WarningHolds

-----------------------------------------------------------------------------
(* The pages over the query cache. *)

Entry == [data : Nat, flight : Nat, invalid : BOOLEAN, failed : BOOLEAN, outrun : BOOLEAN]

\* A query whose server holds version s, where version w was acknowledged.  A fetch that
\* nothing overtook was sent after w, and so was what an unmarked query holds.
Keeps(q, s, w) ==
    /\ q \in Entry /\ s \in Nat \ {0} /\ w \in Nat
    /\ q.data <= s /\ q.flight <= s /\ w <= s
    /\ q.flight # 0 /\ ~q.outrun => q.flight >= w
    /\ q.flight = 0 /\ ~q.failed /\ ~q.outrun /\ q.data # 0 /\ ~q.invalid => q.data >= w

\* A query on screen is being fetched, has failed, or holds something not marked.
Ready(q) == q.flight = 0 /\ ~q.failed => q.data # 0 /\ ~q.invalid

AreaFits == area.name \in DOMAIN Areas /\ area.pages = Areas[area.name]

PlaceFits == page \in DOMAIN Pages /\ view \in DOMAIN Pages[page].views

CacheFits ==
    /\ Keys = KeysOf[area.name]
    /\ DOMAIN cache = Keys /\ DOMAIN wrote = Keys
    /\ \A k \in Keys : Keeps(cache[k], server[k], wrote[k])

ScreenFits == \A k \in Shown : Ready(cache[k])

SpentFits == spent \in [moves : Nat, visits : Nat, requests : Nat, troubles : Nat]

TaskNames == UNION {DOMAIN Pages[p].tasks : p \in DOMAIN Pages}

Request == [id : Nat, visit : Nat, page : DOMAIN Pages, task : TaskNames, step : Nat,
            state : {"sent", "applied", "conflict", "failed"}, etag : Nat]

\* A request is a call of a task, and of this visit only if it was submitted from this page;
\* under an etag it was sent from a form that is filled.
RequestFits(r) ==
    /\ r \in Request
    /\ r.task \in DOMAIN Pages[r.page].tasks /\ r.step \in 1..Len(TaskOf(r).calls)
    /\ r.visit <= Visit
    /\ r.visit = Visit => r.page = page /\ (TaskOf(r).guarded => draft.base # 0)
    /\ r.state = "conflict" => TaskOf(r).guarded

RequestsFit == \A r \in requests : RequestFits(r)

\* The form is filled when its query is, and edited only then.
DraftFits ==
    /\ draft \in [base : Nat, edits : {"none", "staged", "sent", "conflict"}]
    /\ draft.base # 0 <=> ThisForm.of \in Keys /\ cache[ThisForm.of].data # 0
    /\ draft.edits # "none" => draft.base # 0

Runs == [mount : Nat, stage : {"mint", "put", "finalize", "listed", "over"}]

DropzoneFits ==
    /\ uploads \in Seq(Runs)
    /\ dropzone \in [mount : Nat, status : Busy \cup {"none", "error"},
                     xhr : {NoXhr} \cup DOMAIN uploads]

PagesInv ==
    /\ AreaFits /\ PlaceFits /\ CacheFits /\ ScreenFits /\ SpentFits /\ RequestsFit
    /\ DraftFits /\ OneRequestPerButton
UploadsInv == DropzoneFits /\ BusyMeansUploading

-----------------------------------------------------------------------------
(* One query. *)

\* What a query is made of.
LEMMA EntryParts ==
    ASSUME NEW q, NEW s, NEW w, Keeps(q, s, w)
    PROVE  /\ q \in Entry /\ q.data \in Nat /\ q.flight \in Nat
           /\ q.invalid \in BOOLEAN /\ q.failed \in BOOLEAN /\ q.outrun \in BOOLEAN
           /\ s \in Nat /\ w \in Nat
BY DEF Keeps, Entry

\* Fetched now, it is as late as what is acknowledged now.
LEMMA FetchKeeps ==
    ASSUME NEW q, NEW s, NEW w, Keeps(q, s, w)
    PROVE  /\ Keeps(Fetching(q, s), s, w) /\ Keeps(Fetching(q, s), s, s)
           /\ Ready(Fetching(q, s)) /\ Fetching(q, s).data = q.data
<1>0. /\ q \in Entry /\ q.data \in Nat /\ q.flight \in Nat
      /\ q.invalid \in BOOLEAN /\ q.failed \in BOOLEAN /\ q.outrun \in BOOLEAN
      /\ s \in Nat /\ w \in Nat
  BY EntryParts
<1> DEFINE e == Fetching(q, s)
<1>1. /\ e \in Entry /\ e.data = q.data /\ e.flight = s /\ e.invalid = q.invalid
      /\ e.failed = FALSE /\ e.outrun = FALSE
  BY <1>0 DEF Fetching, Entry
<1>. HIDE DEF e
<1>2. Keeps(e, s, w) /\ Keeps(e, s, s) /\ Ready(e)
  BY <1>1, <1>0 DEF Keeps, Ready
<1>. QED
  BY <1>1, <1>2 DEF e

\* Invalidated, it is late enough for what was acknowledged with it.
LEMMA InvalidateKeeps ==
    ASSUME NEW q, NEW s, NEW w, Keeps(q, s, w), NEW active \in BOOLEAN
    PROVE  /\ Keeps(Invalidated(q, s, active), s, w) /\ Keeps(Invalidated(q, s, active), s, s)
           /\ active /\ Ready(q) => Ready(Invalidated(q, s, active))
           /\ Invalidated(q, s, active).data = q.data
<1>0. /\ q \in Entry /\ q.data \in Nat /\ q.flight \in Nat
      /\ q.invalid \in BOOLEAN /\ q.failed \in BOOLEAN /\ q.outrun \in BOOLEAN
      /\ s \in Nat /\ w \in Nat
  BY EntryParts
<1> DEFINE e == Invalidated(q, s, active)
<1>1. CASE ~Exists(q)
  <2>1. e = q
    BY <1>1 DEF Invalidated
  <2>. HIDE DEF e
  <2>2. Keeps(e, s, w) /\ Keeps(e, s, s) /\ (Ready(q) => Ready(e)) /\ e.data = q.data
    BY <1>1, <2>1, <1>0 DEF Exists, Keeps, Ready
  <2>. QED
    BY <2>2 DEF e
<1>2. CASE Exists(q) /\ (~active \/ (q.flight # 0 /\ q.data = 0))
  <2>1. e = [q EXCEPT !.invalid = TRUE, !.outrun = q.flight # 0]
    BY <1>2 DEF Invalidated
  <2>2. (q.flight # 0) \in BOOLEAN
    OBVIOUS
  <2>3. /\ e \in Entry /\ e.data = q.data /\ e.flight = q.flight /\ e.invalid = TRUE
        /\ e.failed = q.failed /\ (e.outrun <=> q.flight # 0)
    BY <2>1, <2>2, <1>0 DEF Entry
  <2>. HIDE DEF e
  <2>4. Keeps(e, s, w) /\ Keeps(e, s, s) /\ (active /\ Ready(q) => Ready(e))
    BY <1>2, <2>3, <1>0 DEF Keeps, Ready
  <2>. QED
    BY <2>3, <2>4 DEF e
<1>3. CASE Exists(q) /\ ~(~active \/ (q.flight # 0 /\ q.data = 0))
  <2> DEFINE f == Fetching(q, s)
  <2>1. e = [f EXCEPT !.invalid = TRUE]
    BY <1>3 DEF Invalidated
  <2>2. /\ f \in Entry /\ f.data = q.data /\ f.flight = s /\ f.failed = FALSE /\ f.outrun = FALSE
    BY <1>0 DEF Fetching, Entry
  <2>. HIDE DEF f
  <2>3. /\ e \in Entry /\ e.data = q.data /\ e.flight = s /\ e.invalid = TRUE
        /\ e.failed = FALSE /\ e.outrun = FALSE
    BY <2>1, <2>2 DEF Entry
  <2>. HIDE DEF e
  <2>4. Keeps(e, s, w) /\ Keeps(e, s, s) /\ Ready(e)
    BY <2>3, <1>0 DEF Keeps, Ready
  <2>. QED
    BY <2>3, <2>4 DEF e
<1>. QED
  BY <1>1, <1>2, <1>3

\* Set to what the server has: it holds every version there was.
LEMMA SetKeeps ==
    ASSUME NEW q, NEW s, NEW w, Keeps(q, s, w)
    PROVE  /\ Keeps([q EXCEPT !.data = s, !.outrun = q.flight # 0], s, w)
           /\ Keeps([q EXCEPT !.data = s, !.outrun = q.flight # 0], s, s)
           /\ Ready(q) => Ready([q EXCEPT !.data = s, !.outrun = q.flight # 0])
<1>0. /\ q \in Entry /\ q.data \in Nat /\ q.flight \in Nat
      /\ q.invalid \in BOOLEAN /\ q.failed \in BOOLEAN /\ q.outrun \in BOOLEAN
      /\ s \in Nat /\ w \in Nat
  BY EntryParts
<1> DEFINE e == [q EXCEPT !.data = s, !.outrun = q.flight # 0]
<1>1. (q.flight # 0) \in BOOLEAN
  OBVIOUS
<1>2. /\ e \in Entry /\ e.data = s /\ e.flight = q.flight /\ e.invalid = q.invalid
      /\ e.failed = q.failed /\ (e.outrun <=> q.flight # 0)
  BY <1>1, <1>0 DEF Entry
<1>. HIDE DEF e
<1>3. Keeps(e, s, w) /\ Keeps(e, s, s) /\ (Ready(q) => Ready(e))
  BY <1>2, <1>0 DEF Keeps, Ready
<1>. QED
  BY <1>3 DEF e

\* The row of a list stands in for a query that does not exist.
LEMMA GiveKeeps ==
    ASSUME NEW q, NEW s, NEW w, Keeps(q, s, w), ~Exists(q)
    PROVE  Keeps([q EXCEPT !.data = s], s, w) /\ ~Ready(q)
<1>0. /\ q \in Entry /\ q.data \in Nat /\ q.flight \in Nat
      /\ q.invalid \in BOOLEAN /\ q.failed \in BOOLEAN /\ q.outrun \in BOOLEAN
      /\ s \in Nat /\ w \in Nat
  BY EntryParts
<1> DEFINE e == [q EXCEPT !.data = s]
<1>1. /\ e \in Entry /\ e.data = s /\ e.flight = q.flight /\ e.invalid = q.invalid
      /\ e.failed = q.failed /\ e.outrun = q.outrun
  BY <1>0 DEF Entry
<1>. HIDE DEF e
<1>2. Keeps(e, s, w) /\ ~Ready(q)
  BY <1>1, <1>0 DEF Keeps, Ready, Exists
<1>. QED
  BY <1>2 DEF e

\* Answered or failed.
LEMMA ArriveKeeps ==
    ASSUME NEW q, NEW s, NEW w, Keeps(q, s, w), q.flight # 0, NEW v \in q.flight .. s
    PROVE  /\ Keeps([q EXCEPT !.data = v, !.flight = 0, !.invalid = FALSE], s, w)
           /\ Ready([q EXCEPT !.data = v, !.flight = 0, !.invalid = FALSE])
           /\ v \in Nat /\ v # 0
           /\ [q EXCEPT !.data = v, !.flight = 0, !.invalid = FALSE].data = v
<1>0. /\ q \in Entry /\ q.data \in Nat /\ q.flight \in Nat
      /\ q.invalid \in BOOLEAN /\ q.failed \in BOOLEAN /\ q.outrun \in BOOLEAN
      /\ s \in Nat /\ w \in Nat
  BY EntryParts
<1> DEFINE e == [q EXCEPT !.data = v, !.flight = 0, !.invalid = FALSE]
<1>1. v \in Nat /\ v # 0 /\ v >= q.flight /\ v <= s
  BY <1>0
<1>2. /\ e \in Entry /\ e.data = v /\ e.flight = 0 /\ e.invalid = FALSE
      /\ e.failed = q.failed /\ e.outrun = q.outrun
  BY <1>1, <1>0 DEF Entry
<1>. HIDE DEF e
<1>3. Keeps(e, s, w) /\ Ready(e)
  BY <1>1, <1>2, <1>0 DEF Keeps, Ready
<1>. QED
  BY <1>1, <1>2, <1>3 DEF e

LEMMA FailKeeps ==
    ASSUME NEW q, NEW s, NEW w, Keeps(q, s, w)
    PROVE  /\ Keeps([q EXCEPT !.flight = 0, !.invalid = TRUE, !.failed = TRUE], s, w)
           /\ Ready([q EXCEPT !.flight = 0, !.invalid = TRUE, !.failed = TRUE])
           /\ [q EXCEPT !.flight = 0, !.invalid = TRUE, !.failed = TRUE].data = q.data
<1>0. /\ q \in Entry /\ q.data \in Nat /\ q.flight \in Nat
      /\ q.invalid \in BOOLEAN /\ q.failed \in BOOLEAN /\ q.outrun \in BOOLEAN
      /\ s \in Nat /\ w \in Nat
  BY EntryParts
<1> DEFINE e == [q EXCEPT !.flight = 0, !.invalid = TRUE, !.failed = TRUE]
<1>1. /\ e \in Entry /\ e.data = q.data /\ e.flight = 0 /\ e.invalid = TRUE
      /\ e.failed = TRUE /\ e.outrun = q.outrun
  BY <1>0 DEF Entry
<1>. HIDE DEF e
<1>2. Keeps(e, s, w) /\ Ready(e)
  BY <1>1, <1>0 DEF Keeps, Ready
<1>. QED
  BY <1>1, <1>2 DEF e

\* The server's version grows.
LEMMA ServerGrows ==
    ASSUME NEW q, NEW s, NEW w, Keeps(q, s, w)
    PROVE  Keeps(q, s + 1, w)
<1>0. /\ q \in Entry /\ q.data \in Nat /\ q.flight \in Nat
      /\ q.invalid \in BOOLEAN /\ q.failed \in BOOLEAN /\ q.outrun \in BOOLEAN
      /\ s \in Nat /\ w \in Nat
  BY EntryParts
<1>. QED
  BY <1>0 DEF Keeps

-----------------------------------------------------------------------------
(* The cache. *)

\* Every query of a cache c keeps what w says was acknowledged, and those on screen are ready.
Fits(c, w) ==
    /\ DOMAIN c = Keys
    /\ \A k \in Keys : Keeps(c[k], server[k], w[k])
    /\ \A k \in Shown : Ready(c[k])

\* What is invalidated keeps also what is acknowledged now.
LEMMA InvalidatingKeeps ==
    ASSUME NEW c, NEW w, Fits(c, w), NEW prefixes
    PROVE  /\ Fits(Invalidating(c, prefixes), w)
           /\ \A k \in Keys : Invalidating(c, prefixes)[k].data = c[k].data
           /\ \A k \in Keys : (\E p \in prefixes : IsPrefix(p, k)) =>
                                Keeps(Invalidating(c, prefixes)[k], server[k], server[k])
           /\ \A k \in Keys : Keeps(c[k], server[k], server[k]) =>
                                Keeps(Invalidating(c, prefixes)[k], server[k], server[k])
<1> DEFINE d == Invalidating(c, prefixes)
<1>1. DOMAIN d = Keys
  BY DEF Invalidating, Fits
<1>2. ASSUME NEW k \in Keys
      PROVE  d[k] = c[k] \/ d[k] = Invalidated(c[k], server[k], k \in Shown)
  BY DEF Invalidating, Fits
<1>3. ASSUME NEW k \in Keys, \E p \in prefixes : IsPrefix(p, k)
      PROVE  d[k] = Invalidated(c[k], server[k], k \in Shown)
  BY <1>3 DEF Invalidating, Fits
<1>4. ASSUME NEW k \in Keys, NEW v, Keeps(c[k], server[k], v)
      PROVE  Keeps(d[k], server[k], v)
  <2>1. (k \in Shown) \in BOOLEAN
    OBVIOUS
  <2>2. Keeps(Invalidated(c[k], server[k], k \in Shown), server[k], v)
    BY <1>4, <2>1, InvalidateKeeps, Zenon
  <2>. QED
    BY <1>2, <1>4, <2>2
<1>5. ASSUME NEW k \in Shown
      PROVE  Ready(d[k])
  <2>1. k \in Keys /\ Keeps(c[k], server[k], w[k]) /\ Ready(c[k])
    BY DEF Fits, Shown, Mounted
  <2>2. (k \in Shown) \in BOOLEAN
    OBVIOUS
  <2>3. Ready(Invalidated(c[k], server[k], k \in Shown))
    BY <2>1, <2>2, InvalidateKeeps, Zenon
  <2>. QED
    BY <1>2, <2>1, <2>3
<1>6. ASSUME NEW k \in Keys
      PROVE  /\ Keeps(d[k], server[k], w[k]) /\ d[k].data = c[k].data
             /\ (\E p \in prefixes : IsPrefix(p, k)) => Keeps(d[k], server[k], server[k])
  <2>1. Keeps(c[k], server[k], w[k])
    BY DEF Fits
  <2>2. (k \in Shown) \in BOOLEAN
    OBVIOUS
  <2>3. /\ Keeps(Invalidated(c[k], server[k], k \in Shown), server[k], server[k])
        /\ Invalidated(c[k], server[k], k \in Shown).data = c[k].data
    BY <2>1, <2>2, InvalidateKeeps, Zenon
  <2>. QED
    BY <1>2, <1>3, <1>4, <2>1, <2>3
<1>. HIDE DEF d
<1>7. Fits(d, w)
  BY <1>1, <1>5, <1>6 DEF Fits
<1>. QED
  BY <1>4, <1>6, <1>7 DEF d

LEMMA SettingKeeps ==
    ASSUME NEW c, NEW w, Fits(c, w), NEW ks
    PROVE  /\ Fits(Setting(c, ks), w)
           /\ \A k \in Keys \cap ks : Keeps(Setting(c, ks)[k], server[k], server[k])
           /\ \A k \in Keys \ ks : Setting(c, ks)[k].data = c[k].data
<1> DEFINE d == Setting(c, ks)
<1>1. /\ DOMAIN d = Keys
      /\ \A k \in Keys \cap ks : d[k] = [c[k] EXCEPT !.data = server[k], !.outrun = c[k].flight # 0]
      /\ \A k \in Keys \ ks : d[k] = c[k]
  BY DEF Setting, Fits
<1>2. Shown \subseteq Keys
  BY DEF Shown, Mounted
<1>3. ASSUME NEW k \in Keys
      PROVE  /\ Keeps(d[k], server[k], w[k])
             /\ k \in ks => Keeps(d[k], server[k], server[k])
             /\ k \in Shown => Ready(d[k])
  <2>1. Keeps(c[k], server[k], w[k]) /\ (k \in Shown => Ready(c[k]))
    BY DEF Fits
  <2>2. CASE k \in ks
    <3>1. d[k] = [c[k] EXCEPT !.data = server[k], !.outrun = c[k].flight # 0]
      BY <1>1, <2>2
    <3> DEFINE e == [c[k] EXCEPT !.data = server[k], !.outrun = c[k].flight # 0]
    <3>2. Keeps(e, server[k], w[k]) /\ Keeps(e, server[k], server[k]) /\ (Ready(c[k]) => Ready(e))
      BY <2>1, SetKeeps, Zenon
    <3>. HIDE DEF e
    <3>3. d[k] = e
      BY <3>1 DEF e
    <3>. QED
      BY <2>1, <3>2, <3>3
  <2>3. CASE k \notin ks
    <3>1. d[k] = c[k]
      BY <1>1, <2>3
    <3>. QED
      BY <2>1, <2>3, <3>1
  <2>. QED
    BY <2>2, <2>3
<1>. HIDE DEF d
<1>4. Fits(d, w)
  BY <1>1, <1>2, <1>3 DEF Fits
<1>. QED
  BY <1>1, <1>3, <1>4 DEF d

\* What is fetched again keeps also what is acknowledged now.
LEMMA RefetchedKeeps ==
    ASSUME NEW c, NEW w, Fits(c, w), NEW ks
    PROVE  /\ Fits(Refetched(c, ks), w)
           /\ \A k \in Keys : Refetched(c, ks)[k].data = c[k].data
           /\ \A k \in Keys \cap ks : Keeps(Refetched(c, ks)[k], server[k], server[k])
           /\ \A k \in Keys : Keeps(c[k], server[k], server[k]) =>
                                Keeps(Refetched(c, ks)[k], server[k], server[k])
<1> DEFINE d == Refetched(c, ks)
<1>1. /\ DOMAIN d = Keys
      /\ \A k \in Keys : \/ k \notin ks /\ d[k] = c[k]
                         \/ k \in ks /\ (\/ d[k] = Fetching(c[k], server[k])
                                         \/ /\ c[k].flight # 0
                                            /\ d[k] = [c[k] EXCEPT !.outrun = TRUE])
  BY DEF Refetched, Fits
<1>2. Shown \subseteq Keys
  BY DEF Shown, Mounted
<1>3. ASSUME NEW k \in Keys, NEW v, Keeps(c[k], server[k], v)
      PROVE  /\ Keeps(d[k], server[k], v) /\ d[k].data = c[k].data
             /\ k \in ks => Keeps(d[k], server[k], server[k])
             /\ Ready(c[k]) => Ready(d[k])
  <2>1. CASE k \notin ks
    BY <1>1, <1>3, <2>1
  <2>2. CASE d[k] = Fetching(c[k], server[k])
    BY <1>3, <2>2, FetchKeeps, Zenon
  <2>3. CASE k \in ks /\ c[k].flight # 0 /\ d[k] = [c[k] EXCEPT !.outrun = TRUE]
    <3> DEFINE e == [c[k] EXCEPT !.outrun = TRUE]
    <3>0. /\ c[k] \in Entry /\ c[k].data \in Nat /\ c[k].flight \in Nat
          /\ c[k].invalid \in BOOLEAN /\ c[k].failed \in BOOLEAN /\ c[k].outrun \in BOOLEAN
          /\ server[k] \in Nat /\ v \in Nat
      BY <1>3, EntryParts
    <3>1. /\ e \in Entry /\ e.data = c[k].data /\ e.flight = c[k].flight
          /\ e.invalid = c[k].invalid /\ e.failed = c[k].failed /\ e.outrun = TRUE
      BY <3>0 DEF Entry
    <3>2. d[k] = e
      BY <2>3
    <3>. HIDE DEF e
    <3>3. Keeps(e, server[k], v) /\ Keeps(e, server[k], server[k]) /\ Ready(e)
      BY <1>3, <2>3, <3>0, <3>1 DEF Keeps, Ready
    <3>. QED
      BY <3>1, <3>2, <3>3
  <2>. QED
    BY <1>1, <2>1, <2>2, <2>3
<1>4. ASSUME NEW k \in Keys
      PROVE  Keeps(c[k], server[k], w[k]) /\ (k \in Shown => Ready(c[k]))
  BY DEF Fits
<1>. HIDE DEF d
<1>5. Fits(d, w)
  BY <1>1, <1>2, <1>3, <1>4 DEF Fits
<1>. QED
  BY <1>3, <1>4, <1>5 DEF d

\* What onSuccess does keeps what it acknowledges, where it covers it.
LEMMA TellingKeeps ==
    ASSUME NEW c, NEW w, Fits(c, w), NEW call, NEW again
    PROVE  /\ Fits(Told(c, call, again), w)
           /\ \A k \in Keys : (k \in call.sets \cup again \/ \E x \in call.refreshes : IsPrefix(x, k)) =>
                                Keeps(Told(c, call, again)[k], server[k], server[k])
           /\ \A k \in Keys \ call.sets : Told(c, call, again)[k].data = c[k].data
<1> DEFINE d == Setting(c, call.sets)
           e == Invalidating(d, call.refreshes)
<1>1. /\ Fits(d, w)
      /\ \A k \in Keys \cap call.sets : Keeps(d[k], server[k], server[k])
      /\ \A k \in Keys \ call.sets : d[k].data = c[k].data
  BY SettingKeeps
<1>. HIDE DEF d
<1>2. /\ Fits(e, w)
      /\ \A k \in Keys : e[k].data = d[k].data
      /\ \A k \in Keys : (\E x \in call.refreshes : IsPrefix(x, k)) => Keeps(e[k], server[k], server[k])
      /\ \A k \in Keys : Keeps(d[k], server[k], server[k]) => Keeps(e[k], server[k], server[k])
  BY <1>1, InvalidatingKeeps
<1>3. Told(c, call, again) = Refetched(e, again)
  BY DEF Told, d
<1>. HIDE DEF e
<1>. QED
  BY <1>1, <1>2, <1>3, RefetchedKeeps

\* A page or a dialog comes on screen.
LEMMA GoToKeeps ==
    ASSUME NEW c, NEW w, Fits(c, w), NEW p \in DOMAIN Pages, NEW v \in DOMAIN Pages[p].views,
           GoTo(p, v, c), UNCHANGED <<area, server>>
    PROVE  /\ page' = p /\ view' = v /\ PlaceFits'
           /\ DOMAIN cache' = Keys
           /\ \A k \in Keys : Keeps(cache'[k], server[k], w[k])
           /\ ScreenFits'
           /\ \A k \in Keys \ DOMAIN Pages[p].given : cache'[k].data = c[k].data
<1> DEFINE given == DOMAIN Pages[p].given \cap Mounted(p, v)
           new == Mounted(p, v) \ Shown
           d == Giving(c, given)
<1>1. page' = p /\ view' = v /\ cache' = Mounting(d, new)
  BY DEF GoTo
<1>2. Shown' = Mounted(p, v) /\ Pages' = Pages /\ Keys' = Keys
  BY <1>1 DEF Shown, Mounted, Pages, Keys
<1>3. /\ DOMAIN d = Keys
      /\ \A k \in Keys : d[k] = c[k] \/ (k \in given /\ ~Exists(c[k]) /\ d[k] = [c[k] EXCEPT !.data = server[k]])
  BY DEF Giving, Fits
<1>4. Shown \subseteq Keys /\ given \subseteq DOMAIN Pages[p].given
  BY DEF Shown, Mounted
<1>5. Fits(d, w)
  <2>1. ASSUME NEW k \in Keys
        PROVE  Keeps(d[k], server[k], w[k]) /\ (Ready(c[k]) => Ready(d[k]))
    <3>1. Keeps(c[k], server[k], w[k])
      BY DEF Fits
    <3>2. CASE d[k] = c[k]
      BY <3>1, <3>2
    <3>3. CASE ~Exists(c[k]) /\ d[k] = [c[k] EXCEPT !.data = server[k]]
      <4> DEFINE e == [c[k] EXCEPT !.data = server[k]]
      <4>1. Keeps(e, server[k], w[k]) /\ ~Ready(c[k])
        BY <3>1, <3>3, GiveKeeps, Zenon
      <4>2. d[k] = e
        BY <3>3
      <4>. HIDE DEF e
      <4>. QED
        BY <4>1, <4>2
    <3>. QED
      BY <1>3, <3>2, <3>3
  <2>. QED
    BY <1>3, <1>4, <2>1 DEF Fits
<1>6. \A k \in Keys \ DOMAIN Pages[p].given : d[k].data = c[k].data
  BY <1>3, <1>4
<1>. HIDE DEF d, new, given
<1>7. /\ DOMAIN cache' = Keys
      /\ \A k \in Keys :
           \/ cache'[k] = Fetching(d[k], server[k])
           \/ /\ cache'[k] = d[k]
              /\ k \in new /\ d[k].flight = 0 => d[k].data # 0 /\ ~d[k].invalid
  BY <1>1, <1>5 DEF Mounting, Fits
<1>8. ASSUME NEW k \in Keys
      PROVE  Keeps(cache'[k], server[k], w[k]) /\ cache'[k].data = d[k].data
  <2>1. Keeps(d[k], server[k], w[k])
    BY <1>5 DEF Fits
  <2>2. CASE cache'[k] = Fetching(d[k], server[k])
    BY <2>1, <2>2, FetchKeeps, Zenon
  <2>3. CASE cache'[k] = d[k]
    BY <2>1, <2>3
  <2>. QED
    BY <1>7, <2>2, <2>3
<1>9. ASSUME NEW k \in Mounted(p, v)
      PROVE  Ready(cache'[k])
  <2>1. k \in Keys /\ Keeps(d[k], server[k], w[k])
    BY <1>5 DEF Fits, Mounted
  <2>2. CASE cache'[k] = Fetching(d[k], server[k])
    BY <2>1, <2>2, FetchKeeps, Zenon
  <2>3. CASE cache'[k] # Fetching(d[k], server[k])
    <3>1. cache'[k] = d[k] /\ (k \in new /\ d[k].flight = 0 => d[k].data # 0 /\ ~d[k].invalid)
      BY <1>7, <2>1, <2>3
    <3>2. CASE k \in Shown
      BY <1>5, <3>1, <3>2 DEF Fits
    <3>3. CASE k \notin Shown
      BY <3>1, <3>3 DEF new, Ready
    <3>. QED
      BY <3>2, <3>3
  <2>. QED
    BY <2>2, <2>3
<1>10. PlaceFits'
  BY <1>1, <1>2 DEF PlaceFits
<1>11. ScreenFits'
  BY <1>2, <1>9 DEF ScreenFits
<1>. QED
  BY <1>1, <1>6, <1>7, <1>8, <1>10, <1>11
-----------------------------------------------------------------------------
(* The steps of a page. *)

Still == UNCHANGED <<area, server>>

\* What the tables promise of a page, of a task, and of a call of a request.
Forms == {Pages[q].form.of : q \in DOMAIN Pages}

LEMMA PageTable ==
    ASSUME AreaFits, CacheFits, NEW p \in DOMAIN Pages
    PROVE  /\ "page" \in DOMAIN Pages[p].views
           /\ Pages[p].form.discards => Pages[p].form.of \in Keys
           /\ Pages[p].form.of \notin DOMAIN Pages[p].given
           /\ \A t \in DOMAIN Pages[p].tasks : TaskFits(Pages[p], Pages[p].tasks[t], Keys, Forms)
<1>1. Pages = Areas[area.name] /\ area.name \in DOMAIN Areas /\ Keys = KeysOf[area.name]
  BY DEF AreaFits, CacheFits, Pages
<1>. QED
  BY <1>1, TablesAssumption DEF Forms

LEMMA CallTable ==
    ASSUME AreaFits, CacheFits, NEW r, RequestFits(r)
    PROVE  /\ TaskOf(r).guarded => Pages[r.page].form.of \in Keys
           /\ r.step # Len(TaskOf(r).calls) => r.step + 1 \in 1..Len(TaskOf(r).calls)
           /\ Covers(CallOf(r), Keys) /\ CallOf(r).sets \cap Forms = {}
<1>1. r.page \in DOMAIN Pages /\ r.task \in DOMAIN Pages[r.page].tasks
  BY DEF RequestFits, Request
<1>2. TaskFits(Pages[r.page], TaskOf(r), Keys, Forms)
  BY <1>1, PageTable DEF TaskOf
<1>3. /\ TaskOf(r).guarded => Pages[r.page].form.of \in Keys
      /\ Len(TaskOf(r).calls) \in Nat
      /\ r.step \in 1..Len(TaskOf(r).calls)
      /\ \A n \in 1..Len(TaskOf(r).calls) :
           Covers(TaskOf(r).calls[n], Keys) /\ TaskOf(r).calls[n].sets \cap Forms = {}
  BY <1>2 DEF TaskFits, RequestFits
<1>. QED
  BY <1>3 DEF CallOf

\* The cache of a state that fits, and back.
LEMMA CacheParts ==
    CacheFits /\ ScreenFits => Fits(cache, wrote)
BY DEF CacheFits, ScreenFits, Fits

LEMMA SomewhereElse ==
    ASSUME PagesInv, Still, UNCHANGED <<page, view>>
    PROVE  /\ AreaFits' /\ PlaceFits' /\ Shown' = Shown /\ Keys' = Keys /\ Pages' = Pages
           /\ ThisForm' = ThisForm
BY DEF PagesInv, Still, AreaFits, PlaceFits, Shown, Mounted, Keys, Pages, ThisForm

\* Requests stay what they are in the same visit to the same page, and after it.
LEMMA RequestSame ==
    ASSUME NEW r, RequestFits(r), UNCHANGED area, UNCHANGED page, Visit' = Visit,
           draft.base # 0 => draft'.base # 0
    PROVE  RequestFits(r)'
<1>1. Pages' = Pages /\ TaskOf(r)' = TaskOf(r) /\ Request' = Request
  BY DEF Pages, TaskOf, Request, TaskNames
<1>. QED
  BY <1>1 DEF RequestFits

LEMMA RequestLeft ==
    ASSUME NEW r, RequestFits(r), UNCHANGED area, Visit \in Nat, Visit' = Visit + 1
    PROVE  RequestFits(r)'
<1>1. Pages' = Pages /\ TaskOf(r)' = TaskOf(r) /\ Request' = Request
  BY DEF Pages, TaskOf, Request, TaskNames
<1>2. r.visit <= Visit' /\ r.visit # Visit'
  BY DEF RequestFits, Request
<1>. QED
  BY <1>1, <1>2 DEF RequestFits

LEMMA RequestsSame ==
    ASSUME RequestsFit, UNCHANGED area, UNCHANGED page, Visit' = Visit, UNCHANGED requests,
           draft.base # 0 => draft'.base # 0
    PROVE  RequestsFit'
BY RequestSame DEF RequestsFit

LEMMA RequestsLeft ==
    ASSUME RequestsFit, UNCHANGED area, Visit \in Nat, Visit' = Visit + 1, UNCHANGED requests
    PROVE  RequestsFit'
BY RequestLeft DEF RequestsFit

\* One query changes, and the server's versions stay.
LEMMA OneQuery ==
    ASSUME PagesInv, Still, UNCHANGED <<page, view, wrote>>, NEW k \in Keys, NEW q,
           cache' = [cache EXCEPT ![k] = q], Keeps(q, server[k], wrote[k]), Ready(q)
    PROVE  CacheFits' /\ ScreenFits'
<1>1. Keys' = Keys /\ Shown' = Shown /\ Shown \subseteq Keys
  BY SomewhereElse DEF Shown, Mounted
<1>2. Fits(cache, wrote) /\ Keys = KeysOf[area.name] /\ DOMAIN wrote = Keys
  BY CacheParts DEF PagesInv, CacheFits
<1>3. DOMAIN cache' = Keys /\ cache'[k] = q /\ \A x \in Keys \ {k} : cache'[x] = cache[x]
  BY <1>2 DEF Fits
<1>4. \A x \in Keys : Keeps(cache'[x], server'[x], wrote'[x])
  BY <1>2, <1>3 DEF Fits, Still
<1>5. CacheFits'
  BY <1>1, <1>2, <1>3, <1>4 DEF CacheFits, Still
<1>6. ScreenFits'
  BY <1>1, <1>2, <1>3 DEF ScreenFits, Fits
<1>. QED
  BY <1>5, <1>6

\* What is spent is counted.
LEMMA SpendCounts ==
    ASSUME SpentFits, NEW f \in {"moves", "visits", "requests", "troubles"}, Spend(f)
    PROVE  /\ SpentFits' /\ Visit \in Nat
           /\ f = "visits" => Visit' = Visit + 1
           /\ f # "visits" => Visit' = Visit
BY DEF SpentFits, Spend, Visit

-----------------------------------------------------------------------------
\* What the user does.
LEMMA NavigateStep ==
    ASSUME PagesInv, NEW p \in DOMAIN Pages, Navigate(p)
    PROVE  PagesInv'
<1>1. /\ GoTo(p, "page", cache) /\ draft' = Opened(p, cache)
      /\ spent' = [spent EXCEPT !.moves = @ + 1, !.visits = @ + 1]
      /\ UNCHANGED area /\ UNCHANGED server /\ UNCHANGED requests /\ UNCHANGED wrote
  BY DEF Navigate
<1>2. /\ "page" \in DOMAIN Pages[p].views /\ Fits(cache, wrote)
      /\ Pages[p].form.of \notin DOMAIN Pages[p].given
  BY PageTable, CacheParts DEF PagesInv
<1>3. /\ page' = p /\ PlaceFits' /\ DOMAIN cache' = Keys /\ ScreenFits'
      /\ \A k \in Keys : Keeps(cache'[k], server[k], wrote[k])
      /\ \A k \in Keys \ DOMAIN Pages[p].given : cache'[k].data = cache[k].data
  BY <1>1, <1>2, GoToKeeps
<1>4. Keys' = Keys /\ Pages' = Pages /\ AreaFits' /\ Fits(cache, wrote)
  BY <1>1, <1>2 DEF Keys, Pages, AreaFits, PagesInv
<1>5. CacheFits'
  BY <1>1, <1>3, <1>4 DEF CacheFits, PagesInv
<1>6. SpentFits' /\ Visit \in Nat /\ Visit' = Visit + 1
  <2>1. /\ spent \in [moves : Nat, visits : Nat, requests : Nat, troubles : Nat]
        /\ spent.moves \in Nat /\ spent.visits \in Nat
    BY DEF PagesInv, SpentFits
  <2> DEFINE m == spent.moves + 1
             n == spent.visits + 1
  <2>2. spent' = [spent EXCEPT !.moves = m, !.visits = n] /\ m \in Nat /\ n \in Nat
    BY <1>1, <2>1
  <2>. HIDE DEF m, n
  <2>3. spent' \in [moves : Nat, visits : Nat, requests : Nat, troubles : Nat] /\ spent'.visits = n
    BY <2>1, <2>2
  <2>. QED
    BY <2>1, <2>3 DEF SpentFits, Visit, n
<1>7. RequestsFit'
  BY <1>1, <1>6, RequestsLeft DEF PagesInv
<1>8. DraftFits'
  <2> DEFINE of == Pages[p].form.of
  <2>1. ThisForm'.of = of
    BY <1>3, <1>4 DEF ThisForm
  <2>2. CASE of \in Keys
    <3>1. draft' = [base |-> cache[of].data, edits |-> "none"]
      BY <1>1, <1>2, <2>2 DEF Opened, Fits
    <3>2. cache[of].data \in Nat
      BY <1>2, <2>2, EntryParts DEF Fits
    <3>3. cache'[of].data = cache[of].data
      BY <1>2, <1>3, <2>2
    <3>. QED
      BY <1>4, <2>1, <2>2, <3>1, <3>2, <3>3 DEF DraftFits
  <2>3. CASE of \notin Keys
    <3>1. draft' = [base |-> 0, edits |-> "none"]
      BY <1>1, <1>2, <2>3 DEF Opened, Untouched, Fits
    <3>. QED
      BY <1>4, <2>1, <2>3, <3>1 DEF DraftFits
  <2>. QED
    BY <2>2, <2>3
<1>9. OneRequestPerButton'
  BY <1>1, <1>4 DEF PagesInv, OneRequestPerButton
<1>. QED
  BY <1>3, <1>4, <1>5, <1>6, <1>7, <1>8, <1>9 DEF PagesInv

\* The form stays filled where its query keeps its data.
LEMMA DraftStays ==
    ASSUME DraftFits, draft'.base = draft.base, draft' \in [base : Nat, edits : {"none", "staged", "sent", "conflict"}],
           ThisForm'.of = ThisForm.of, Keys' = Keys,
           ThisForm.of \in Keys => cache'[ThisForm.of].data = cache[ThisForm.of].data,
           draft'.edits # "none" => draft.base # 0
    PROVE  DraftFits'
BY DEF DraftFits

LEMMA ChangeViewStep ==
    ASSUME PagesInv, NEW v \in DOMAIN Pages[page].views, ChangeView(v)
    PROVE  PagesInv'
<1>1. /\ GoTo(page, v, cache) /\ Spend("moves") /\ UNCHANGED draft
      /\ UNCHANGED area /\ UNCHANGED server /\ UNCHANGED requests /\ UNCHANGED wrote
  BY DEF ChangeView
<1>2. /\ page \in DOMAIN Pages /\ Fits(cache, wrote) /\ ThisForm.of \notin DOMAIN Pages[page].given
  BY PageTable, CacheParts DEF PagesInv, PlaceFits, ThisForm
<1>3. /\ page' = page /\ PlaceFits' /\ DOMAIN cache' = Keys /\ ScreenFits'
      /\ \A k \in Keys : Keeps(cache'[k], server[k], wrote[k])
      /\ \A k \in Keys \ DOMAIN Pages[page].given : cache'[k].data = cache[k].data
  BY <1>1, <1>2, GoToKeeps
<1>4. Keys' = Keys /\ Pages' = Pages /\ AreaFits' /\ ThisForm' = ThisForm
  BY <1>1, <1>3 DEF Keys, Pages, AreaFits, PagesInv, ThisForm
<1>5. CacheFits'
  BY <1>1, <1>3, <1>4 DEF CacheFits, PagesInv
<1>6. SpentFits' /\ Visit' = Visit
  BY <1>1, SpendCounts DEF PagesInv
<1>7. RequestsFit'
  BY <1>1, <1>3, <1>6, RequestsSame DEF PagesInv
<1>8. DraftFits'
  BY <1>1, <1>2, <1>3, <1>4, DraftStays DEF PagesInv, DraftFits
<1>9. OneRequestPerButton'
  BY <1>1, <1>4 DEF PagesInv, OneRequestPerButton
<1>. QED
  BY <1>3, <1>4, <1>5, <1>6, <1>7, <1>8, <1>9 DEF PagesInv

LEMMA TypeStep ==
    ASSUME PagesInv, Type
    PROVE  PagesInv'
<1>1. /\ draft.base # 0 /\ draft' = [draft EXCEPT !.edits = "staged"]
      /\ UNCHANGED area /\ UNCHANGED page /\ UNCHANGED view /\ UNCHANGED server
      /\ UNCHANGED cache /\ UNCHANGED requests /\ UNCHANGED wrote /\ UNCHANGED spent
  BY DEF Type
<1>2. /\ draft' \in [base : Nat, edits : {"none", "staged", "sent", "conflict"}]
      /\ draft'.base = draft.base
  BY <1>1 DEF PagesInv, DraftFits
<1>3. /\ AreaFits' /\ PlaceFits' /\ Shown' = Shown /\ Keys' = Keys /\ Pages' = Pages
      /\ ThisForm' = ThisForm
  BY <1>1, SomewhereElse DEF Still
<1>4. DraftFits'
  BY <1>1, <1>2, <1>3, DraftStays DEF PagesInv
<1>5. RequestsFit'
  BY <1>1, <1>2, RequestsSame DEF PagesInv, Visit
<1>6. CacheFits' /\ ScreenFits' /\ SpentFits' /\ OneRequestPerButton'
  BY <1>1, <1>3 DEF PagesInv, CacheFits, ScreenFits, SpentFits, OneRequestPerButton
<1>. QED
  BY <1>3, <1>4, <1>5, <1>6 DEF PagesInv

LEMMA DiscardStep ==
    ASSUME PagesInv, Discard
    PROVE  PagesInv'
<1> DEFINE of == ThisForm.of
<1>1. /\ ThisForm.discards /\ draft.edits # "none"
      /\ draft' = [base |-> cache[of].data, edits |-> "none"]
      /\ UNCHANGED area /\ UNCHANGED page /\ UNCHANGED view /\ UNCHANGED server
      /\ UNCHANGED cache /\ UNCHANGED requests /\ UNCHANGED wrote /\ UNCHANGED spent
  BY DEF Discard
<1>2. of \in Keys
  BY <1>1, PageTable DEF PagesInv, PlaceFits, ThisForm
<1>3. cache[of].data \in Nat /\ cache[of].data # 0 /\ draft.base # 0
  BY <1>1, <1>2, EntryParts DEF PagesInv, CacheFits, DraftFits
<1>4. /\ AreaFits' /\ PlaceFits' /\ Shown' = Shown /\ Keys' = Keys /\ Pages' = Pages
      /\ ThisForm' = ThisForm
  BY <1>1, SomewhereElse DEF Still
<1>5. DraftFits'
  BY <1>1, <1>2, <1>3, <1>4 DEF DraftFits
<1>6. RequestsFit'
  BY <1>1, <1>3, RequestsSame DEF PagesInv, Visit
<1>7. CacheFits' /\ ScreenFits' /\ SpentFits' /\ OneRequestPerButton'
  BY <1>1, <1>4 DEF PagesInv, CacheFits, ScreenFits, SpentFits, OneRequestPerButton
<1>. QED
  BY <1>4, <1>5, <1>6, <1>7 DEF PagesInv

-----------------------------------------------------------------------------
\* Queries answer.
LEMMA ArriveStep ==
    ASSUME PagesInv, NEW k \in Keys, Arrive(k)
    PROVE  PagesInv'
<1> DEFINE of == ThisForm.of
<1>0. PICK v \in cache[k].flight .. server[k] :
        /\ cache' = [cache EXCEPT ![k] = [@ EXCEPT !.data = v, !.flight = 0, !.invalid = FALSE]]
        /\ draft' = IF k = of THEN Refilled(ThisForm, draft, cache[k].data, v) ELSE draft
  BY DEF Arrive
<1>1. /\ cache[k].flight # 0
      /\ UNCHANGED area /\ UNCHANGED page /\ UNCHANGED view /\ UNCHANGED server
      /\ UNCHANGED requests /\ UNCHANGED wrote /\ UNCHANGED spent
  BY DEF Arrive
<1> DEFINE q == [cache[k] EXCEPT !.data = v, !.flight = 0, !.invalid = FALSE]
<1>2. /\ Keeps(cache[k], server[k], wrote[k]) /\ DOMAIN cache = Keys
  BY DEF PagesInv, CacheFits
<1>3. /\ Keeps(q, server[k], wrote[k]) /\ Ready(q) /\ v \in Nat /\ v # 0 /\ q.data = v
  BY <1>1, <1>2, ArriveKeeps
<1>4. cache' = [cache EXCEPT ![k] = q]
  BY <1>0
<1>. HIDE DEF q
<1>5. CacheFits' /\ ScreenFits'
  BY <1>1, <1>3, <1>4, OneQuery DEF Still
<1>6. /\ AreaFits' /\ PlaceFits' /\ Shown' = Shown /\ Keys' = Keys /\ Pages' = Pages
      /\ ThisForm' = ThisForm
  BY <1>1, SomewhereElse DEF Still
<1>7. /\ DraftFits /\ draft \in [base : Nat, edits : {"none", "staged", "sent", "conflict"}]
  BY DEF PagesInv, DraftFits
<1>8. DraftFits' /\ (draft.base # 0 => draft'.base # 0)
  <2>1. CASE k = of
    <3>1. /\ draft' \in [base : Nat, edits : {"none", "staged", "sent", "conflict"}]
          /\ draft'.base # 0
      <4>1. \/ draft' = [base |-> v, edits |-> "none"]
            \/ draft' = [draft EXCEPT !.base = v]
            \/ draft' = draft /\ draft.base # 0
        BY <1>0, <2>1 DEF Refilled
      <4>. QED
        BY <1>3, <1>7, <4>1
    <3>2. cache'[k].data = v
      BY <1>2, <1>3, <1>4
    <3>. QED
      BY <1>3, <1>6, <2>1, <3>1, <3>2 DEF DraftFits
  <2>2. CASE k # of
    <3>1. draft' = draft
      BY <1>0, <2>2
    <3>2. of \in Keys => cache'[of].data = cache[of].data
      BY <1>2, <1>4, <2>2
    <3>. QED
      BY <1>6, <1>7, <3>1, <3>2, DraftStays DEF DraftFits
  <2>. QED
    BY <2>1, <2>2
<1>9. RequestsFit'
  BY <1>1, <1>8, RequestsSame DEF PagesInv, Visit
<1>10. SpentFits' /\ OneRequestPerButton'
  BY <1>1, <1>6 DEF PagesInv, SpentFits, OneRequestPerButton
<1>. QED
  BY <1>5, <1>6, <1>8, <1>9, <1>10 DEF PagesInv

LEMMA FetchFailsStep ==
    ASSUME PagesInv, NEW k \in Keys, FetchFails(k)
    PROVE  PagesInv'
<1> DEFINE q == [cache[k] EXCEPT !.flight = 0, !.invalid = TRUE, !.failed = TRUE]
<1>1. /\ cache' = [cache EXCEPT ![k] = q] /\ Spend("troubles")
      /\ UNCHANGED area /\ UNCHANGED page /\ UNCHANGED view /\ UNCHANGED server
      /\ UNCHANGED requests /\ UNCHANGED wrote
  BY DEF FetchFails
<1>2. \/ draft' = draft
      \/ draft' = [draft EXCEPT !.edits = "staged"] /\ draft.edits # "none"
  BY DEF FetchFails
<1>3. /\ Keeps(cache[k], server[k], wrote[k]) /\ DOMAIN cache = Keys
  BY DEF PagesInv, CacheFits
<1>4. Keeps(q, server[k], wrote[k]) /\ Ready(q) /\ q.data = cache[k].data
  BY <1>3, FailKeeps
<1>. HIDE DEF q
<1>5. CacheFits' /\ ScreenFits'
  BY <1>1, <1>4, OneQuery DEF Still
<1>6. /\ AreaFits' /\ PlaceFits' /\ Shown' = Shown /\ Keys' = Keys /\ Pages' = Pages
      /\ ThisForm' = ThisForm
  BY <1>1, SomewhereElse DEF Still
<1>7. SpentFits' /\ Visit' = Visit
  BY <1>1, SpendCounts DEF PagesInv
<1>8. DraftFits' /\ draft'.base = draft.base
  <2>1. /\ DraftFits /\ draft \in [base : Nat, edits : {"none", "staged", "sent", "conflict"}]
    BY DEF PagesInv, DraftFits
  <2>2. /\ draft' \in [base : Nat, edits : {"none", "staged", "sent", "conflict"}]
        /\ draft'.base = draft.base /\ (draft'.edits # "none" => draft.base # 0)
    BY <1>2, <2>1 DEF DraftFits
  <2>3. \A x \in Keys : cache'[x].data = cache[x].data
    BY <1>1, <1>3, <1>4
  <2>. QED
    BY <1>6, <2>1, <2>2, <2>3, DraftStays
<1>9. RequestsFit'
  BY <1>1, <1>6, <1>7, <1>8, RequestsSame DEF PagesInv
<1>10. OneRequestPerButton'
  BY <1>1, <1>6 DEF PagesInv, OneRequestPerButton
<1>. QED
  BY <1>5, <1>6, <1>7, <1>8, <1>9, <1>10 DEF PagesInv

LEMMA RefetchStep ==
    ASSUME PagesInv, NEW k \in Keys, Refetch(k)
    PROVE  PagesInv'
<1> DEFINE q == Fetching(cache[k], server[k])
<1>1. /\ cache' = [cache EXCEPT ![k] = q] /\ Spend("moves")
      /\ UNCHANGED area /\ UNCHANGED page /\ UNCHANGED view /\ UNCHANGED server
      /\ UNCHANGED requests /\ UNCHANGED wrote /\ UNCHANGED draft
  BY DEF Refetch
<1>2. /\ Keeps(cache[k], server[k], wrote[k]) /\ DOMAIN cache = Keys
  BY DEF PagesInv, CacheFits
<1>3. Keeps(q, server[k], wrote[k]) /\ Ready(q) /\ q.data = cache[k].data
  BY <1>2, FetchKeeps
<1>. HIDE DEF q
<1>4. CacheFits' /\ ScreenFits'
  BY <1>1, <1>3, OneQuery DEF Still
<1>5. /\ AreaFits' /\ PlaceFits' /\ Shown' = Shown /\ Keys' = Keys /\ Pages' = Pages
      /\ ThisForm' = ThisForm
  BY <1>1, SomewhereElse DEF Still
<1>6. SpentFits' /\ Visit' = Visit
  BY <1>1, SpendCounts DEF PagesInv
<1>7. DraftFits'
  <2>1. \A x \in Keys : cache'[x].data = cache[x].data
    BY <1>1, <1>2, <1>3
  <2>. QED
    BY <1>1, <1>5, <2>1, DraftStays DEF PagesInv, DraftFits
<1>8. RequestsFit' /\ OneRequestPerButton'
  BY <1>1, <1>5, <1>6, RequestsSame DEF PagesInv, OneRequestPerButton
<1>. QED
  BY <1>4, <1>5, <1>6, <1>7, <1>8 DEF PagesInv

\* The server's versions grow, whoever writes.
LEMMA ServerWrites ==
    ASSUME PagesInv, UNCHANGED area, UNCHANGED page, UNCHANGED view, UNCHANGED draft,
           UNCHANGED cache, UNCHANGED wrote, DOMAIN server' = Keys,
           \A k \in Keys : server'[k] = server[k] \/ server'[k] = server[k] + 1
    PROVE  /\ AreaFits' /\ PlaceFits' /\ CacheFits' /\ ScreenFits' /\ DraftFits'
           /\ Keys' = Keys /\ Pages' = Pages
<1>1. /\ AreaFits' /\ Keys' = Keys /\ Pages' = Pages
  BY DEF AreaFits, PagesInv, Keys, Pages
<1>2. PlaceFits' /\ Shown' = Shown /\ ThisForm' = ThisForm
  BY <1>1 DEF PlaceFits, PagesInv, Shown, Mounted, ThisForm
<1>3. CacheFits'
  BY <1>1, ServerGrows DEF CacheFits, PagesInv
<1>4. ScreenFits' /\ DraftFits'
  BY <1>1, <1>2 DEF ScreenFits, DraftFits, PagesInv
<1>. QED
  BY <1>1, <1>2, <1>3, <1>4

LEMMA OtherWritesStep ==
    ASSUME PagesInv, NEW k \in Keys, OtherWrites(k)
    PROVE  PagesInv'
<1>1. /\ server' = [server EXCEPT ![k] = @ + 1] /\ Spend("troubles")
      /\ UNCHANGED area /\ UNCHANGED page /\ UNCHANGED view /\ UNCHANGED cache
      /\ UNCHANGED requests /\ UNCHANGED wrote /\ UNCHANGED draft
  BY DEF OtherWrites
<1>2. DOMAIN server' = Keys /\ \A x \in Keys : server'[x] = server[x] \/ server'[x] = server[x] + 1
  BY <1>1 DEF Keys
<1>3. /\ AreaFits' /\ PlaceFits' /\ CacheFits' /\ ScreenFits' /\ DraftFits'
      /\ Keys' = Keys /\ Pages' = Pages
  BY <1>1, <1>2, ServerWrites
<1>4. SpentFits' /\ Visit' = Visit
  BY <1>1, SpendCounts DEF PagesInv
<1>5. RequestsFit' /\ OneRequestPerButton'
  BY <1>1, <1>3, <1>4, RequestsSame DEF PagesInv, OneRequestPerButton
<1>. QED
  BY <1>3, <1>4, <1>5 DEF PagesInv

-----------------------------------------------------------------------------
\* Requests.
LEMMA SubmitStep ==
    ASSUME PagesInv, NEW t \in DOMAIN Pages[page].tasks, Submit(t)
    PROVE  PagesInv'
<1> DEFINE task == Pages[page].tasks[t]
           r == [id |-> spent.requests, visit |-> Visit, page |-> page, task |-> t, step |-> 1,
                 state |-> "sent", etag |-> IF task.guarded THEN cache[ThisForm.of].data ELSE 0]
<1>1. /\ \A k \in Pages[page].gate \cap Keys : cache[k].data # 0
      /\ ~Waits(t)
      /\ task.saves => draft.edits # "none"
      /\ requests' = requests \cup {r}
      /\ draft' = IF task.saves /\ draft.edits = "staged"
                  THEN [draft EXCEPT !.edits = "sent"] ELSE draft
      /\ Spend("requests")
      /\ UNCHANGED area /\ UNCHANGED page /\ UNCHANGED view /\ UNCHANGED server
      /\ UNCHANGED cache /\ UNCHANGED wrote
  BY DEF Submit
<1>2. /\ AreaFits' /\ PlaceFits' /\ Shown' = Shown /\ Keys' = Keys /\ Pages' = Pages
      /\ ThisForm' = ThisForm
  BY <1>1, SomewhereElse DEF Still
<1>3. SpentFits' /\ Visit' = Visit /\ Visit \in Nat /\ spent.requests \in Nat
  BY <1>1, SpendCounts DEF PagesInv, SpentFits
<1>4. DraftFits' /\ draft'.base = draft.base
  <2>1. DraftFits /\ draft \in [base : Nat, edits : {"none", "staged", "sent", "conflict"}]
    BY DEF PagesInv, DraftFits
  <2>2. /\ draft' \in [base : Nat, edits : {"none", "staged", "sent", "conflict"}]
        /\ draft'.base = draft.base /\ (draft'.edits # "none" => draft.base # 0)
    BY <1>1, <2>1 DEF DraftFits
  <2>. QED
    BY <1>1, <1>2, <2>1, <2>2, DraftStays
<1>5. page \in DOMAIN Pages /\ TaskFits(Pages[page], task, Keys, Forms)
  BY PageTable DEF PagesInv, PlaceFits
<1>6. /\ task.guarded => ThisForm.of \in Pages[page].gate \cap Keys
      /\ Len(task.calls) \in Nat \ {0}
  BY <1>5 DEF TaskFits, ThisForm
<1>7. task.guarded => cache[ThisForm.of].data \in Nat /\ draft.base # 0
  <2>1. SUFFICES ASSUME task.guarded
                 PROVE  cache[ThisForm.of].data \in Nat /\ draft.base # 0
    OBVIOUS
  <2>2. ThisForm.of \in Pages[page].gate \cap Keys
    BY <1>6, <2>1
  <2>3. cache[ThisForm.of].data # 0
    BY <1>1, <2>2
  <2>4. draft.base # 0
    BY <2>2, <2>3 DEF PagesInv, DraftFits
  <2>5. Keeps(cache[ThisForm.of], server[ThisForm.of], wrote[ThisForm.of])
    BY <2>2 DEF PagesInv, CacheFits
  <2>. QED
    BY <2>4, <2>5, EntryParts
<1>8. RequestFits(r)
  <2>1. t \in TaskNames
    BY <1>5 DEF TaskNames
  <2>2. r \in Request
    BY <1>3, <1>5, <1>7, <2>1 DEF Request
  <2>3. r.visit = Visit /\ r.page = page /\ r.task = t /\ r.step = 1 /\ r.state = "sent"
    OBVIOUS
  <2>. HIDE DEF r
  <2>4. TaskOf(r) = task
    BY <2>3 DEF TaskOf
  <2>5. 1 \in 1..Len(task.calls)
    BY <1>6
  <2>. QED
    BY <1>3, <1>7, <2>2, <2>3, <2>4, <2>5 DEF RequestFits
<1>9. RequestsFit'
  <2>1. r.visit = Visit
    OBVIOUS
  <2>. HIDE DEF r
  <2>2. \A s \in requests \cup {r} : RequestFits(s)
    BY <1>8 DEF PagesInv, RequestsFit
  <2>3. \A s \in requests \cup {r} : RequestFits(s)'
    BY <1>1, <1>3, <1>4, <2>2, RequestSame
  <2>. QED
    BY <1>1, <2>3 DEF RequestsFit
<1>10. OneRequestPerButton'
  <2>1. r.visit = Visit /\ r.page = page /\ r.task = t
    OBVIOUS
  <2>. HIDE DEF r
  <2>2. t \in Pages[page].controls[t].waits => \A s \in requests : ~(s.visit = Visit /\ s.task = t)
    BY <1>1 DEF Waits, Pending
  <2>. QED
    BY <1>1, <1>2, <2>1, <2>2 DEF PagesInv, OneRequestPerButton
<1>11. CacheFits' /\ ScreenFits'
  BY <1>1, <1>2 DEF PagesInv, CacheFits, ScreenFits
<1>. QED
  BY <1>2, <1>3, <1>4, <1>9, <1>10, <1>11 DEF PagesInv

\* A request in another state or at another step is the request of the same button.
LEMMA Becoming ==
    ASSUME RequestsFit, OneRequestPerButton, NEW r \in requests, NEW s, RequestFits(s),
           s.visit = r.visit, s.page = r.page, s.task = r.task,
           UNCHANGED area, requests' = (requests \ {r}) \cup {s}
    PROVE  /\ \A x \in requests' : RequestFits(x)
           /\ OneRequestPerButton'
<1>1. \A x \in requests' : RequestFits(x)
  BY DEF RequestsFit
<1>2. Pages' = Pages
  BY DEF Pages
<1>. QED
  BY <1>1, <1>2 DEF OneRequestPerButton

LEMMA BecomesFits ==
    ASSUME RequestsFit, OneRequestPerButton, NEW r \in requests, UNCHANGED area,
           NEW state \in {"sent", "applied", "conflict", "failed"}, Becomes(r, state),
           state = "conflict" => TaskOf(r).guarded
    PROVE  /\ \A x \in requests' : RequestFits(x)
           /\ OneRequestPerButton'
<1> DEFINE s == [r EXCEPT !.state = state]
<1>1. RequestFits(r) /\ r \in Request
  BY DEF RequestsFit, RequestFits
<1>2. s \in Request /\ s.visit = r.visit /\ s.page = r.page /\ s.task = r.task /\ s.step = r.step
      /\ s.state = state
  BY <1>1 DEF Request
<1>3. requests' = (requests \ {r}) \cup {s}
  BY DEF Becomes
<1>. HIDE DEF s
<1>4. TaskOf(s) = TaskOf(r)
  BY <1>2 DEF TaskOf
<1>5. RequestFits(s)
  BY <1>1, <1>2, <1>4 DEF RequestFits
<1>. QED
  BY <1>2, <1>3, <1>5, Becoming

LEMMA ApplyStep ==
    ASSUME PagesInv, NEW r \in requests, Apply(r)
    PROVE  PagesInv'
<1>1. /\ server' = [k \in Keys |-> IF k \in CallOf(r).writes THEN server[k] + 1 ELSE server[k]]
      /\ Becomes(r, "applied") /\ UNCHANGED spent
      /\ UNCHANGED area /\ UNCHANGED page /\ UNCHANGED view /\ UNCHANGED cache
      /\ UNCHANGED wrote /\ UNCHANGED draft
  BY DEF Apply
<1>2. DOMAIN server' = Keys /\ \A x \in Keys : server'[x] = server[x] \/ server'[x] = server[x] + 1
  BY <1>1
<1>3. /\ AreaFits' /\ PlaceFits' /\ CacheFits' /\ ScreenFits' /\ DraftFits'
      /\ Keys' = Keys /\ Pages' = Pages
  BY <1>1, <1>2, ServerWrites
<1>4. (\A x \in requests' : RequestFits(x)) /\ OneRequestPerButton'
  BY <1>1, BecomesFits DEF PagesInv
<1>5. SpentFits' /\ RequestsFit'
  BY <1>1, <1>4, RequestSame DEF PagesInv, SpentFits, RequestsFit, Visit
<1>. QED
  BY <1>3, <1>4, <1>5 DEF PagesInv

LEMMA RefusedStep ==
    ASSUME PagesInv, NEW r \in requests, Conflict(r) \/ Fail(r)
    PROVE  PagesInv'
<1>1. /\ \E state \in {"conflict", "failed"} :
           Becomes(r, state) /\ (state = "conflict" => TaskOf(r).guarded)
      /\ UNCHANGED spent \/ Spend("troubles")
      /\ UNCHANGED area /\ UNCHANGED page /\ UNCHANGED view /\ UNCHANGED cache
      /\ UNCHANGED server /\ UNCHANGED wrote /\ UNCHANGED draft
  BY DEF Conflict, Fail, UpToDate
<1>2. /\ AreaFits' /\ PlaceFits' /\ Shown' = Shown /\ Keys' = Keys /\ Pages' = Pages
      /\ ThisForm' = ThisForm
  BY <1>1, SomewhereElse DEF Still
<1>3. (\A x \in requests' : RequestFits(x)) /\ OneRequestPerButton'
  BY <1>1, BecomesFits DEF PagesInv
<1>4. SpentFits' /\ Visit' = Visit
  <2>1. CASE UNCHANGED spent
    BY <2>1 DEF PagesInv, SpentFits, Visit
  <2>2. CASE Spend("troubles")
    BY <2>2, SpendCounts DEF PagesInv
  <2>. QED
    BY <1>1, <2>1, <2>2
<1>5. RequestsFit'
  BY <1>1, <1>3, <1>4, RequestSame DEF RequestsFit
<1>6. CacheFits' /\ ScreenFits' /\ DraftFits'
  BY <1>1, <1>2 DEF PagesInv, CacheFits, ScreenFits, DraftFits
<1>. QED
  BY <1>2, <1>3, <1>4, <1>5, <1>6 DEF PagesInv

\* The page shows what onSuccess or onError left in the cache: it goes to another page or
\* view, or it stays where it is.
LEMMA PageShows ==
    ASSUME PagesInv, NEW c, Fits(c, wrote'), Still, DOMAIN wrote' = Keys,
           \/ \E p \in DOMAIN Pages : \E v \in DOMAIN Pages[p].views : GoTo(p, v, c)
           \/ cache' = c /\ UNCHANGED page /\ UNCHANGED view
    PROVE  /\ AreaFits' /\ PlaceFits' /\ CacheFits' /\ ScreenFits'
           /\ Keys' = Keys /\ Pages' = Pages
           /\ \A k \in Keys \ DOMAIN Pages[page'].given : cache'[k].data = c[k].data
<1>0. Keys' = Keys /\ Pages' = Pages /\ AreaFits' /\ UNCHANGED area /\ UNCHANGED server
  BY DEF Still, Keys, Pages, AreaFits, PagesInv
<1>1. CASE \E p \in DOMAIN Pages : \E v \in DOMAIN Pages[p].views : GoTo(p, v, c)
  <2>1. PICK p \in DOMAIN Pages : \E v \in DOMAIN Pages[p].views : GoTo(p, v, c)
    BY <1>1
  <2>2. PICK v \in DOMAIN Pages[p].views : GoTo(p, v, c)
    BY <2>1
  <2>3. PICK x : x = wrote'
    OBVIOUS
  <2>4. Fits(c, x)
    BY <2>3
  <2>5. /\ page' = p /\ PlaceFits' /\ DOMAIN cache' = Keys /\ ScreenFits'
        /\ \A k \in Keys : Keeps(cache'[k], server[k], x[k])
        /\ \A k \in Keys \ DOMAIN Pages[p].given : cache'[k].data = c[k].data
    BY <1>0, <2>2, <2>4, GoToKeeps
  <2>6. CacheFits'
    BY <1>0, <2>3, <2>5 DEF CacheFits, PagesInv
  <2>. QED
    BY <1>0, <2>5, <2>6
<1>2. CASE cache' = c /\ UNCHANGED page /\ UNCHANGED view
  <2>1. PlaceFits' /\ Shown' = Shown
    BY <1>0, <1>2 DEF PlaceFits, PagesInv, Shown, Mounted
  <2>2. CacheFits' /\ ScreenFits'
    BY <1>0, <1>2, <2>1 DEF CacheFits, ScreenFits, PagesInv, Fits
  <2>. QED
    BY <1>0, <1>2, <2>1, <2>2
<1>. QED
  BY <1>1, <1>2

LEMMA SucceedStep ==
    ASSUME PagesInv, NEW r \in requests, Succeed(r)
    PROVE  PagesInv'
<1>0. PICK again \in Again(r) : Succeeds(r, again)
  BY DEF Succeed
<1> DEFINE task == TaskOf(r)
           call == CallOf(r)
           told == Told(cache, call, again)
           last == r.step = Len(task.calls)
           here == r.visit = Visit
           w == [k \in Keys |-> IF k \in Answers(call, again) THEN server[k] ELSE wrote[k]]
<1>1. /\ wrote' = w /\ UNCHANGED area /\ UNCHANGED server
      /\ requests' = (requests \ {r}) \cup
             IF last THEN {} ELSE {[r EXCEPT !.step = @ + 1, !.state = "sent"]}
  BY <1>0 DEF Succeeds
<1>2. RequestFits(r) /\ r \in Request
  BY DEF PagesInv, RequestsFit, RequestFits
<1>3. /\ last \/ r.step + 1 \in 1..Len(task.calls)
      /\ Covers(call, Keys) /\ call.sets \cap Forms = {}
  BY <1>2, CallTable DEF PagesInv
<1>4. Fits(told, w) /\ \A k \in Forms \cap Keys : told[k].data = cache[k].data
  <2>1. Fits(cache, wrote)
    BY CacheParts DEF PagesInv
  <2>2. /\ Fits(told, wrote)
        /\ \A k \in Keys : (k \in call.sets \cup again \/ \E x \in call.refreshes : IsPrefix(x, k)) =>
                             Keeps(told[k], server[k], server[k])
        /\ \A k \in Keys \ call.sets : told[k].data = cache[k].data
    BY <2>1, TellingKeeps
  <2>. HIDE DEF told, call
  <2>3. \A k \in Keys : Keeps(told[k], server[k], w[k])
    BY <1>3, <2>2 DEF Fits, Covers, Answers
  <2>4. Fits(told, w)
    BY <2>2, <2>3 DEF Fits
  <2>. QED
    BY <1>3, <2>2, <2>4
<1>5. /\ \A x \in requests' : RequestFits(x)
      /\ OneRequestPerButton'
  <2>1. CASE last
    BY <1>1, <2>1 DEF PagesInv, RequestsFit, OneRequestPerButton, Pages
  <2>2. CASE ~last
    <3> DEFINE s == [r EXCEPT !.step = @ + 1, !.state = "sent"]
    <3>1. s.visit = r.visit /\ s.page = r.page /\ s.task = r.task
      BY <1>2 DEF Request
    <3>2. s \in Request /\ s.step = r.step + 1 /\ s.state = "sent"
      <4> DEFINE n == r.step + 1
      <4>1. n \in Nat /\ s = [r EXCEPT !.step = n, !.state = "sent"]
        BY <1>2 DEF Request
      <4>. HIDE DEF n, s
      <4>2. s \in Request /\ s.step = n /\ s.state = "sent"
        BY <1>2, <4>1 DEF Request
      <4>. QED
        BY <4>2 DEF n
    <3>3. requests' = (requests \ {r}) \cup {s}
      BY <1>1, <2>2
    <3>. HIDE DEF s
    <3>4. TaskOf(s) = task
      BY <3>1 DEF TaskOf
    <3>5. RequestFits(s)
      BY <1>2, <1>3, <2>2, <3>1, <3>2, <3>4 DEF RequestFits
    <3>. QED
      BY <1>1, <3>1, <3>3, <3>5, Becoming DEF PagesInv
  <2>. QED
    BY <2>1, <2>2
<1>6. \/ /\ task.done \in DOMAIN Pages /\ GoTo(task.done, "page", told)
         /\ draft' = Opened(task.done, told) /\ Spend("visits")
      \/ /\ \/ task.done \in DOMAIN Pages[page].views /\ GoTo(page, task.done, told)
            \/ cache' = told /\ UNCHANGED page /\ UNCHANGED view
         /\ draft' = draft \/ draft' = [draft EXCEPT !.edits = "none"]
         /\ UNCHANGED spent
  BY <1>0 DEF Succeeds
<1>7. Still /\ DOMAIN wrote' = Keys /\ Fits(told, wrote') /\ page \in DOMAIN Pages
  BY <1>1, <1>4 DEF Still, PagesInv, PlaceFits
<1>. HIDE DEF told, w, call, last, here, task
<1>8. CASE /\ task.done \in DOMAIN Pages /\ GoTo(task.done, "page", told)
           /\ draft' = Opened(task.done, told) /\ Spend("visits")
  <2> DEFINE p == task.done
             of == Pages[p].form.of
  <2>1. "page" \in DOMAIN Pages[p].views /\ of \notin DOMAIN Pages[p].given
    BY <1>8, PageTable DEF PagesInv
  <2>2. page' = p
    BY <1>8 DEF GoTo
  <2>3. /\ AreaFits' /\ PlaceFits' /\ CacheFits' /\ ScreenFits' /\ Keys' = Keys /\ Pages' = Pages
        /\ \A k \in Keys \ DOMAIN Pages[p].given : cache'[k].data = told[k].data
    BY <1>7, <1>8, <2>1, <2>2, PageShows
  <2>4. SpentFits' /\ Visit \in Nat /\ Visit' = Visit + 1
    BY <1>8, SpendCounts DEF PagesInv
  <2>5. RequestsFit'
    BY <1>1, <1>5, <2>4, RequestLeft DEF RequestsFit
  <2>6. DraftFits'
    <3>1. ThisForm'.of = of
      BY <2>2, <2>3 DEF ThisForm
    <3>2. CASE of \in Keys
      <4>1. draft' = [base |-> told[of].data, edits |-> "none"]
        BY <1>4, <1>8, <3>2 DEF Opened, Fits
      <4>2. told[of].data \in Nat
        BY <1>4, <3>2, EntryParts DEF Fits
      <4>3. cache'[of].data = told[of].data
        BY <2>1, <2>3, <3>2
      <4>. QED
        BY <2>3, <3>1, <3>2, <4>1, <4>2, <4>3 DEF DraftFits
    <3>3. CASE of \notin Keys
      <4>1. draft' = [base |-> 0, edits |-> "none"]
        BY <1>4, <1>8, <3>3 DEF Opened, Untouched, Fits
      <4>. QED
        BY <2>3, <3>1, <3>3, <4>1 DEF DraftFits
    <3>. QED
      BY <3>2, <3>3
  <2>. QED
    BY <1>5, <2>3, <2>4, <2>5, <2>6 DEF PagesInv
<1>9. CASE /\ \/ task.done \in DOMAIN Pages[page].views /\ GoTo(page, task.done, told)
              \/ cache' = told /\ UNCHANGED page /\ UNCHANGED view
           /\ draft' = draft \/ draft' = [draft EXCEPT !.edits = "none"]
           /\ UNCHANGED spent
  <2>1. page' = page
    BY <1>9 DEF GoTo
  <2>2. /\ AreaFits' /\ PlaceFits' /\ CacheFits' /\ ScreenFits' /\ Keys' = Keys /\ Pages' = Pages
        /\ \A k \in Keys \ DOMAIN Pages[page].given : cache'[k].data = told[k].data
    BY <1>7, <1>9, <2>1, PageShows
  <2>3. DraftFits' /\ draft'.base = draft.base
    <3>1. DraftFits /\ draft \in [base : Nat, edits : {"none", "staged", "sent", "conflict"}]
      BY DEF PagesInv, DraftFits
    <3>2. /\ draft' \in [base : Nat, edits : {"none", "staged", "sent", "conflict"}]
          /\ draft'.base = draft.base /\ (draft'.edits # "none" => draft.base # 0)
      BY <1>9, <3>1 DEF DraftFits
    <3>3. ThisForm' = ThisForm /\ ThisForm.of \in Forms
      BY <1>7, <2>1, <2>2 DEF ThisForm, Forms
    <3>4. ThisForm.of \notin DOMAIN Pages[page].given
      BY <1>7, PageTable DEF PagesInv, ThisForm
    <3>5. ThisForm.of \in Keys => cache'[ThisForm.of].data = cache[ThisForm.of].data
      BY <1>4, <2>2, <3>3, <3>4
    <3>. QED
      BY <2>2, <3>1, <3>2, <3>3, <3>5, DraftStays
  <2>4. SpentFits' /\ Visit' = Visit
    BY <1>9 DEF PagesInv, SpentFits, Visit
  <2>5. RequestsFit'
    BY <1>1, <1>5, <2>1, <2>3, <2>4, RequestSame DEF RequestsFit
  <2>. QED
    BY <1>5, <2>2, <2>3, <2>4, <2>5 DEF PagesInv
<1>. QED
  BY <1>6, <1>8, <1>9

LEMMA RejectStep ==
    ASSUME PagesInv, NEW r \in requests, Reject(r)
    PROVE  PagesInv'
<1> DEFINE of == Pages[r.page].form.of
           fetched == IF r.state = "conflict" /\ cache[of].flight = 0
                      THEN [cache EXCEPT ![of] = Fetching(@, server[of])] ELSE cache
           here == r.visit = Visit
<1>1. /\ requests' = requests \ {r}
      /\ \/ GoTo(page, "page", fetched)
         \/ cache' = fetched /\ UNCHANGED page /\ UNCHANGED view
      /\ UNCHANGED area /\ UNCHANGED server /\ UNCHANGED wrote /\ UNCHANGED spent
      /\ \/ here /\ r.state = "conflict" /\ draft' = [draft EXCEPT !.edits = "conflict"]
         \/ draft.edits = "sent" /\ draft' = [draft EXCEPT !.edits = "staged"]
         \/ draft' = draft
  BY DEF Reject
<1>2. RequestFits(r) /\ r \in Request
  BY DEF PagesInv, RequestsFit, RequestFits
<1>3. r.state = "conflict" => of \in Keys
  BY <1>2, CallTable DEF PagesInv, RequestFits
<1>4. Fits(fetched, wrote) /\ \A k \in Keys : fetched[k].data = cache[k].data
  <2>1. Fits(cache, wrote) /\ Shown \subseteq Keys
    BY CacheParts DEF PagesInv, Shown, Mounted
  <2>2. CASE r.state = "conflict" /\ cache[of].flight = 0
    <3> DEFINE q == Fetching(cache[of], server[of])
    <3>1. of \in Keys
      BY <1>3, <2>2
    <3>2. Keeps(cache[of], server[of], wrote[of])
      BY <2>1, <3>1 DEF Fits
    <3>3. Keeps(q, server[of], wrote[of]) /\ Ready(q) /\ q.data = cache[of].data
      BY <3>2, FetchKeeps
    <3>4. fetched = [cache EXCEPT ![of] = q]
      BY <2>2
    <3>. HIDE DEF q, fetched, of
    <3>5. DOMAIN fetched = Keys /\ fetched[of] = q /\ \A x \in Keys \ {of} : fetched[x] = cache[x]
      BY <2>1, <3>1, <3>4 DEF Fits
    <3>. QED
      BY <2>1, <3>3, <3>5 DEF Fits
  <2>3. CASE ~(r.state = "conflict" /\ cache[of].flight = 0)
    BY <2>1, <2>3
  <2>. QED
    BY <2>2, <2>3
<1>5. Still /\ DOMAIN wrote' = Keys /\ Fits(fetched, wrote') /\ page \in DOMAIN Pages
      /\ "page" \in DOMAIN Pages[page].views
  <2>1. page \in DOMAIN Pages /\ "page" \in DOMAIN Pages[page].views
    BY PageTable DEF PagesInv, PlaceFits
  <2>. HIDE DEF fetched
  <2>. QED
    BY <1>1, <1>4, <2>1 DEF Still, PagesInv, CacheFits
<1>. HIDE DEF fetched
<1>6. page' = page
  BY <1>1 DEF GoTo
<1>7. /\ AreaFits' /\ PlaceFits' /\ CacheFits' /\ ScreenFits' /\ Keys' = Keys /\ Pages' = Pages
      /\ \A k \in Keys \ DOMAIN Pages[page].given : cache'[k].data = fetched[k].data
  BY <1>1, <1>5, <1>6, PageShows
<1>8. DraftFits' /\ draft'.base = draft.base
  <2>1. DraftFits /\ draft \in [base : Nat, edits : {"none", "staged", "sent", "conflict"}]
    BY DEF PagesInv, DraftFits
  <2>2. here /\ r.state = "conflict" => draft.base # 0
    BY <1>2 DEF RequestFits
  <2>3. /\ draft' \in [base : Nat, edits : {"none", "staged", "sent", "conflict"}]
        /\ draft'.base = draft.base /\ (draft'.edits # "none" => draft.base # 0)
    BY <1>1, <2>1, <2>2 DEF DraftFits
  <2>4. ThisForm' = ThisForm
    BY <1>6, <1>7 DEF ThisForm
  <2>5. ThisForm.of \notin DOMAIN Pages[page].given
    BY <1>5, PageTable DEF PagesInv, ThisForm
  <2>6. ThisForm.of \in Keys => cache'[ThisForm.of].data = cache[ThisForm.of].data
    BY <1>4, <1>7, <2>5
  <2>. QED
    BY <1>7, <2>1, <2>3, <2>4, <2>6, DraftStays
<1>9. SpentFits' /\ Visit' = Visit
  BY <1>1 DEF PagesInv, SpentFits, Visit
<1>10. RequestsFit'
  BY <1>1, <1>6, <1>8, <1>9, RequestSame DEF PagesInv, RequestsFit
<1>11. OneRequestPerButton'
  BY <1>1, <1>7 DEF PagesInv, OneRequestPerButton
<1>. QED
  BY <1>7, <1>8, <1>9, <1>10, <1>11 DEF PagesInv

-----------------------------------------------------------------------------
(* The dropzone, the whole, and what follows. *)

LEMMA NothingMoves ==
    PagesInv /\ UNCHANGED vars => PagesInv'
<1>. SUFFICES ASSUME PagesInv, UNCHANGED vars
              PROVE  PagesInv'
  OBVIOUS
<1>1. /\ UNCHANGED area /\ UNCHANGED page /\ UNCHANGED view /\ UNCHANGED draft
      /\ UNCHANGED server /\ UNCHANGED cache /\ UNCHANGED requests /\ UNCHANGED wrote
      /\ UNCHANGED spent
  BY DEF vars
<1>2. /\ AreaFits' /\ PlaceFits' /\ Shown' = Shown /\ Keys' = Keys /\ Pages' = Pages
      /\ ThisForm' = ThisForm
  BY <1>1, SomewhereElse DEF Still
<1>3. SpentFits' /\ RequestsFit'
  BY <1>1, RequestsSame DEF PagesInv, SpentFits, Visit
<1>4. CacheFits' /\ ScreenFits' /\ DraftFits' /\ OneRequestPerButton'
  BY <1>1, <1>2 DEF PagesInv, CacheFits, ScreenFits, DraftFits, OneRequestPerButton
<1>. QED
  BY <1>2, <1>3, <1>4 DEF PagesInv

\* What an upload does to the pages: it counts, it changes what the server lists, it
\* invalidates the lists.
LEMMA UploadPages ==
    ASSUME PagesInv, UploadStep
    PROVE  PagesInv'
<1>1. CASE UNCHANGED vars
  BY <1>1, NothingMoves
<1>2. ASSUME NEW f \in {"requests", "troubles"}, Spend(f),
             UNCHANGED <<area, page, view, draft, server, cache, requests, wrote>>
      PROVE  PagesInv'
  <2>1. /\ UNCHANGED area /\ UNCHANGED page /\ UNCHANGED view /\ UNCHANGED draft
        /\ UNCHANGED server /\ UNCHANGED cache /\ UNCHANGED requests /\ UNCHANGED wrote
    BY <1>2
  <2>2. /\ AreaFits' /\ PlaceFits' /\ Shown' = Shown /\ Keys' = Keys /\ Pages' = Pages
        /\ ThisForm' = ThisForm
    BY <2>1, SomewhereElse DEF Still
  <2>3. SpentFits' /\ Visit' = Visit
    BY <1>2, SpendCounts DEF PagesInv
  <2>4. RequestsFit'
    BY <2>1, <2>3, RequestsSame DEF PagesInv
  <2>5. CacheFits' /\ ScreenFits' /\ DraftFits' /\ OneRequestPerButton'
    BY <2>1, <2>2 DEF PagesInv, CacheFits, ScreenFits, DraftFits, OneRequestPerButton
  <2>. QED
    BY <2>2, <2>3, <2>4, <2>5 DEF PagesInv
<1>3. ASSUME NEW u \in DOMAIN uploads, Finalize(u)
      PROVE  PagesInv'
  <2>1. /\ server' = [k \in Keys |-> IF k \in Listed THEN server[k] + 1 ELSE server[k]]
        /\ UNCHANGED area /\ UNCHANGED page /\ UNCHANGED view /\ UNCHANGED draft
        /\ UNCHANGED cache /\ UNCHANGED requests /\ UNCHANGED wrote /\ UNCHANGED spent
    BY <1>3 DEF Finalize
  <2>2. /\ DOMAIN server' = Keys
        /\ \A x \in Keys : server'[x] = server[x] \/ server'[x] = server[x] + 1
    BY <2>1
  <2>3. /\ AreaFits' /\ PlaceFits' /\ CacheFits' /\ ScreenFits' /\ DraftFits'
        /\ Keys' = Keys /\ Pages' = Pages
    BY <2>1, <2>2, ServerWrites
  <2>4. SpentFits' /\ RequestsFit' /\ OneRequestPerButton'
    BY <2>1, <2>3, RequestsSame DEF PagesInv, SpentFits, Visit, OneRequestPerButton
  <2>. QED
    BY <2>3, <2>4 DEF PagesInv
<1>4. ASSUME NEW u \in DOMAIN uploads, Uploaded(u)
      PROVE  PagesInv'
  <2> DEFINE w == [k \in Keys |-> IF k \in Listed THEN server[k] ELSE wrote[k]]
             c == Invalidating(cache, Invalidates)
  <2>1. /\ wrote' = w /\ cache' = c
        /\ UNCHANGED area /\ UNCHANGED page /\ UNCHANGED view /\ UNCHANGED draft
        /\ UNCHANGED server /\ UNCHANGED requests /\ UNCHANGED spent
    BY <1>4 DEF Uploaded
  <2>2. Fits(cache, wrote)
    BY CacheParts DEF PagesInv
  <2>3. /\ Fits(c, wrote)
        /\ \A k \in Keys : c[k].data = cache[k].data
        /\ \A k \in Keys : (\E p \in Invalidates : IsPrefix(p, k)) => Keeps(c[k], server[k], server[k])
    BY <2>2, InvalidatingKeeps
  <2>4. \A k \in Keys \cap Listed : \E p \in Invalidates : IsPrefix(p, k)
    BY UploadAssumption DEF PagesInv, AreaFits, CacheFits
  <2>. HIDE DEF c
  <2>5. \A k \in Keys : Keeps(c[k], server[k], w[k])
    BY <2>3, <2>4 DEF Fits
  <2>. HIDE DEF w
  <2>6. /\ AreaFits' /\ PlaceFits' /\ Shown' = Shown /\ Keys' = Keys /\ Pages' = Pages
        /\ ThisForm' = ThisForm
    BY <2>1, SomewhereElse DEF Still
  <2>7. DOMAIN w = Keys
    BY DEF w
  <2>8. CacheFits' /\ ScreenFits'
    BY <2>1, <2>3, <2>5, <2>6, <2>7 DEF CacheFits, ScreenFits, Fits, PagesInv
  <2>9. DraftFits'
    BY <2>1, <2>3, <2>6, DraftStays DEF PagesInv, DraftFits
  <2>10. SpentFits' /\ RequestsFit' /\ OneRequestPerButton'
    BY <2>1, <2>6, RequestsSame DEF PagesInv, SpentFits, Visit, OneRequestPerButton
  <2>. QED
    BY <2>6, <2>8, <2>9, <2>10 DEF PagesInv
<1>5. CASE Pick
  <2>1. \/ Spend("requests") /\ UNCHANGED <<area, page, view, draft, server, cache, requests, wrote>>
        \/ UNCHANGED vars
    BY <1>5 DEF Pick, vars
  <2>. QED
    BY <1>1, <1>2, <2>1
<1>6. ASSUME NEW u \in DOMAIN uploads, UploadFails(u)
      PROVE  PagesInv'
  BY <1>2, <1>6 DEF UploadFails
<1>7. ASSUME NEW u \in DOMAIN uploads, Minted(u) \/ Put(u)
      PROVE  PagesInv'
  BY <1>1, <1>7 DEF Minted, Put
<1>8. CASE Cancel \/ Dismiss
  <2>1. UNCHANGED vars
    BY <1>8 DEF Cancel, Dismiss, vars
  <2>. QED
    BY <1>1, <2>1
<1>. QED
  BY <1>3, <1>4, <1>5, <1>6, <1>7, <1>8 DEF UploadStep

LEMMA PagesStep ==
    ASSUME PagesInv, Next
    PROVE  PagesInv'
<1>1. CASE \E p \in DOMAIN Pages : Navigate(p)
  BY <1>1, NavigateStep
<1>2. CASE \E v \in DOMAIN Pages[page].views : ChangeView(v)
  BY <1>2, ChangeViewStep
<1>3. CASE Type \/ Discard
  BY <1>3, TypeStep, DiscardStep
<1>4. CASE \E k \in Keys : Arrive(k) \/ FetchFails(k) \/ Refetch(k) \/ OtherWrites(k)
  BY <1>4, ArriveStep, FetchFailsStep, RefetchStep, OtherWritesStep
<1>5. CASE \E t \in DOMAIN Pages[page].tasks : Submit(t)
  BY <1>5, SubmitStep
<1>6. CASE \E r \in requests : Apply(r) \/ Conflict(r) \/ Fail(r) \/ Succeed(r) \/ Reject(r)
  BY <1>6, ApplyStep, RefusedStep, SucceedStep, RejectStep
<1>. QED
  BY <1>1, <1>2, <1>3, <1>4, <1>5, <1>6 DEF Next

LEMMA PagesStart ==
    ASSUME Init
    PROVE  PagesInv
<1>1. PICK a \in DOMAIN Areas : Opening(a)
  BY DEF Init
<1>2. AreaFits /\ PlaceFits /\ SpentFits /\ RequestsFit /\ OneRequestPerButton
  BY <1>1 DEF Opening, AreaFits, PlaceFits, Pages, SpentFits, RequestsFit, OneRequestPerButton
<1>3. Keys = KeysOf[area.name] /\ area.name = a /\ Pages = Areas[a]
  BY <1>1 DEF Opening, Keys, Pages
<1>4. ASSUME NEW k \in Keys
      PROVE  /\ cache[k].data = (IF k \in Shown THEN 1 ELSE 0)
             /\ Keeps(cache[k], server[k], wrote[k]) /\ (k \in Shown => Ready(cache[k]))
  <2>0. /\ k \in KeysOf[a] /\ server[k] = 1 /\ wrote[k] = 1
        /\ cache[k] = IF k \in Areas[a][page].base \cup Areas[a][page].views[view]
                      THEN [Unknown EXCEPT !.data = 1] ELSE Unknown
    BY <1>1, <1>3 DEF Opening
  <2> DEFINE q == [Unknown EXCEPT !.data = 1]
  <2>1. /\ q \in Entry /\ q.data = 1 /\ q.flight = 0 /\ q.invalid = FALSE
        /\ Unknown \in Entry /\ Unknown.data = 0 /\ Unknown.flight = 0
    BY DEF Unknown, Entry
  <2>. HIDE DEF q
  <2>2. (k \in Shown => cache[k] = q) /\ (k \notin Shown => cache[k] = Unknown)
    <3>1. k \in Shown <=> k \in Areas[a][page].base \cup Areas[a][page].views[view]
      BY <1>3 DEF Shown, Mounted
    <3>. QED
      BY <2>0, <3>1 DEF q
  <2>3. Keeps(q, 1, 1) /\ Ready(q) /\ Keeps(Unknown, 1, 1)
    BY <2>1 DEF Keeps, Ready
  <2>. QED
    BY <2>0, <2>1, <2>2, <2>3
<1>5. CacheFits /\ ScreenFits
  BY <1>1, <1>3, <1>4 DEF Opening, CacheFits, ScreenFits, Shown, Mounted
<1>6. DraftFits
  <2>1. ThisForm = Areas[a][page].form
    BY <1>3 DEF ThisForm
  <2>2. CASE ThisForm.of \in Keys
    <3>1. ThisForm.of \in Shown
      BY <1>1, <1>3, <2>1, <2>2, TablesAssumption DEF Opening, Shown, Mounted
    <3>2. draft = [base |-> 1, edits |-> "none"]
      BY <1>1, <1>3, <2>1, <2>2 DEF Opening, Untouched
    <3>. QED
      BY <1>4, <2>2, <3>1, <3>2 DEF DraftFits
  <2>3. CASE ThisForm.of \notin Keys
    <3>1. draft = [base |-> 0, edits |-> "none"]
      BY <1>1, <1>3, <2>1, <2>3 DEF Opening, Untouched
    <3>. QED
      BY <2>3, <3>1 DEF DraftFits
  <2>. QED
    BY <2>2, <2>3
<1>. QED
  BY <1>2, <1>5, <1>6 DEF PagesInv

\* The dropzone of a page that goes on, of an upload, of a cancel.
LEMMA DropzoneStep ==
    ASSUME DropzoneFits, BusyMeansUploading, (Next /\ Aside) \/ UploadStep
    PROVE  DropzoneFits' /\ BusyMeansUploading'
<1> DEFINE Hook == [mount : Nat, status : Busy \cup {"none", "error"},
                    xhr : {NoXhr} \cup DOMAIN uploads]
<1>0. /\ dropzone \in Hook /\ uploads \in Seq(Runs) /\ dropzone.mount \in Nat
      /\ \A u \in DOMAIN uploads : uploads[u] \in Runs
      /\ Rearmed \in Hook /\ Rearmed.mount = dropzone.mount /\ Rearmed.status = "none"
  <2>1. /\ dropzone \in Hook /\ uploads \in Seq(Runs) /\ dropzone.mount \in Nat
        /\ \A u \in DOMAIN uploads : uploads[u] \in Runs
    BY DEF DropzoneFits
  <2> DEFINE S == Busy \cup {"none", "error"}
             X == {NoXhr} \cup DOMAIN uploads
  <2>2. "none" \in S /\ NoXhr \in X
    OBVIOUS
  <2>3. dropzone \in [mount : Nat, status : S, xhr : X]
    BY <2>1
  <2>. HIDE DEF S, X
  <2>4. /\ Rearmed \in [mount : Nat, status : S, xhr : X]
        /\ Rearmed.mount = dropzone.mount /\ Rearmed.status = "none"
    BY <2>2, <2>3 DEF Rearmed
  <2>. QED
    BY <2>1, <2>4 DEF S, X
<1>1. ASSUME NEW u \in DOMAIN uploads, NEW stage \in {"put", "finalize", "listed", "over"}, Goes(u, stage)
      PROVE  /\ uploads' \in Seq(Runs) /\ DOMAIN uploads' = DOMAIN uploads
             /\ uploads'[u].stage = stage
             /\ \A x \in DOMAIN uploads : /\ uploads'[x].mount = uploads[x].mount
                                          /\ x # u => uploads'[x] = uploads[x]
  <2> DEFINE s == [uploads[u] EXCEPT !.stage = stage]
  <2>1. s \in Runs /\ s.stage = stage /\ s.mount = uploads[u].mount
    BY <1>0 DEF Runs
  <2>2. uploads' = [uploads EXCEPT ![u] = s]
    BY <1>1 DEF Goes
  <2>. HIDE DEF s
  <2>. QED
    BY <1>0, <2>1, <2>2
<1>2. ASSUME NEW u \in DOMAIN uploads, NEW status \in Busy \cup {"error"}
      PROVE  /\ Progress(u, status) \in Hook /\ Progress(u, status).mount = dropzone.mount
             /\ \/ Progress(u, status).status = dropzone.status /\ ~(uploads[u].mount = dropzone.mount /\ dropzone.status # "none")
                \/ /\ uploads[u].mount = dropzone.mount /\ dropzone.status # "none"
                   /\ Progress(u, status).status = status
  <2>1. CASE uploads[u].mount = dropzone.mount /\ dropzone.status # "none"
    <3>1. Progress(u, status) = [dropzone EXCEPT !.status = status]
      BY <2>1 DEF Progress
    <3>. QED
      BY <1>0, <2>1, <3>1
  <2>2. CASE ~(uploads[u].mount = dropzone.mount /\ dropzone.status # "none")
    <3>1. Progress(u, status) = dropzone
      BY <2>2 DEF Progress
    <3>. QED
      BY <1>0, <2>2, <3>1
  <2>. QED
    BY <2>1, <2>2
<1>3. CASE Next /\ Aside
  <2>1. /\ uploads' = uploads
        /\ dropzone' = [Rearmed EXCEPT !.mount = @ + 1] \/ dropzone' = dropzone
    BY <1>3 DEF Aside
  <2>2. dropzone' \in Hook /\ (dropzone' = dropzone \/ dropzone'.status = "none")
    <3> DEFINE n == dropzone.mount + 1
    <3>1. [Rearmed EXCEPT !.mount = @ + 1] = [Rearmed EXCEPT !.mount = n] /\ n \in Nat
      BY <1>0
    <3>. HIDE DEF n
    <3>. QED
      BY <1>0, <2>1, <3>1
  <2>. QED
    BY <1>0, <2>1, <2>2 DEF DropzoneFits, BusyMeansUploading, Busy
<1>4. CASE Pick
  <2> DEFINE new == [mount |-> dropzone.mount, stage |-> "mint"]
  <2>1. CASE /\ dropzone' = [dropzone EXCEPT !.status = "preparing"]
             /\ uploads' = Append(uploads, new)
    <3>1. new \in Runs /\ new.mount = dropzone.mount /\ new.stage = "mint"
      BY <1>0 DEF Runs
    <3>. HIDE DEF new
    <3>2. /\ uploads' \in Seq(Runs) /\ DOMAIN uploads \subseteq DOMAIN uploads'
          /\ Len(uploads) + 1 \in DOMAIN uploads' /\ uploads'[Len(uploads) + 1] = new
      BY <1>0, <2>1, <3>1
    <3>3. dropzone' \in Hook /\ dropzone'.mount = dropzone.mount
      BY <1>0, <2>1 DEF Busy
    <3>. QED
      BY <3>1, <3>2, <3>3 DEF DropzoneFits, BusyMeansUploading
  <2>2. CASE /\ dropzone' = [dropzone EXCEPT !.status = "error"] /\ UNCHANGED uploads
    <3>1. dropzone' \in Hook /\ dropzone'.status = "error"
      BY <1>0, <2>2
    <3>. QED
      BY <1>0, <2>2, <3>1 DEF DropzoneFits, BusyMeansUploading, Busy
  <2>. QED
    BY <1>4, <2>1, <2>2 DEF Pick
<1>5. ASSUME NEW u \in DOMAIN uploads, Minted(u)
      PROVE  DropzoneFits' /\ BusyMeansUploading'
  <2> DEFINE p == Progress(u, "uploading")
  <2>1. Goes(u, "put") /\ \E x \in {u, p.xhr} : dropzone' = [p EXCEPT !.xhr = x]
    BY <1>5 DEF Minted
  <2>2. /\ p \in Hook /\ p.mount = dropzone.mount /\ (p.status \in Busy =>
               dropzone.status \in Busy \/ uploads[u].mount = dropzone.mount)
    BY <1>2 DEF Busy
  <2>. HIDE DEF p
  <2>3. dropzone' \in Hook /\ dropzone'.mount = p.mount /\ dropzone'.status = p.status
    BY <2>1, <2>2
  <2>4. DropzoneFits'
    BY <1>1, <2>1, <2>3 DEF DropzoneFits
  <2>. QED
    BY <1>1, <2>1, <2>2, <2>3, <2>4 DEF BusyMeansUploading
<1>6. ASSUME NEW u \in DOMAIN uploads, Put(u)
      PROVE  DropzoneFits' /\ BusyMeansUploading'
  <2>1. Goes(u, "finalize") /\ dropzone' = Progress(u, "finalizing")
    BY <1>6 DEF Put
  <2>2. /\ dropzone' \in Hook /\ dropzone'.mount = dropzone.mount
        /\ dropzone'.status \in Busy =>
               dropzone.status \in Busy \/ uploads[u].mount = dropzone.mount
    BY <1>2, <2>1 DEF Busy
  <2>3. DropzoneFits'
    BY <1>1, <2>1, <2>2 DEF DropzoneFits
  <2>. QED
    BY <1>1, <2>1, <2>2, <2>3 DEF BusyMeansUploading
<1>7. ASSUME NEW u \in DOMAIN uploads, Finalize(u)
      PROVE  DropzoneFits' /\ BusyMeansUploading'
  <2>1. Goes(u, "listed") /\ dropzone' = dropzone
    BY <1>7 DEF Finalize
  <2>2. DropzoneFits'
    BY <1>0, <1>1, <2>1 DEF DropzoneFits
  <2>. QED
    BY <1>1, <2>1, <2>2 DEF BusyMeansUploading
<1>8. ASSUME NEW u \in DOMAIN uploads, Uploaded(u)
      PROVE  DropzoneFits' /\ BusyMeansUploading'
  <2>1. /\ Goes(u, "over")
        /\ dropzone' = IF uploads[u].mount = dropzone.mount THEN Rearmed ELSE dropzone
    BY <1>8 DEF Uploaded
  <2>2. /\ dropzone' \in Hook
        /\ dropzone'.status = "none" \/ (dropzone' = dropzone /\ uploads[u].mount # dropzone.mount)
    BY <1>0, <2>1
  <2>3. DropzoneFits'
    BY <1>1, <2>1, <2>2 DEF DropzoneFits
  <2>4. CASE uploads[u].mount = dropzone.mount
    <3>1. dropzone'.status = "none"
      BY <2>2, <2>4
    <3>. QED
      BY <2>3, <3>1 DEF BusyMeansUploading, Busy
  <2>5. CASE uploads[u].mount # dropzone.mount
    <3>1. dropzone' = dropzone
      BY <2>1, <2>5
    <3>2. /\ DOMAIN uploads' = DOMAIN uploads
          /\ \A x \in DOMAIN uploads : x # u => uploads'[x] = uploads[x]
      BY <1>1, <2>1
    <3>. QED
      BY <2>3, <2>5, <3>1, <3>2 DEF BusyMeansUploading
  <2>. QED
    BY <2>3, <2>4, <2>5
<1>9. ASSUME NEW u \in DOMAIN uploads, UploadFails(u)
      PROVE  DropzoneFits' /\ BusyMeansUploading'
  <2>1. Goes(u, "over") /\ dropzone' = Progress(u, "error")
    BY <1>9 DEF UploadFails, AfterFailure
  <2>2. /\ dropzone' \in Hook /\ dropzone'.mount = dropzone.mount
        /\ dropzone'.status \in Busy =>
               dropzone.status \in Busy /\ uploads[u].mount # dropzone.mount
    BY <1>2, <2>1 DEF Busy
  <2>3. DropzoneFits'
    BY <1>1, <2>1, <2>2 DEF DropzoneFits
  <2>. QED
    BY <1>1, <2>1, <2>2, <2>3 DEF BusyMeansUploading
<1>10. CASE Cancel
  <2>1. /\ dropzone' = Rearmed
        /\ uploads' = [u \in DOMAIN uploads |->
                         IF Aborted(u) THEN [uploads[u] EXCEPT !.stage = "over"] ELSE uploads[u]]
    BY <1>10 DEF Cancel
  <2>2. \A u \in DOMAIN uploads : [uploads[u] EXCEPT !.stage = "over"] \in Runs
    BY <1>0 DEF Runs
  <2>3. /\ uploads' \in Seq(Runs) /\ DOMAIN uploads' = DOMAIN uploads
    BY <1>0, <2>1, <2>2
  <2>. QED
    BY <1>0, <2>1, <2>3 DEF DropzoneFits, BusyMeansUploading, Busy
<1>11. CASE Dismiss
  BY <1>0, <1>11 DEF Dismiss, DropzoneFits, BusyMeansUploading, Busy
<1>. QED
  BY <1>3, <1>4, <1>5, <1>6, <1>7, <1>8, <1>9, <1>10, <1>11 DEF UploadStep

\* What is kept per query is a function of the queries.
Tables ==
    /\ cache = [k \in DOMAIN cache |-> cache[k]] /\ server = [k \in DOMAIN server |-> server[k]]
    /\ wrote = [k \in DOMAIN wrote |-> wrote[k]]

LEMMA TablesStay ==
    ASSUME Tables, Next \/ UploadStep \/ UNCHANGED vars
    PROVE  Tables'
<1>1. cache' = [k \in DOMAIN cache' |-> cache'[k]]
  <2>1. CASE \E p, v, c : GoTo(p, v, c)
    BY <2>1 DEF GoTo, Mounting
  <2>2. CASE cache' = cache
    BY <2>2 DEF Tables
  <2>3. CASE \E k, q : cache' = [cache EXCEPT ![k] = q]
    BY <2>3 DEF Tables
  <2>4. CASE \/ \E c, prefixes : cache' = Invalidating(c, prefixes)
             \/ \E c, ks : cache' = Refetched(c, ks)
    BY <2>4 DEF Invalidating, Refetched
  <2>5. ASSUME NEW r, Succeed(r) \/ Reject(r)
        PROVE  \/ \E p, v, c : GoTo(p, v, c)
               \/ cache' = cache \/ (\E k, q : cache' = [cache EXCEPT ![k] = q])
               \/ \E c, ks : cache' = Refetched(c, ks)
    BY <2>5 DEF Succeed, Succeeds, Reject, Told
  <2>6. Next => \/ \E p, v, c : GoTo(p, v, c)
                \/ cache' = cache \/ (\E k, q : cache' = [cache EXCEPT ![k] = q])
                \/ \E c, ks : cache' = Refetched(c, ks)
    BY <2>5 DEF Next, Navigate, ChangeView, Type, Discard, Arrive, FetchFails, Refetch,
                OtherWrites, Submit, Apply, Conflict, Fail
  <2>7. UploadStep => cache' = cache \/ \E c, prefixes : cache' = Invalidating(c, prefixes)
    BY DEF UploadStep, Pick, Cancel, Dismiss, Minted, Put, Finalize, Uploaded, UploadFails, vars
  <2>. QED
    BY <2>1, <2>2, <2>3, <2>4, <2>6, <2>7 DEF vars
<1>2. server' = [k \in DOMAIN server' |-> server'[k]]
  <2>1. CASE Next
    <3>1. CASE \E r \in requests : Apply(r)
      BY <3>1 DEF Apply
    <3>2. CASE \E k \in Keys : OtherWrites(k)
      BY <3>2 DEF OtherWrites, Tables
    <3>3. CASE server' = server
      BY <3>3 DEF Tables
    <3>. QED
      BY <2>1, <3>1, <3>2, <3>3 DEF Next, Navigate, ChangeView, Type, Discard, Arrive,
         FetchFails, Refetch, Submit, Conflict, Fail, Succeed, Succeeds, Reject
  <2>2. CASE UploadStep
    <3>1. CASE \E u \in DOMAIN uploads : Finalize(u)
      BY <3>1 DEF Finalize
    <3>2. CASE server' = server
      BY <3>2 DEF Tables
    <3>. QED
      BY <2>2, <3>1, <3>2 DEF UploadStep, Pick, Cancel, Dismiss, Minted, Put, Uploaded,
         UploadFails, vars
  <2>. QED
    BY <2>1, <2>2 DEF vars, Tables
<1>3. wrote' = [k \in DOMAIN wrote' |-> wrote'[k]]
  <2>1. CASE Next
    <3>1. CASE \E r \in requests : Succeed(r)
      BY <3>1 DEF Succeed, Succeeds
    <3>2. CASE wrote' = wrote
      BY <3>2 DEF Tables
    <3>. QED
      BY <2>1, <3>1, <3>2 DEF Next, Navigate, ChangeView, Type, Discard, Arrive,
         FetchFails, Refetch, OtherWrites, Submit, Apply, Conflict, Fail, Reject
  <2>2. CASE UploadStep
    <3>1. CASE \E u \in DOMAIN uploads : Uploaded(u)
      BY <3>1 DEF Uploaded
    <3>2. CASE wrote' = wrote
      BY <3>2 DEF Tables
    <3>. QED
      BY <2>2, <3>1, <3>2 DEF UploadStep, Pick, Cancel, Dismiss, Minted, Put, Finalize,
         UploadFails, vars
  <2>. QED
    BY <2>1, <2>2 DEF vars, Tables
<1>. QED
  BY <1>1, <1>2, <1>3 DEF Tables

AppInv == PagesInv /\ Tables /\ DropzoneFits /\ BusyMeansUploading

LEMMA AppSteps ==
    AppInv /\ [PageStep \/ UploadStep]_allVars => AppInv'
<1>. SUFFICES ASSUME AppInv, [PageStep \/ UploadStep]_allVars
              PROVE  AppInv'
  OBVIOUS
<1>1. CASE PageStep
  BY <1>1, PagesStep, TablesStay, DropzoneStep DEF PageStep, AppInv
<1>2. CASE UploadStep
  BY <1>2, UploadPages, TablesStay, DropzoneStep DEF AppInv
<1>3. CASE UNCHANGED allVars
  BY <1>3, NothingMoves, TablesStay DEF AppInv, allVars, uploadVars, DropzoneFits, BusyMeansUploading
<1>. QED
  BY <1>1, <1>2, <1>3

LEMMA AppStarts == UploadInit => AppInv
<1>. SUFFICES ASSUME UploadInit
              PROVE  AppInv
  OBVIOUS
<1>1. /\ Init /\ uploads = <<>>
      /\ dropzone = [mount |-> 0, status |-> "none", xhr |-> NoXhr]
  BY DEF UploadInit
<1>2. DropzoneFits /\ BusyMeansUploading
  BY <1>1 DEF DropzoneFits, BusyMeansUploading, Busy, NoXhr
<1>3. Tables
  BY <1>1 DEF Init, Opening, Tables
<1>. QED
  BY <1>1, <1>2, <1>3, PagesStart DEF AppInv

-----------------------------------------------------------------------------
\* An action's staged edits are given up only as the user is told (ClientPages).
LEMMA EditsGivenUp ==
    ASSUME AppInv, [PageStep \/ UploadStep]_allVars
    PROVE  [draft.edits = "staged" /\ draft'.edits # "staged" => GivenUp]_vars
<1>. SUFFICES ASSUME draft.edits = "staged", draft'.edits # "staged"
              PROVE  GivenUp
  OBVIOUS
<1>1. DraftFits /\ draft.base # 0 /\ spent.visits + 1 # spent.visits
  BY DEF AppInv, PagesInv, DraftFits, SpentFits
<1>2. CASE Next
  <2>1. ASSUME NEW p \in DOMAIN Pages, Navigate(p)
        PROVE  GivenUp
    <3>1. spent'.visits = spent.visits + 1
      BY <2>1 DEF Navigate, AppInv, PagesInv, SpentFits
    <3>. QED
      BY <1>1, <3>1 DEF GivenUp
  <2>2. CASE Type \/ \E v \in DOMAIN Pages[page].views : ChangeView(v)
    BY <2>2 DEF Type, ChangeView
  <2>3. CASE Discard
    BY <2>3 DEF GivenUp
  <2>4. ASSUME NEW k \in Keys, Arrive(k)
        PROVE  GivenUp
    <3>1. PICK v \in cache[k].flight .. server[k] :
            /\ cache' = [cache EXCEPT ![k] = [@ EXCEPT !.data = v, !.flight = 0, !.invalid = FALSE]]
            /\ draft' = IF k = ThisForm.of THEN Refilled(ThisForm, draft, cache[k].data, v) ELSE draft
      BY <2>4 DEF Arrive
    <3>2. k = ThisForm.of /\ ThisForm.seeds = "each" /\ v # cache[k].data
      <4>1. k = ThisForm.of /\ draft' = Refilled(ThisForm, draft, cache[k].data, v)
        BY <3>1
      <4>2. [draft EXCEPT !.base = v].edits = "staged"
        BY <1>1 DEF DraftFits
      <4>. QED
        BY <1>1, <4>1, <4>2 DEF Refilled
    <3>3. cache'[k].data = v
      <4>1. cache[k] \in Entry /\ DOMAIN cache = Keys
        BY EntryParts DEF AppInv, PagesInv, CacheFits
      <4>. QED
        BY <3>1, <4>1 DEF Entry
    <3>. QED
      BY <3>2, <3>3 DEF GivenUp
  <2>5. ASSUME NEW k \in Keys, FetchFails(k) \/ Refetch(k) \/ OtherWrites(k)
        PROVE  GivenUp
    BY <2>5 DEF FetchFails, Refetch, OtherWrites
  <2>6. ASSUME NEW t \in DOMAIN Pages[page].tasks, Submit(t)
        PROVE  GivenUp
    BY <1>1, <2>6 DEF Submit, GivenUp, DraftFits
  <2>7. ASSUME NEW r \in requests, Apply(r) \/ Conflict(r) \/ Fail(r)
        PROVE  GivenUp
    BY <2>7 DEF Apply, Conflict, Fail
  <2>8. ASSUME NEW r \in requests, Succeed(r)
        PROVE  GivenUp
    <3> DEFINE last == r.step = Len(TaskOf(r).calls)
    <3>1. \/ Spend("visits")
          \/ /\ last /\ r.visit = Visit /\ TaskOf(r).saves
             /\ ThisForm.seeds = "kept" /\ requests' = (requests \ {r}) \cup {}
      BY <2>8 DEF Succeed, Succeeds
    <3>2. CASE Spend("visits")
      BY <1>1, <3>2, SpendCounts DEF AppInv, PagesInv, GivenUp, Visit
    <3>3. CASE requests' = (requests \ {r}) \cup {}
      BY <3>1, <3>2, <3>3 DEF GivenUp
    <3>. QED
      BY <3>1, <3>2, <3>3
  <2>9. ASSUME NEW r \in requests, Reject(r)
        PROVE  GivenUp
    BY <2>9 DEF Reject, GivenUp
  <2>. QED
    BY <1>2, <2>1, <2>2, <2>3, <2>4, <2>5, <2>6, <2>7, <2>8, <2>9 DEF Next
<1>3. CASE UNCHANGED vars
  BY <1>3 DEF vars
<1>4. CASE UploadStep
  BY <1>4 DEF UploadStep, Pick, Cancel, Dismiss, Minted, Put, Finalize, Uploaded, UploadFails, vars
<1>. QED
  BY <1>2, <1>3, <1>4 DEF PageStep, allVars

\* Once a task is acknowledged, every query on screen that it changed holds that version or
\* a later one, or is being fetched, for any tables in which the calls cover what they write.
THEOREM OwnWritesShowHolds == AppSpec => []OwnWritesShow
<1>1. AppInv => OwnWritesShow
  <2>1. ASSUME AppInv, NEW k \in Shown, Settled(cache[k])
        PROVE  cache[k].data >= wrote[k]
    <3>1. Keeps(cache[k], server[k], wrote[k]) /\ Ready(cache[k])
      BY <2>1 DEF AppInv, PagesInv, CacheFits, ScreenFits, Shown, Mounted
    <3>. QED
      BY <2>1, <3>1 DEF Settled, Keeps, Ready
  <2>. QED
    BY <2>1 DEF OwnWritesShow
<1>. QED
  BY <1>1, AppStarts, AppSteps, PTL DEF AppSpec

\* Buttons send one request at a time, a dropzone that says it is at work is, and every
\* variable of pages and dropzone has its type.
THEOREM ControlsTellHolds == AppSpec => []ControlsTell
<1>1. AppInv => ControlsTell
  <2>. SUFFICES ASSUME AppInv
                PROVE  ControlsTell
    OBVIOUS
  <2>1. \A k \in Keys : /\ cache[k] \in Entry /\ server[k] \in Nat /\ wrote[k] \in Nat
                        /\ cache[k].data <= server[k] /\ cache[k].flight <= server[k]
    BY DEF AppInv, PagesInv, CacheFits, Keeps
  <2>2. /\ server \in [Keys -> Nat] /\ wrote \in [Keys -> Nat] /\ cache \in [Keys -> Entry]
    BY <2>1 DEF AppInv, PagesInv, CacheFits, Keys, Tables
  <2>3. \A r \in requests : r.page \in DOMAIN Pages /\ r.task \in DOMAIN Pages[r.page].tasks
    BY DEF AppInv, PagesInv, RequestsFit, RequestFits, Request
  <2>4. TypeOK
    BY <2>1, <2>2, <2>3 DEF TypeOK, Entry, AppInv, PagesInv, AreaFits, PlaceFits, DraftFits
  <2>5. AppTypeOK
    <3>1. \A u \in DOMAIN uploads : uploads[u] \in Runs
      BY DEF AppInv, DropzoneFits
    <3>. QED
      BY <2>4, <3>1 DEF AppTypeOK, AppInv, DropzoneFits, Runs
  <2>. QED
    BY <2>5 DEF ControlsTell, AppInv, PagesInv
<1>. QED
  BY <1>1, AppStarts, AppSteps, PTL DEF AppSpec

\* Staged edits are only lost to the user: sent, discarded, left with the page, or replaced
\* by a new version of the record where the page does so.
THEOREM StagedEditsKeptHolds == AppSpec => StagedEditsKept
<1>1. AppInv /\ [PageStep \/ UploadStep]_allVars =>
        [draft.edits = "staged" /\ draft'.edits # "staged" => GivenUp]_vars
  BY EditsGivenUp
<1>. QED
  BY <1>1, AppStarts, AppSteps, PTL DEF AppSpec, StagedEditsKept
=============================================================================
