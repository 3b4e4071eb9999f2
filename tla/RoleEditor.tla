----------------------------- MODULE RoleEditor -----------------------------
(***************************************************************************)
(* The permission editor of a role (pages/identity/role-detail.tsx): a     *)
(* selection staged over the permissions the role holds, edited by single  *)
(* toggles, whole groups and presets, through a search and a filter that   *)
(* hide part of the catalog.  To ClientPages saving it is one task among   *)
(* others; here it is what the selection holds that matters.               *)
(*                                                                         *)
(* One administrator edits the role, which is not one of the built-in ones *)
(* (all of whose controls are disabled).                                   *)
(***************************************************************************)
EXTENDS Naturals, FiniteSetsExt

CONSTANTS
    Catalog,    \* the catalog: a set of [name, resource, isBasic]
    Granted,    \* what the role holds at first: names, in the catalog or not
    RootOnly,   \* the names the server drops from an update outside the root tenant
    Matches,    \* [searches -> SUBSET names]
    MaxEdits

NoSearch == ""

ASSUME CatalogAssumption ==
    /\ \A p, q \in Catalog : p.name = q.name => p = q
    /\ IsFiniteSet(Catalog) /\ IsFiniteSet({p.name : p \in Catalog}) /\ IsFiniteSet(Granted)
    /\ "none" \notin {p.name : p \in Catalog} \cup Granted   \* a set of names is not None
    /\ MaxEdits \in Nat /\ NoSearch \in DOMAIN Matches

VARIABLES
    stored,     \* the permissions of the role on the server
    payload,    \* those of the payload the form was filled from, which are `initial` too
    selected,
    look,       \* search, filter, and the groups opened by hand
    saving,     \* the permissions of the request in flight, or None
    fetch,      \* what the role held when the fetch in flight was sent, or None
    stale,      \* the payload is marked, and no fetch has brought another
    preset,     \* history: a preset replaced the selection since it was filled
    edits

editorVars == <<stored, payload, selected, look, saving, fetch, stale, preset, edits>>

None == {"none"}
Names == {p.name : p \in Catalog}
Basic == {p.name : p \in {q \in Catalog : q.isBasic}}
Everything == [search |-> NoSearch, filter |-> "all", opened |-> {}]

\* groupPermissions: by resource.  The page shows the groups in the catalog's order,
\* which nothing here depends on.
Groups ==
    {[resource |-> p.resource, names |-> {q.name : q \in {r \in Catalog : r.resource = p.resource}}] :
        p \in Catalog}

(***************************************************************************)
(* What is changed, and what is shown.                                     *)
(***************************************************************************)
dirtyPerms == Cardinality(selected) # Cardinality(payload) \/ selected \ payload # {}

modified == {n \in Names : n \in selected <=> n \notin payload}

matchesFilter ==
    CASE look.filter = "enabled" -> selected
      [] look.filter = "modified" -> modified
      [] look.filter = "basic" -> Basic
      [] OTHER -> Names

forceExpand == look.search # NoSearch \/ look.filter # "all"

visible(group) == group.names \cap Matches[look.search] \cap matchesFilter

\* A chip that would show nothing is disabled.
chips ==
    {"all", "basic"} \cup (IF selected # {} THEN {"enabled"} ELSE {})
                     \cup (IF modified # {} THEN {"modified"} ELSE {})

(***************************************************************************)
(* Editing.                                                                *)
(***************************************************************************)
Edit == edits < MaxEdits /\ edits' = edits + 1

Selects(names, replaced) ==
    /\ Edit
    /\ selected' = names
    /\ preset' = (preset \/ replaced)
    /\ UNCHANGED <<stored, payload, look, saving, fetch, stale>>

togglePerm ==
    \E g \in Groups : \E n \in visible(g) :
        /\ forceExpand \/ g.resource \in look.opened
        /\ Selects(IF n \in selected THEN selected \ {n} ELSE selected \cup {n}, FALSE)

\* mutant: the new selection is built from the catalog
GroupSet_Rebuilt(group, on) ==
    (IF on THEN group.names ELSE {}) \cup ((selected \cap Names) \ group.names)

GroupSet(group, on) == IF on THEN selected \cup group.names ELSE selected \ group.names

\* The whole group, also where the search or the filter shows only part of it.
setGroupAll ==
    \E g \in Groups : \E on \in BOOLEAN :
        /\ visible(g) # {}
        /\ IF on THEN g.names \ selected # {} ELSE g.names \cap selected # {}
        /\ Selects(GroupSet(g, on), FALSE)

Presets == \E names \in {Basic, Names, {}} : Selects(names, TRUE)

LooksAt(l) == look' = l /\ UNCHANGED <<stored, payload, selected, saving, fetch, stale, preset, edits>>

Browse ==
    \/ \E s \in DOMAIN Matches : LooksAt([look EXCEPT !.search = s])
    \/ \E f \in chips : LooksAt([look EXCEPT !.filter = f])
    \/ \E g \in Groups : /\ visible(g) # {}
                         /\ LooksAt([look EXCEPT !.opened = SymDiff(@, {g.resource})])
    \/ ~forceExpand /\ \E o \in {{}, {g.resource : g \in Groups}} : LooksAt([look EXCEPT !.opened = o])
    \/ (\A g \in Groups : visible(g) = {}) /\ LooksAt([look EXCEPT !.search = NoSearch, !.filter = "all"])

(***************************************************************************)
(* Saving, and fetching the role.                                          *)
(***************************************************************************)
savePerms ==
    /\ saving = None /\ dirtyPerms /\ Edit
    /\ saving' = selected
    /\ UNCHANGED <<stored, payload, selected, look, fetch, stale, preset>>

ResetSelection ==
    /\ saving = None /\ dirtyPerms /\ Edit
    /\ selected' = payload
    /\ UNCHANGED <<stored, payload, look, saving, fetch, stale, preset>>

\* UpdatePermissionsAsync; onSuccess fetches the role again.
PermsSaved ==
    /\ saving # None
    /\ stored' = saving \ RootOnly
    /\ saving' = None
    /\ fetch' = stored' /\ stale' = TRUE
    /\ UNCHANGED <<payload, selected, look, preset, edits>>

\* Refused; or done, and the answer lost.
PermsRefused ==
    /\ saving # None
    /\ stored' \in {stored, saving \ RootOnly}
    /\ stale' = (stale \/ stored' # stored)
    /\ saving' = None
    /\ UNCHANGED <<payload, selected, look, fetch, preset, edits>>

FetchRole ==
    /\ fetch = None /\ Edit
    /\ fetch' = stored
    /\ UNCHANGED <<stored, payload, selected, look, saving, stale, preset>>

\* A payload like the last one is the same object, and fills nothing.
RoleFetched ==
    /\ fetch # None
    /\ payload' \in {fetch, stored}
    /\ stale' = (payload' # stored)
    /\ IF payload' = payload THEN UNCHANGED <<selected, preset>> ELSE selected' = payload' /\ preset' = FALSE
    /\ fetch' = None
    /\ UNCHANGED <<stored, look, saving, edits>>

RoleFetchFails ==
    /\ fetch # None
    /\ fetch' = None
    /\ UNCHANGED <<stored, payload, selected, look, saving, stale, preset, edits>>

EditorInit ==
    /\ stored = Granted /\ payload = Granted /\ selected = Granted
    /\ look = Everything
    /\ saving = None /\ fetch = None /\ stale = FALSE
    /\ preset = FALSE /\ edits = 0

EditorNext ==
    \/ togglePerm \/ setGroupAll \/ Presets \/ Browse
    \/ savePerms \/ ResetSelection \/ PermsSaved \/ PermsRefused \/ FetchRole \/ RoleFetched \/ RoleFetchFails

EditorSpec == EditorInit /\ [][EditorNext]_editorVars

(***************************************************************************)
(* Properties.                                                             *)
(***************************************************************************)
Held == Names \cup Granted

EditorTypeOK ==
    /\ stored \in SUBSET Held /\ payload \in SUBSET Held /\ selected \in SUBSET Held
    /\ look \in [search : DOMAIN Matches, filter : {"all", "enabled", "modified", "basic"},
                 opened : SUBSET {g.resource : g \in Groups}]
    /\ saving \in {None} \cup SUBSET Held /\ fetch \in {None} \cup SUBSET Held
    /\ stale \in BOOLEAN /\ preset \in BOOLEAN /\ edits \in 0..MaxEdits

\* A permission the role holds and the catalog does not list - of a module that is gone, say -
\* is on no row of the editor.  Only a preset takes it from the role: toggles, groups and
\* saves, under any search and filter, keep it.
UnlistedKept == selected \ Names = payload \ Names \/ preset

\* "All changes saved" (role-detail.tsx:441) is true: what is selected is what the role holds,
\* also where the server has dropped a part of what was sent - unless a save has changed the
\* role and the fetch after it has failed or not come back.
CleanMeansSaved == ~dirtyPerms /\ saving = None /\ ~stale => selected = stored

\* What the editor says and sends is the role's.
EditorTells == EditorTypeOK /\ UnlistedKept /\ CleanMeansSaved
=============================================================================
