---------------------------- MODULE ClientParts ----------------------------
(***************************************************************************)
(* The pages over the query cache and the parts of the clients whose state *)
(* is their own, together for model checking: the inactivity guard, the    *)
(* permission editor, the audit trail and the theme.  They share nothing   *)
(* with each other nor with the pages, so one part moves in a behaviour    *)
(* and the others stay as they start: an interleaving of two shows to each *)
(* what it shows alone.                                                    *)
(***************************************************************************)
EXTENDS FileUpload, IdleWatch, RoleEditor, AuditsPage, ThemeSwitch

VARIABLE part

ownVars == <<idleVars, editorVars, auditsVars, themeVars>>
partsVars == <<allVars, ownVars, part>>

\* A page that is open and on which nothing happens.
AtRest ==
    LET a == CHOOSE b \in DOMAIN Areas : TRUE IN
    /\ UploadInit /\ Opening(a)
    /\ page = CHOOSE p \in DOMAIN Areas[a] : TRUE
    /\ view = CHOOSE v \in DOMAIN Areas[a][page].views : TRUE

PartsInit ==
    /\ part \in {"pages", "idle", "editor", "audits", "theme"}
    /\ IF part = "pages" THEN UploadInit ELSE AtRest
    /\ IdleInit /\ EditorInit /\ AuditsInit /\ ThemeInit
    /\ part # "theme" => mode = "light" /\ ~osDark /\ spec = CHOOSE s \in Specs : TRUE

PartsNext ==
    /\ UNCHANGED part
    /\ \/ part = "pages" /\ (PageStep \/ UploadStep) /\ UNCHANGED ownVars
       \/ part = "idle" /\ IdleNext /\ UNCHANGED <<allVars, editorVars, auditsVars, themeVars>>
       \/ part = "editor" /\ EditorNext /\ UNCHANGED <<allVars, idleVars, auditsVars, themeVars>>
       \/ part = "audits" /\ AuditsNext /\ UNCHANGED <<allVars, idleVars, editorVars, themeVars>>
       \/ part = "theme" /\ ThemeNext /\ UNCHANGED <<allVars, idleVars, editorVars, auditsVars>>

\* Each part starts where none of its fair actions is enabled: it may stay there.
PartsSpec == PartsInit /\ [][PartsNext]_partsVars /\ WF_allVars(Answer) /\ IdleFairness
=============================================================================
