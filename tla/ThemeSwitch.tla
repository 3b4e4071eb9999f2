---------------------------- MODULE ThemeSwitch ----------------------------
(***************************************************************************)
(* Colour mode and accent (components/theme/theme-provider.tsx and the     *)
(* appearance settings).  A new mode is worked out at the click, but       *)
(* committed inside a view transition, whose callback the browser runs     *)
(* later, in order; the OS preference is listened to while the committed   *)
(* mode follows it.  The accent is a class on the root element, or, when   *)
(* picked by hue, inline styles that win over any class.                   *)
(*                                                                         *)
(* Font, density and motion are one effect each and are left out.          *)
(***************************************************************************)
EXTENDS Naturals, Sequences

CONSTANTS Palettes,      \* the accents with a class; the default one has none
          Specs,        \* hues of a custom accent
          MaxSwitches

ASSUME ThemeAssumption == Palettes \cap {"none", "default", "custom"} = {} /\ 0 \notin Specs

VARIABLES
    mode, dark,     \* the committed ThemeMode; the `dark` class, and `resolved` with it
    storedMode,     \* THEME_STORAGE_KEY
    osDark,         \* prefers-color-scheme
    commits,        \* the callbacks of view transitions not run yet
    animates,       \* theme-ready, view transitions supported, motion not reduced
    raced,          \* history: the OS changed under a mode not committed yet
    accent, spec,   \* the accent and the custom spec, as in storage
    root,           \* of the document: its accent class and inline brand colours
    picker,         \* the custom accent dialog: 0 closed, else its draft
    switches

modeVars == <<mode, dark, storedMode, osDark, commits, animates, raced>>
accentVars == <<accent, spec, root, picker>>
themeVars == <<modeVars, accentVars, switches>>

Modes == {"light", "dark", "system"}
SwitchOnce == switches < MaxSwitches /\ switches' = switches + 1

ResolvedDark(m, os) == m = "dark" \/ (m = "system" /\ os)

(***************************************************************************)
(* withThemeTransition: now, or when the browser gets to it.               *)
(***************************************************************************)
Committing(c) ==
    /\ mode' = IF c.mode = "kept" THEN mode ELSE c.mode
    /\ dark' = c.dark

withThemeTransition(c) ==
    IF animates THEN commits' = Append(commits, c) /\ UNCHANGED <<mode, dark>>
                ELSE Committing(c) /\ UNCHANGED commits

Commit ==
    /\ commits # <<>>
    /\ Committing(Head(commits))
    /\ commits' = Tail(commits)
    /\ UNCHANGED <<storedMode, osDark, animates, raced, accentVars, switches>>

setMode(m) ==
    /\ SwitchOnce
    /\ withThemeTransition([mode |-> m, dark |-> ResolvedDark(m, osDark)])
    /\ storedMode' = m
    /\ raced' = (raced /\ commits # <<>>)
    /\ UNCHANGED <<osDark, animates, accentVars>>

Follows == mode = "system"

OsChanges ==
    /\ SwitchOnce
    /\ osDark' = ~osDark
    /\ IF Follows THEN withThemeTransition([mode |-> "kept", dark |-> osDark'])
                  ELSE UNCHANGED <<mode, dark, commits>>
    /\ raced' = (raced \/ \E i \in DOMAIN commits : commits[i].mode # "kept")
    /\ UNCHANGED <<storedMode, animates, accentVars>>

\* The first frame is painted: from now on changes are animated.
ThemeReady ==
    /\ ~animates /\ SwitchOnce
    /\ animates' = TRUE
    /\ UNCHANGED <<mode, dark, storedMode, osDark, commits, raced, accentVars>>

(***************************************************************************)
(* The accent.                                                             *)
(***************************************************************************)
\* mutant: the inline colours of a custom accent linger under a preset
Accented_Lingering(id, s) ==
    IF id = "custom" THEN [class |-> "none", inline |-> s]
    ELSE [root EXCEPT !.class = IF id \in Palettes THEN id ELSE "none"]

Accented(id, s) ==
    IF id = "custom" THEN [class |-> "none", inline |-> s]
    ELSE [class |-> IF id \in Palettes THEN id ELSE "none", inline |-> 0]

\* A card of the settings, or the command palette, which opens over the dialog too.
setAccent(id) ==
    /\ SwitchOnce
    /\ accent' = id
    /\ root' = Accented(id, spec)
    /\ UNCHANGED <<spec, picker, modeVars>>

\* The custom card: it becomes the accent and its dialog opens on the current spec.
OpenPicker ==
    /\ picker = 0 /\ SwitchOnce
    /\ accent' = "custom"
    /\ root' = Accented("custom", spec)
    /\ picker' = spec
    /\ UNCHANGED <<spec, modeVars>>

PickHue(h) ==
    /\ picker # 0 /\ h # picker /\ SwitchOnce
    /\ picker' = h
    /\ UNCHANGED <<accent, spec, root, modeVars>>

ApplyAccent ==
    /\ picker # 0
    /\ spec' = picker /\ accent' = "custom"
    /\ root' = Accented("custom", picker)
    /\ picker' = 0
    /\ UNCHANGED <<modeVars, switches>>

ClosePicker ==
    /\ picker # 0
    /\ picker' = 0
    /\ UNCHANGED <<accent, spec, root, modeVars, switches>>

(***************************************************************************)
(* The page is loaded again: index.html sets the class from storage before *)
(* the provider mounts, which never sets it; its effects set the accent.   *)
(***************************************************************************)
Reload ==
    /\ SwitchOnce
    /\ mode' = storedMode
    /\ dark' = ResolvedDark(storedMode, osDark)
    /\ commits' = <<>> /\ animates' = FALSE /\ raced' = FALSE
    /\ root' = Accented(accent, spec)
    /\ picker' = 0
    /\ UNCHANGED <<storedMode, osDark, accent, spec>>

ThemeInit ==
    /\ mode \in Modes /\ storedMode = mode
    /\ osDark \in BOOLEAN /\ dark = ResolvedDark(mode, osDark)
    /\ commits = <<>> /\ animates = FALSE /\ raced = FALSE
    /\ accent = "default" /\ spec \in Specs
    /\ root = [class |-> "none", inline |-> 0]
    /\ picker = 0 /\ switches = 0

ThemeNext ==
    \/ \E m \in Modes : setMode(m)
    \/ Commit \/ OsChanges \/ ThemeReady \/ Reload
    \/ \E id \in Palettes \cup {"default"} : setAccent(id)
    \/ OpenPicker \/ ApplyAccent \/ ClosePicker
    \/ \E h \in Specs : PickHue(h)

ThemeSpec == ThemeInit /\ [][ThemeNext]_themeVars

(***************************************************************************)
(* Properties.                                                             *)
(***************************************************************************)
ThemeTypeOK ==
    /\ mode \in Modes /\ storedMode \in Modes /\ dark \in BOOLEAN /\ osDark \in BOOLEAN
    /\ commits \in Seq([mode : Modes \cup {"kept"}, dark : BOOLEAN])
    /\ accent \in Palettes \cup {"default", "custom"} /\ spec \in Specs
    /\ root \in [class : Palettes \cup {"none"}, inline : Specs \cup {0}]
    /\ picker \in Specs \cup {0}

\* Once the browser has run the transitions, the page is in the mode last chosen, light or
\* dark as that mode says now: changes of the OS are followed in "system" and in no other
\* mode.  Except an OS change between a click and its commit, which the provider misses.
ThemeSettles ==
    commits = <<>> /\ ~raced => mode = storedMode /\ dark = ResolvedDark(mode, osDark)

\* The colours on screen are those of the accent chosen: inline ones win over a class, so
\* none may be left over (theme-provider.tsx:181-183).
Painted == IF root.inline # 0 THEN <<"custom", root.inline>> ELSE <<"class", root.class>>

AccentShows ==
    Painted = CASE accent = "custom" -> <<"custom", spec>>
                [] accent = "default" -> <<"class", "none">>
                [] OTHER -> <<"class", accent>>

\* What is on screen is what was chosen.
ThemeShows == ThemeTypeOK /\ ThemeSettles /\ AccentShows
=============================================================================
