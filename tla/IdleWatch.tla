----------------------------- MODULE IdleWatch -----------------------------
(***************************************************************************)
(* The inactivity guard of both clients (auth/use-inactivity-timeout.ts):  *)
(* the tabs of one browser share a stamp of the last activity, each looks  *)
(* at it once a second, warns when it is Idle old and signs the user out   *)
(* when it is Idle + Warning old.                                          *)
(*                                                                         *)
(* What matters of the time is the age of the stamp, up to its limit.      *)
(* Tabs look at it late - the browser slows the timers of hidden tabs, the *)
(* machine sleeps - so no tab has to look before time passes.              *)
(***************************************************************************)
EXTENDS Naturals, FiniteSets

CONSTANTS
    Tabs,
    Idle, Warning,  \* idleMs and warningMs, in ticks
    MaxSignals      \* what the user does: signs in and out, moves the mouse, answers

ASSUME IdleAssumption == Idle \in Nat \ {0} /\ Warning \in Nat \ {0} /\ MaxSignals \in Nat

VARIABLES
    signedIn,   \* a session is stored, for all tabs
    tab,        \* [Tabs -> ...]: on the login page, loading the shell, or its guard mounted
    phase,      \* [Tabs -> ...], phaseRef; "expired" signs out at once
    age,        \* now - activityStore.get(), at most Limit; a missing stamp is that old
    writer,     \* history: the tab that wrote the stamp
    mounted,    \* history: time since a guard was mounted, at most Warning
    signals

idleVars == <<signedIn, tab, phase, age, writer, mounted, signals>>

Nobody == "nobody"
Limit == Idle + Warning
SmallerOf(a, b) == IF a < b THEN a ELSE b

evaluateInactivity(idle) ==
    IF idle >= Limit THEN "expired" ELSE IF idle >= Idle THEN "warning" ELSE "active"

Signal == signals < MaxSignals /\ signals' = signals + 1

Leaves(t) == tab' = [tab EXCEPT ![t] = "out"] /\ phase' = [phase EXCEPT ![t] = "active"]

(***************************************************************************)
(* The session.  Signing in only stores it: the guard is part of the shell *)
(* that is then loaded.                                                    *)
(***************************************************************************)
SignIn(t) ==
    /\ tab[t] = "out" /\ Signal
    /\ signedIn' = TRUE
    /\ tab' = [tab EXCEPT ![t] = "loading"]
    /\ UNCHANGED <<phase, age, writer, mounted>>

\* From the menu, or "Sign out now" in the warning.
SignOut(t) ==
    /\ tab[t] = "watching" /\ Signal
    /\ signedIn' = FALSE
    /\ Leaves(t)
    /\ UNCHANGED <<age, writer, mounted>>

\* A storage event, or the tab becoming visible: what is stored now is what counts.
Hears(t) ==
    /\ IF signedIn
       THEN tab[t] = "out" /\ tab' = [tab EXCEPT ![t] = "loading"] /\ UNCHANGED phase
       ELSE tab[t] # "out" /\ Leaves(t)
    /\ UNCHANGED <<signedIn, age, writer, mounted, signals>>

(***************************************************************************)
(* The guard.                                                              *)
(***************************************************************************)
\* mutant: only a missing stamp is seeded, not one left over from an expired session
Stale_IfMissing == writer = Nobody

Stale == writer = Nobody \/ age >= Idle

Mount(t) ==
    /\ tab[t] = "loading" /\ signedIn
    /\ tab' = [tab EXCEPT ![t] = "watching"]
    /\ IF Stale THEN age' = 0 /\ writer' = t ELSE UNCHANGED <<age, writer>>
    /\ phase' = [phase EXCEPT ![t] = evaluateInactivity(age')]
    /\ mounted' = 0
    /\ UNCHANGED <<signedIn, signals>>

\* Passive activity counts until this tab has seen that the stamp is old.
Records(t) == tab[t] = "watching" /\ phase[t] = "active"

recordActivity(t) ==
    /\ Records(t) /\ Signal
    /\ age' = 0 /\ writer' = t
    /\ UNCHANGED <<signedIn, tab, phase, mounted>>

\* The dialog is open.
Warned(t) == tab[t] = "watching" /\ phase[t] = "warning"

\* "I'm here".
dismiss(t) ==
    /\ Warned(t) /\ Signal
    /\ age' = 0 /\ writer' = t
    /\ phase' = [phase EXCEPT ![t] = "active"]
    /\ UNCHANGED <<signedIn, tab, mounted>>

Expired(t) == evaluateInactivity(age) = "expired"

\* Each second, on a storage event and when the tab becomes visible.
evaluateNow(t) ==
    /\ tab[t] = "watching" /\ ~Expired(t)
    /\ phase' = [phase EXCEPT ![t] = evaluateInactivity(age)]
    /\ UNCHANGED <<signedIn, tab, age, writer, mounted, signals>>

\* The same look at the stamp when it is past its limit: onExpire, for whatever session.
Expires(t) ==
    /\ tab[t] = "watching" /\ Expired(t)
    /\ signedIn' = FALSE
    /\ Leaves(t)
    /\ UNCHANGED <<age, writer, mounted, signals>>

TimePasses ==
    /\ age' = SmallerOf(age + 1, Limit)
    /\ mounted' = SmallerOf(mounted + 1, Warning)
    /\ UNCHANGED <<signedIn, tab, phase, writer, signals>>

IdleInit ==
    /\ signedIn = FALSE
    /\ tab = [t \in Tabs |-> "out"]
    /\ phase = [t \in Tabs |-> "active"]
    /\ age = Limit /\ writer = Nobody
    /\ mounted = Warning
    /\ signals = 0

IdleNext ==
    \/ TimePasses
    \/ \E t \in Tabs :
           \/ SignIn(t) \/ SignOut(t) \/ Hears(t) \/ Mount(t)
           \/ recordActivity(t) \/ dismiss(t) \/ evaluateNow(t) \/ Expires(t)

\* The clock runs, and the browser runs the timers, storage events and script loads of a tab.
IdleFairness ==
    /\ WF_idleVars(TimePasses)
    /\ \A t \in Tabs : WF_idleVars(Hears(t) \/ Mount(t)) /\ WF_idleVars(evaluateNow(t) \/ Expires(t))

IdleSpec == IdleInit /\ [][IdleNext]_idleVars /\ IdleFairness

(***************************************************************************)
(* Properties.                                                             *)
(***************************************************************************)
IdleTypeOK ==
    /\ signedIn \in BOOLEAN
    /\ tab \in [Tabs -> {"out", "loading", "watching"}]
    /\ phase \in [Tabs -> {"active", "warning"}]
    /\ age \in 0..Limit /\ mounted \in 0..Warning
    /\ writer \in Tabs \cup {Nobody}
    /\ signals \in 0..MaxSignals

\* A fresh sign-in is not signed straight back out by what an earlier session left behind
\* (use-inactivity-timeout.ts:108-113): once the shell is mounted in any tab, no tab signs
\* the user out for inactivity before a whole warning has gone by.
GraceAfterMount == [][(\E t \in Tabs : Expires(t)) => mounted >= Warning]_idleVars

\* A warning on screen is only taken away by an answer, by the end of the session, or by
\* activity in another tab (use-inactivity-timeout.ts:31-33): never by this tab's own mouse.
WarningHolds ==
    [][\A t \in Tabs :
           phase[t] = "warning" /\ phase'[t] = "active" =>
               dismiss(t) \/ tab'[t] = "out" \/ writer # t]_idleVars

\* A session nobody uses any more ends, whatever the tabs have slept through.
AbandonedSessionEnds == signedIn ~> ~signedIn

\* The guard ends what it should, and nothing else.
GuardKeepsItsWord == GraceAfterMount /\ WarningHolds /\ AbandonedSessionEnds
=============================================================================
