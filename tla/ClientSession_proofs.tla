-------------------------- MODULE ClientSession_proofs --------------------------
(***************************************************************************)
(* Proofs about ClientSession for either client, every set of users and    *)
(* every number of sign-ins, grants and calls: whose credential a request  *)
(* goes out with, whose data is shown, that the console's refreshes never  *)
(* spend its own session, and that nobody waits for nothing.               *)
(***************************************************************************)
EXTENDS ClientSession, SequenceTheorems, TLAPS

-----------------------------------------------------------------------------
(* Values. *)

Who == Users \cup {NoUser}

\* A credential that some session row stands for, or none.
Creds == {None} \cup [sid : DOMAIN rows, gen : Nat]

TabState == [seen : Creds, last : Who, hydrated : BOOLEAN, booting : BOOLEAN, login : Who,
             acting : 0..Len(grants), notice : BOOLEAN,
             cache : SUBSET [acting : Nat, user : Who], behind : BOOLEAN]
CallState == [kind : {"none", "page", "enter", "exit", "perms"},
              stage : {"idle", "sent", "waiting", "resent"},
              captured : 0..Len(grants), acting : 0..Len(grants), token : Creds,
              on : Starters \cup {"none"}, kept : BOOLEAN]
RefreshState == [stage : {"none", "sent", "rotated", "refused"}, cookie : Creds, token : Creds]

RowsFit ==
    /\ rows \in Seq([user : Users, gen : Nat, open : BOOLEAN]) /\ Len(rows) <= MaxLogins
    /\ grants \in Seq([sid : Nat, live : BOOLEAN]) /\ Len(grants) <= MaxGrants

ValuesFit ==
    /\ app \in Apps
    /\ RowsFit
    /\ store \in [token : Creds, perms : Who] /\ cookie \in Creds /\ byes \subseteq Creds
    /\ tab \in [Tabs -> TabState]
    /\ call \in [Tabs -> [Slots -> CallState]]
    /\ refresh \in [Tabs -> [Starters -> RefreshState]]
    /\ shared \in [Tabs -> Slots \cup {"none"}]
    /\ strained \in BOOLEAN

-----------------------------------------------------------------------------
(* The inductive invariant. *)

\* Which calls a slot makes, and under which identity a call runs: it is sent under the one
\* captured when it began, the operator's own for permissions and exchanges, and what a page's
\* call brings is kept only while the tab is in that identity still.
CallFits(n, c, acting) ==
    c.stage # "idle" =>
        /\ c.kind = "page" <=> n = "page"
        /\ c.kind = "perms" <=> n = "perms"
        /\ AsOperator(c.kind) => c.captured = 0
        /\ c.kind = "exit" => c.captured # 0
        /\ c.stage \in {"sent", "resent"} => c.acting = c.captured
        /\ c.kind = "page" /\ c.kept => c.captured = acting

\* A tab and its calls: what is cached is of the tab's identity unless that changed behind its
\* back, a tab nobody is signed in at holds nothing, and permissions that are missing are on
\* their way.
TabFits(tb, cs) ==
    /\ tb.acting # 0 => app = "console"
    /\ ~tb.behind => tb.cache \subseteq {Identity(tb.acting, tb.seen)}
    /\ tb.seen = None /\ (tb.behind => app = "console") =>
          tb.cache = {} /\ \A n \in Slots : cs[n].stage # "idle" /\ cs[n].kind = "page" => ~cs[n].kept
    /\ tb.seen # None /\ ~tb.hydrated => cs["perms"].stage # "idle" /\ cs["perms"].kept
    /\ \A n \in Slots : CallFits(n, cs[n], tb.acting)

TabsFit == \A t \in Tabs : TabFits(tab[t], call[t])

\* The console's one tab knows of every change of the stored token.
ConsoleSees == app = "console" => tab[1].seen \in {None, store.token}

\* What is waited for is on its way.
WaitsFit(t) ==
    /\ \A n \in Slots : call[t][n].stage = "waiting" => call[t][n].on \in Slots
                           /\ refresh[t][call[t][n].on].stage # "none"
    /\ shared[t] # "none" => refresh[t][shared[t]].stage # "none"
    /\ tab[t].booting => refresh[t]["boot"].stage # "none"

WaitInv == \A t \in Tabs : WaitsFit(t)

\* The bounds are kept by what was begun within them.
BoundsFit ==
    /\ \A t \in Tabs : tab[t].login # NoUser =>
          Len(rows) < MaxLogins /\ \A x \in Tabs : x # t => tab[x].login = NoUser
    /\ \A t \in Tabs, n \in Slots : call[t][n].stage # "idle" /\ call[t][n].kind = "enter" =>
          app = "console" /\ n = "dialog" /\ Len(grants) < MaxGrants

\* A credential is its session's current one, unless the session is closed.
Current(token) == rows[token.sid].open => rows[token.sid].gen = token.gen

RefreshFits(r) ==
    /\ r.stage = "rotated" => r.cookie # None
    /\ r.cookie # None => /\ r.stage \in {"sent", "rotated"} => Current(r.cookie)
                          /\ r.stage = "refused" => ~rows[r.cookie.sid].open
                                \/ UserOf(r.token) # rows[r.cookie.sid].user

\* The console asks for one refresh at a time, with the current credential.
OneRefresh ==
    /\ \A o \in Slots : refresh[1][o].stage # "none" => shared[1] = o
    /\ refresh[1]["boot"].stage # "none" => \A o \in Slots : refresh[1][o].stage = "none"
    /\ \A o \in Starters : RefreshFits(refresh[1][o])
    /\ cookie # None => Current(cookie)
                        \/ \E o \in Starters : refresh[1][o].stage \in {"rotated", "refused"}

RotatedFits == \A t \in Tabs, o \in Starters :
                  refresh[t][o].stage = "rotated" => refresh[t][o].cookie # None

RefreshInv == RotatedFits /\ (app = "console" /\ ~strained => OneRefresh)

IInv == ValuesFit /\ TabsFit /\ ConsoleSees /\ WaitInv /\ BoundsFit /\ RefreshInv

-----------------------------------------------------------------------------
(* The clients, and what stays while the tables of the server grow. *)

\* Either client has its first tab, and a slot for a page's calls and one for permissions.
LEMMA ClientsHave ==
    ASSUME ValuesFit
    PROVE  /\ app \in {"console", "dashboard"}
           /\ 1 \in Tabs /\ (app = "console" => Tabs = {1})
           /\ "page" \in Slots /\ "perms" \in Slots /\ Slots \subseteq {"page", "dialog", "perms"}
           /\ (app = "dashboard" => "dialog" \notin Slots)
           /\ Starters = Slots \cup {"boot"} /\ "boot" \notin Slots /\ "none" \notin Starters
           /\ NoUser \notin Users
BY SessionAssumption DEF ValuesFit, Tabs, Slots, Starters, NoUser

\* Nobody is nobody's credential, and a credential is somebody's.
LEMMA CredsName ==
    ASSUME RowsFit
    PROVE  /\ None \in Creds /\ UserOf(None) = NoUser
           /\ \A token \in Creds : token # None =>
                 /\ token.sid \in DOMAIN rows /\ token.gen \in Nat
                 /\ rows[token.sid].user \in Users
                 /\ UserOf(token) = rows[token.sid].user /\ UserOf(token) \in Users
           /\ \A token \in Creds : UserOf(token) \in Who /\ token \in Tokens
           /\ \A s \in DOMAIN rows : /\ rows[s] \in [user : Users, gen : Nat, open : BOOLEAN]
                                     /\ [sid |-> s, gen |-> 1] \in Creds
           /\ Len(rows) \in Nat /\ DOMAIN rows = 1..Len(rows)
           /\ Len(grants) \in Nat /\ DOMAIN grants = 1..Len(grants)
<1>1. /\ Len(rows) \in Nat /\ DOMAIN rows = 1..Len(rows) /\ Len(rows) <= MaxLogins
      /\ \A s \in DOMAIN rows : rows[s] \in [user : Users, gen : Nat, open : BOOLEAN]
      /\ Len(grants) \in Nat /\ DOMAIN grants = 1..Len(grants)
  BY LenProperties, ElementOfSeq DEF RowsFit
<1>2. None.sid = 0 /\ None.gen = 0
  BY DEF None
<1>3. ASSUME NEW token \in Creds, token # None
      PROVE  /\ token.sid \in DOMAIN rows /\ token.gen \in Nat /\ token \in [sid : DOMAIN rows, gen : Nat]
             /\ rows[token.sid].user \in Users
             /\ UserOf(token) = rows[token.sid].user /\ UserOf(token) \in Users
  BY <1>1, <1>3 DEF Creds, UserOf
<1>4. ASSUME NEW token \in Creds
      PROVE  UserOf(token) \in Who /\ token \in Tokens
  BY <1>1, <1>2, <1>3, SessionAssumption DEF Who, UserOf, Tokens, None
<1>. QED
  BY <1>1, <1>3, <1>4 DEF Creds, UserOf

\* Rows and grants are added to, and a row is one user's for good.
Grows ==
    /\ app' = app
    /\ DOMAIN rows \subseteq DOMAIN rows'
    /\ \A s \in DOMAIN rows : rows'[s].user = rows[s].user
    /\ Len(grants) <= Len(grants')

LEMMA NothingGrows ==
    ASSUME RowsFit, app' = app, rows' = rows, grants' = grants
    PROVE  Grows /\ RowsFit'
BY DEF RowsFit, Grows

LEMMA TypesGrow ==
    ASSUME RowsFit, RowsFit', Grows
    PROVE  /\ Creds \subseteq Creds'
           /\ TabState \subseteq TabState' /\ CallState \subseteq CallState'
           /\ RefreshState \subseteq RefreshState'
           /\ Tabs' = Tabs /\ Slots' = Slots /\ Starters' = Starters
           /\ \A token \in Creds : (IF token = None THEN NoUser ELSE rows'[token.sid].user)
                                     = UserOf(token)
<1>1. Len(grants) \in Nat /\ Len(grants') \in Nat /\ 0..Len(grants) \subseteq 0..Len(grants')
  BY DEF RowsFit, Grows
<1>2. Creds \subseteq Creds'
  BY DEF Grows, Creds
<1>3. Tabs' = Tabs /\ Slots' = Slots /\ Starters' = Starters
  BY DEF Grows, Tabs, Slots, Starters
<1>4. \A token \in Creds : (IF token = None THEN NoUser ELSE rows'[token.sid].user) = UserOf(token)
  BY CredsName DEF UserOf, Grows
<1>5. TabState \subseteq TabState'
  BY <1>1, <1>2 DEF TabState
<1>6. CallState \subseteq CallState'
  BY <1>1, <1>2, <1>3 DEF CallState
<1>7. RefreshState \subseteq RefreshState'
  BY <1>2 DEF RefreshState
<1>. QED
  BY <1>2, <1>3, <1>4, <1>5, <1>6, <1>7

\* What fits a tab fits it still.
LEMMA TabRests ==
    ASSUME RowsFit, RowsFit', Grows, NEW tb, tb.seen \in Creds, NEW cs, TabFits(tb, cs)
    PROVE  TabFits(tb, cs)'
<1>1. Slots' = Slots /\ app' = app
  BY TypesGrow DEF Grows
<1>2. Identity(tb.acting, tb.seen)' = Identity(tb.acting, tb.seen)
  BY TypesGrow DEF Identity, UserOf
<1>3. \A n \in Slots : CallFits(n, cs[n], tb.acting)'
  BY DEF TabFits, CallFits, AsOperator
<1>. QED
  BY <1>1, <1>2, <1>3 DEF TabFits

-----------------------------------------------------------------------------
(* One tab is written: what each part of the invariant asks of the new tab. *)

LEMMA PutTypes ==
    ASSUME ValuesFit, RowsFit', Grows, NEW t \in Tabs, NEW tb, NEW cs, Put(t, tb, cs),
           tb \in TabState', cs \in [Slots -> CallState'],
           store' \in [token : Creds', perms : Who], cookie' \in Creds', byes' \subseteq Creds',
           refresh' \in [Tabs -> [Starters -> RefreshState']],
           shared' \in [Tabs -> Slots \cup {"none"}], strained' \in BOOLEAN
    PROVE  ValuesFit'
<1>1. Tabs' = Tabs /\ Slots' = Slots /\ Starters' = Starters /\ app' \in Apps
  BY TypesGrow DEF ValuesFit, Grows
<1>2. tab' \in [Tabs -> TabState']
  BY TypesGrow DEF ValuesFit, Put
<1>3. call' \in [Tabs -> [Slots -> CallState']]
  BY TypesGrow DEF ValuesFit, Put
<1>. QED
  BY <1>1, <1>2, <1>3 DEF ValuesFit, Who

LEMMA PutFits ==
    ASSUME ValuesFit, TabsFit, RowsFit', Grows, NEW t \in Tabs, NEW tb, NEW cs, Put(t, tb, cs),
           tb.seen \in Creds, TabFits(tb, cs)
    PROVE  TabsFit'
<1>1. Tabs' = Tabs /\ tab \in [Tabs -> TabState] /\ call \in [Tabs -> [Slots -> CallState]]
  BY TypesGrow DEF ValuesFit
<1>2. ASSUME NEW x \in Tabs
      PROVE  TabFits(tab[x], call[x])'
  <2>1. ASSUME NEW v, NEW w, v = tab'[x], w = call'[x]
        PROVE  TabFits(v, w)'
    <3>1. v.seen \in Creds /\ TabFits(v, w)
      BY <1>1, <2>1 DEF Put, TabsFit, TabState
    <3>. QED
      BY <3>1, TabRests DEF ValuesFit
  <2>. QED
    BY <2>1 DEF TabFits, CallFits, Identity, UserOf, AsOperator
<1>. QED
  BY <1>1, <1>2 DEF TabsFit

\* The calls cs were the calls old: nothing waits that did not, and no exchange began.
Follows(cs, old) ==
    \A n \in Slots :
        /\ cs[n].stage = "waiting" => old[n].stage = "waiting" /\ cs[n].on = old[n].on
        /\ cs[n].stage # "idle" /\ cs[n].kind = "enter" =>
              old[n].stage # "idle" /\ old[n].kind = "enter"

LEMMA PutWaits ==
    ASSUME ValuesFit, WaitInv, Grows, RowsFit', NEW t \in Tabs, NEW tb, NEW cs, Put(t, tb, cs),
           \A n \in Slots : cs[n].stage = "waiting" =>
              call[t][n].stage = "waiting" /\ cs[n].on = call[t][n].on,
           tb.booting => tab[t].booting, UNCHANGED <<refresh, shared>>
    PROVE  WaitInv'
<1>1. /\ Tabs' = Tabs /\ Slots' = Slots /\ Starters' = Starters
      /\ tab \in [Tabs -> TabState] /\ call \in [Tabs -> [Slots -> CallState]]
  BY TypesGrow DEF ValuesFit
<1>2. ASSUME NEW x \in Tabs
      PROVE  WaitsFit(x)'
  BY <1>1, <1>2 DEF WaitInv, WaitsFit, Put
<1>. QED
  BY <1>1, <1>2 DEF WaitInv

LEMMA PutBounds ==
    ASSUME ValuesFit, BoundsFit, Grows, RowsFit', NEW t \in Tabs, NEW tb, NEW cs, Put(t, tb, cs),
           Follows(cs, call[t]), tb.login = tab[t].login, rows' = rows,
           Len(grants') = Len(grants)
    PROVE  BoundsFit'
<1>1. /\ Tabs' = Tabs /\ Slots' = Slots /\ app' = app
      /\ tab \in [Tabs -> TabState] /\ call \in [Tabs -> [Slots -> CallState]]
  BY TypesGrow DEF ValuesFit, Grows
<1>. QED
  BY <1>1 DEF BoundsFit, Put, Follows

\* Refreshes rest when nothing about them, the cookie or the rows changes.
LEMMA RefreshRests ==
    ASSUME ValuesFit, RefreshInv, app' = app, UNCHANGED <<rows, refresh, shared>>,
           strained' \in BOOLEAN, strained => strained', cookie' \in {cookie, None}
    PROVE  RefreshInv'
<1>1. Tabs' = Tabs /\ Slots' = Slots /\ Starters' = Starters
  BY DEF Tabs, Slots, Starters
<1>2. RotatedFits'
  BY <1>1 DEF RefreshInv, RotatedFits
<1>3. ASSUME app = "console", ~strained
      PROVE  OneRefresh'
  BY <1>1, <1>3 DEF RefreshInv, OneRefresh, RefreshFits, Current, UserOf
<1>. QED
  BY <1>2, <1>3 DEF RefreshInv

\* The tab, its calls, the store and the grants change, and nothing else.
LEMMA PutKeepsAll ==
    ASSUME IInv, NEW t \in Tabs, NEW tb, NEW cs, Put(t, tb, cs),
           RowsFit', Len(grants) <= Len(grants'),
           tb \in TabState', cs \in [Slots -> CallState'], TabFits(tb, cs),
           \A n \in Slots : cs[n].stage = "waiting" =>
              call[t][n].stage = "waiting" /\ cs[n].on = call[t][n].on,
           tb.booting => tab[t].booting,
           store' \in [token : Creds, perms : Who],
           app = "console" => tb.seen \in {None, store'.token},
           UNCHANGED <<app, cookie, rows, refresh, shared>>,
           strained' \in BOOLEAN, strained => strained', byes' \subseteq Creds,
           BoundsFit'
    PROVE  IInv'
<1>1. Grows
  BY DEF Grows
<1>2. Creds' = Creds /\ Tabs' = Tabs /\ Slots' = Slots /\ Starters' = Starters
      /\ RefreshState' = RefreshState
  BY DEF Creds, RefreshState, Starters, Slots, Tabs
<1>3. tb.seen \in Creds
  BY <1>2 DEF TabState
<1>4. ValuesFit'
  <2>1. refresh' \in [Tabs -> [Starters -> RefreshState']] /\ cookie' \in Creds'
        /\ shared' \in [Tabs -> Slots \cup {"none"}] /\ strained' \in BOOLEAN
        /\ store' \in [token : Creds', perms : Who] /\ byes' \subseteq Creds'
    BY <1>2 DEF IInv, ValuesFit
  <2>. QED
    BY <1>1, <2>1, PutTypes DEF IInv
<1>5. TabsFit'
  BY <1>1, <1>3, PutFits DEF IInv
<1>6. ConsoleSees'
  BY ClientsHave DEF IInv, ConsoleSees, Put, ValuesFit
<1>7. WaitInv'
  BY <1>1, PutWaits DEF IInv
<1>8. RefreshInv'
  BY RefreshRests DEF IInv
<1>. QED
  BY <1>4, <1>5, <1>6, <1>7, <1>8 DEF IInv

\* The same, when no login begins or ends and no grant is added.
LEMMA PutKeeps ==
    ASSUME IInv, NEW t \in Tabs, NEW tb, NEW cs, Put(t, tb, cs),
           tb \in TabState, cs \in [Slots -> CallState], TabFits(tb, cs), Follows(cs, call[t]),
           tb.booting => tab[t].booting, tb.login = tab[t].login,
           store' \in [token : Creds, perms : Who],
           app = "console" => tb.seen \in {None, store'.token},
           UNCHANGED <<app, cookie, rows, refresh, shared>>,
           strained' \in BOOLEAN, strained => strained', byes' \subseteq Creds,
           RowsFit', Len(grants') = Len(grants)
    PROVE  IInv'
<1>1. Grows /\ Len(grants) <= Len(grants')
  BY DEF Grows, RowsFit, IInv, ValuesFit
<1>2. TabState' = TabState /\ CallState' = CallState
  BY DEF Creds, TabState, CallState, Starters, Slots
<1>3. BoundsFit'
  BY <1>1, PutBounds DEF IInv
<1>4. tb \in TabState' /\ cs \in [Slots -> CallState']
  BY <1>2
<1>5. \A n \in Slots : cs[n].stage = "waiting" =>
         call[t][n].stage = "waiting" /\ cs[n].on = call[t][n].on
  BY DEF Follows
<1>. QED
  BY <1>1, <1>3, <1>4, <1>5, PutKeepsAll

-----------------------------------------------------------------------------
(* What the handlers make of a tab and its calls. *)

LEMMA IdleFits ==
    ASSUME ValuesFit
    PROVE  Idle \in CallState /\ NoRefresh \in RefreshState /\ Idle.stage = "idle"
BY CredsName DEF ValuesFit, Idle, NoRefresh, CallState, RefreshState, Creds, RowsFit

\* queryClient.clear(): the tab may be in another identity now.
LEMMA ClearedFits ==
    ASSUME NEW tb, NEW cs, TabFits(tb, cs), "perms" \in Slots, cs \in [Slots -> CallState],
           NEW nb, nb.cache = {}, nb.behind = FALSE, nb.seen = tb.seen,
           nb.hydrated = tb.hydrated, nb.acting # 0 => app = "console"
    PROVE  /\ ClearedCalls(cs) \in [Slots -> CallState]
           /\ Follows(ClearedCalls(cs), cs)
           /\ TabFits(nb, ClearedCalls(cs))
<1>. DEFINE ds == ClearedCalls(cs)
<1>1. \A n \in Slots :
         /\ ds[n] \in CallState /\ cs[n] \in CallState
         /\ ds[n].stage = cs[n].stage /\ ds[n].kind = cs[n].kind /\ ds[n].on = cs[n].on
         /\ ds[n].captured = cs[n].captured /\ ds[n].acting = cs[n].acting
         /\ ds[n].kind = "page" => ~ds[n].kept
         /\ ds[n].kind # "page" => ds[n].kept = cs[n].kept
  BY ZenonT(40) DEF ClearedCalls, CallState
<1>2. ds \in [Slots -> CallState]
  BY <1>1 DEF ClearedCalls
<1>3. Follows(ds, cs)
  BY <1>1 DEF Follows
<1>4. \A n \in Slots : CallFits(n, ds[n], nb.acting)
  BY <1>1 DEF TabFits, CallFits
<1>5. nb.seen # None /\ ~nb.hydrated => ds["perms"].stage # "idle" /\ ds["perms"].kept
  BY <1>1 DEF TabFits, CallFits
<1>. HIDE DEF ds
<1>. QED
  BY <1>1, <1>2, <1>3, <1>4, <1>5 DEF TabFits, ds

\* endSessionLocally.
LEMMA EndedFits ==
    ASSUME ValuesFit, NEW tb \in TabState, NEW cs, TabFits(tb, cs), cs \in [Slots -> CallState]
    PROVE  /\ EndedTab(tb) \in TabState
           /\ EndedTab(tb).seen = None /\ EndedTab(tb).acting = 0
           /\ EndedTab(tb).login = tb.login /\ EndedTab(tb).booting = tb.booting
           /\ EndedCalls(cs) \in [Slots -> CallState]
           /\ Follows(EndedCalls(cs), cs)
           /\ TabFits(EndedTab(tb), EndedCalls(cs))
<1>. DEFINE nb == EndedTab(tb)  ds == EndedCalls(cs)
<1>1. /\ nb \in TabState /\ nb.seen = None /\ nb.acting = 0 /\ nb.cache = {} /\ nb.behind = FALSE
      /\ nb.login = tb.login /\ nb.booting = tb.booting
  <2>1. None \in Creds /\ NoUser \in Who /\ 0 \in 0..Len(grants)
    BY CredsName DEF ValuesFit, Who
  <2>. QED
    BY <2>1 DEF EndedTab, ClearedTab, TabState
<1>2. \A n \in Slots :
         /\ ds[n] \in CallState
         /\ ds[n].stage = cs[n].stage /\ ds[n].kind = cs[n].kind /\ ds[n].on = cs[n].on
         /\ ds[n].captured = cs[n].captured /\ ds[n].acting = cs[n].acting /\ ~ds[n].kept
  BY DEF EndedCalls, CallState
<1>3. ds \in [Slots -> CallState]
  BY <1>2 DEF EndedCalls
<1>. HIDE DEF nb, ds
<1>4. Follows(ds, cs)
  BY <1>2 DEF Follows
<1>5. TabFits(nb, ds)
  BY <1>1, <1>2 DEF TabFits, CallFits
<1>. QED
  BY <1>1, <1>3, <1>4, <1>5 DEF nb, ds

\* A call that is over, for a tab whose permissions do not depend on it.
LEMMA OverFits ==
    ASSUME ValuesFit, NEW tb, NEW cs, TabFits(tb, cs), cs \in [Slots -> CallState],
           NEW n \in Slots, n = "perms" /\ cs[n].kept => tb.hydrated
    PROVE  /\ [cs EXCEPT ![n] = Idle] \in [Slots -> CallState]
           /\ Follows([cs EXCEPT ![n] = Idle], cs)
           /\ TabFits(tb, [cs EXCEPT ![n] = Idle])
<1>1. Idle \in CallState /\ Idle.stage = "idle" /\ "perms" \in Slots
  BY IdleFits, ClientsHave
<1>2. [cs EXCEPT ![n] = Idle] \in [Slots -> CallState]
  BY <1>1
<1>3. \A m \in Slots : [cs EXCEPT ![n] = Idle][m] = IF m = n THEN Idle ELSE cs[m]
  OBVIOUS
<1>4. Follows([cs EXCEPT ![n] = Idle], cs)
  BY <1>1, <1>3 DEF Follows
<1>5. TabFits(tb, [cs EXCEPT ![n] = Idle])
  BY <1>1, <1>3 DEF TabFits, CallFits
<1>. QED
  BY <1>2, <1>4, <1>5

\* authFetch rejects.
LEMMA FailedFits ==
    ASSUME ValuesFit, NEW tb \in TabState, NEW cs, TabFits(tb, cs), cs \in [Slots -> CallState],
           NEW n \in Slots, cs[n].stage # "idle", NEW c, c.kind = cs[n].kind,
           c.kind = "perms" => c.kept = cs[n].kept
    PROVE  /\ FailedTab(tb, c) \in TabState
           /\ FailedTab(tb, c).seen = tb.seen
           /\ FailedTab(tb, c).login = tb.login /\ FailedTab(tb, c).booting = tb.booting
           /\ FailedCalls(cs, n) \in [Slots -> CallState]
           /\ Follows(FailedCalls(cs, n), cs)
           /\ TabFits(FailedTab(tb, c), FailedCalls(cs, n))
<1>. DEFINE rest == [cs EXCEPT ![n] = Idle]
<1>1. (c.kind = "perms" <=> n = "perms") /\ "perms" \in Slots
  BY ClientsHave DEF TabFits, CallFits
<1>2. CASE c.kind = "perms" /\ c.kept
  <2>. DEFINE nb == [tb EXCEPT !.hydrated = TRUE]
  <2>1. FailedTab(tb, c) = nb /\ FailedCalls(cs, n) = rest
    BY <1>2 DEF FailedTab, FailedCalls
  <2>2. nb \in TabState /\ nb.seen = tb.seen /\ nb.login = tb.login /\ nb.booting = tb.booting
        /\ nb.hydrated
    BY DEF TabState
  <2>3. TabFits(nb, cs)
    BY <2>2 DEF TabFits, TabState
  <2>4. rest \in [Slots -> CallState] /\ Follows(rest, cs) /\ TabFits(nb, rest)
    BY <2>2, <2>3, OverFits
  <2>. HIDE DEF nb, rest
  <2>. QED
    BY <2>1, <2>2, <2>4
<1>3. CASE c.kind = "exit"
  <2>. DEFINE nb == [ClearedTab(tb) EXCEPT !.acting = 0, !.notice = FALSE]
  <2>1. FailedTab(tb, c) = nb /\ FailedCalls(cs, n) = ClearedCalls(rest)
    BY <1>3 DEF FailedTab, FailedCalls
  <2>2. /\ nb \in TabState /\ nb.seen = tb.seen /\ nb.login = tb.login /\ nb.booting = tb.booting
        /\ nb.hydrated = tb.hydrated /\ nb.cache = {} /\ nb.behind = FALSE /\ nb.acting = 0
    <3>1. 0 \in 0..Len(grants)
      BY CredsName DEF ValuesFit
    <3>. QED
      BY <3>1 DEF TabState, ClearedTab
  <2>3. rest \in [Slots -> CallState] /\ Follows(rest, cs) /\ TabFits(tb, rest)
    BY <1>1, <1>3, OverFits
  <2>4. /\ ClearedCalls(rest) \in [Slots -> CallState] /\ Follows(ClearedCalls(rest), rest)
        /\ TabFits(nb, ClearedCalls(rest))
    BY <1>1, <2>2, <2>3, ClearedFits
  <2>5. Follows(ClearedCalls(rest), cs)
    BY <2>3, <2>4 DEF Follows
  <2>. QED
    BY <2>1, <2>2, <2>4, <2>5
<1>4. CASE ~(c.kind = "perms" /\ c.kept) /\ c.kind # "exit"
  <2>1. FailedTab(tb, c) = tb /\ FailedCalls(cs, n) = rest
    BY <1>4 DEF FailedTab, FailedCalls
  <2>2. rest \in [Slots -> CallState] /\ Follows(rest, cs) /\ TabFits(tb, rest)
    BY <1>1, <1>4, OverFits
  <2>. HIDE DEF rest
  <2>. QED
    BY <2>1, <2>2
<1>. QED
  BY <1>2, <1>3, <1>4

\* credentialFor: a call that begins under the identity the tab is in.
LEMMA SentFits ==
    ASSUME ValuesFit, NEW acting \in 0..Len(grants), NEW token \in Creds,
           NEW kind \in {"page", "enter", "exit", "perms"}
    PROVE  /\ Sent(kind, acting, token) \in CallState
           /\ Sent(kind, acting, token).stage = "sent" /\ Sent(kind, acting, token).kind = kind
           /\ Sent(kind, acting, token).kept /\ Sent(kind, acting, token).on = "none"
           /\ Sent(kind, acting, token).captured = IF AsOperator(kind) THEN 0 ELSE acting
           /\ Sent(kind, acting, token).acting = IF AsOperator(kind) THEN 0 ELSE acting
<1>1. None \in Creds /\ 0 \in 0..Len(grants)
  BY CredsName DEF ValuesFit
<1>. QED
  BY <1>1 DEF Sent, Idle, CallState

\* The store's listener: a tab that takes another credential, and the calls it then has.
LEMMA CommittedFits ==
    ASSUME ValuesFit, NEW tb \in TabState, NEW cs, TabFits(tb, cs), cs \in [Slots -> CallState],
           NEW token \in Creds, token = None /\ app = "console" => tb.seen = None
    PROVE  LET u == UserOf(token)
               nb == Committed(tb, token, u)
               ds == CommittedCalls(tb, cs, token, u)
           IN  /\ nb \in TabState /\ nb.seen = token /\ nb.acting = tb.acting
               /\ nb.login = tb.login /\ nb.booting = tb.booting /\ nb.hydrated = tb.hydrated
               /\ ds \in [Slots -> CallState] /\ Follows(ds, cs)
               /\ TabFits(nb, ds)
<1>. DEFINE u == UserOf(token)
            nb == Committed(tb, token, u)
            ds == CommittedCalls(tb, cs, token, u)
            new == IF u # NoUser /\ ~Settled(tb, u) THEN Sent("perms", 0, token)
                   ELSE [cs["perms"] EXCEPT !.kept = FALSE]
<1>1. "perms" \in Slots /\ "page" \in Slots /\ NoUser \notin Users
  BY ClientsHave
<1>2. /\ u \in Who /\ (u = NoUser <=> token = None)
      /\ UserOf(tb.seen) \in Who /\ (UserOf(tb.seen) = NoUser <=> tb.seen = None)
      /\ 0 \in 0..Len(grants)
  BY <1>1, CredsName DEF ValuesFit, TabState
<1>3. /\ nb \in TabState /\ nb.seen = token /\ nb.acting = tb.acting /\ nb.cache = tb.cache
      /\ nb.login = tb.login /\ nb.booting = tb.booting /\ nb.hydrated = tb.hydrated
      /\ nb.behind <=> tb.behind \/ UserOf(tb.seen) \notin {NoUser, u}
  BY <1>2 DEF Committed, TabState
<1>4. Sent("perms", 0, token) \in CallState /\ cs["perms"] \in CallState
  BY <1>1, <1>2, SentFits
<1>5. /\ new \in CallState
      /\ u # NoUser /\ ~Settled(tb, u) => new.stage = "sent" /\ new.kept
      /\ u = NoUser \/ Settled(tb, u) =>
            new.stage = cs["perms"].stage /\ new.kind = cs["perms"].kind
            /\ new.on = cs["perms"].on
      /\ new.stage = "waiting" => cs["perms"].stage = "waiting" /\ new.on = cs["perms"].on
      /\ new.stage # "idle" => new.kind = "perms"
      /\ CallFits("perms", new, tb.acting)
  <2>1. CallFits("perms", cs["perms"], tb.acting)
    BY <1>1 DEF TabFits
  <2>2. CASE u # NoUser /\ ~Settled(tb, u)
    <3>1. new = Sent("perms", 0, token)
      BY <2>2
    <3>. HIDE DEF new
    <3>. QED
      BY <1>2, <1>4, <2>2, <3>1, SentFits DEF CallFits, AsOperator
  <2>3. CASE u = NoUser \/ Settled(tb, u)
    <3>1. new = [cs["perms"] EXCEPT !.kept = FALSE]
      BY <2>3
    <3>2. /\ new.stage = cs["perms"].stage /\ new.kind = cs["perms"].kind
          /\ new.on = cs["perms"].on /\ new.captured = cs["perms"].captured
          /\ new.acting = cs["perms"].acting /\ new \in CallState
      BY <1>4, <3>1 DEF CallState
    <3>. HIDE DEF new
    <3>. QED
      BY <2>1, <2>3, <3>2 DEF CallFits
  <2>. QED
    BY <2>2, <2>3
<1>6. ds = [cs EXCEPT !["perms"] = new]
  BY DEF CommittedCalls
<1>7. ds \in [Slots -> CallState] /\ \A n \in Slots : ds[n] = IF n = "perms" THEN new ELSE cs[n]
  <2>. HIDE DEF new, ds
  <2>. QED
    BY <1>1, <1>5, <1>6
<1>8. Settled(tb, u) => tb.hydrated
  BY DEF Settled
<1>. HIDE DEF new, ds, nb
<1>9. Follows(ds, cs)
  BY <1>5, <1>7 DEF Follows
<1>10. ~nb.behind => nb.cache \subseteq {Identity(nb.acting, nb.seen)}
  <2>1. CASE nb.behind
    BY <2>1
  <2>2. CASE ~nb.behind /\ tb.seen = None
    BY <1>3, <2>2 DEF TabFits
  <2>3. CASE ~nb.behind /\ tb.seen # None
    <3>1. UserOf(tb.seen) = u /\ ~tb.behind
      BY <1>2, <1>3, <2>3
    <3>2. Identity(nb.acting, nb.seen) = Identity(tb.acting, tb.seen)
      BY <1>3, <3>1 DEF Identity
    <3>. QED
      BY <1>3, <3>1, <3>2 DEF TabFits
  <2>. QED
    BY <2>1, <2>2, <2>3
<1>11. nb.seen = None /\ (nb.behind => app = "console") =>
          nb.cache = {} /\ \A n \in Slots : ds[n].stage # "idle" /\ ds[n].kind = "page" => ~ds[n].kept
  <2>. SUFFICES ASSUME nb.seen = None, nb.behind => app = "console"
                PROVE  nb.cache = {} /\ \A n \in Slots :
                          ds[n].stage # "idle" /\ ds[n].kind = "page" => ~ds[n].kept
    OBVIOUS
  <2>1. tb.seen = None
    BY <1>2, <1>3
  <2>2. tb.cache = {} /\ \A n \in Slots :
           cs[n].stage # "idle" /\ cs[n].kind = "page" => ~cs[n].kept
    BY <1>3, <2>1 DEF TabFits
  <2>. QED
    BY <1>3, <1>5, <1>7, <2>2
<1>12. nb.seen # None /\ ~nb.hydrated => ds["perms"].stage # "idle" /\ ds["perms"].kept
  BY <1>1, <1>2, <1>3, <1>5, <1>7, <1>8
<1>13. \A n \in Slots : CallFits(n, ds[n], nb.acting)
  BY <1>3, <1>5, <1>7 DEF TabFits
<1>14. TabFits(nb, ds)
  BY <1>3, <1>10, <1>11, <1>12, <1>13 DEF TabFits
<1>. QED
  BY <1>3, <1>7, <1>9, <1>14 DEF nb, ds

-----------------------------------------------------------------------------
(* The steps. *)

\* What is known of one tab.
LEMMA OneTab ==
    ASSUME IInv, NEW t \in Tabs
    PROVE  /\ ValuesFit /\ RowsFit /\ tab[t] \in TabState /\ call[t] \in [Slots -> CallState]
           /\ \A n \in Slots : call[t][n] \in CallState
           /\ TabFits(tab[t], call[t]) /\ WaitsFit(t)
           /\ app = "console" => t = 1 /\ tab[t].seen \in {None, store.token}
           /\ store \in [token : Creds, perms : Who] /\ cookie \in Creds /\ byes \subseteq Creds
           /\ Follows(call[t], call[t]) /\ strained \in BOOLEAN
           /\ EmptyStore \in [token : Creds, perms : Who] /\ EmptyStore.token = None
<1>1. ValuesFit /\ RowsFit
  BY DEF IInv, ValuesFit
<1>2. EmptyStore \in [token : Creds, perms : Who] /\ EmptyStore.token = None
  BY <1>1, CredsName DEF EmptyStore, Who
<1>3. app = "console" => t = 1 /\ tab[t].seen \in {None, store.token}
  BY <1>1, ClientsHave DEF IInv, ConsoleSees
<1>. QED
  BY <1>1, <1>2, <1>3 DEF IInv, ValuesFit, TabsFit, WaitInv, Follows

\* No row and no grant is added.
LEMMA TablesRest ==
    ASSUME RowsFit, UNCHANGED <<app, rows, grants>>
    PROVE  RowsFit' /\ TabState' = TabState /\ CallState' = CallState /\ Len(grants) <= Len(grants')
<1>1. RowsFit'
  BY DEF RowsFit
<1>2. Len(grants) <= Len(grants')
  BY CredsName
<1>3. TabState' = TabState /\ CallState' = CallState
  BY DEF TabState, CallState, Creds, Starters, Slots
<1>. QED
  BY <1>1, <1>2, <1>3

\* auth-context.tsx: login begins.
LEMMA LoggingInKeepsIt ==
    ASSUME IInv, NEW t \in Tabs, NEW u \in Users, BeginLogin(t, u)
    PROVE  IInv'
<1>. DEFINE nb == [tab[t] EXCEPT !.login = u, !.hydrated = FALSE, !.acting = 0, !.notice = FALSE]
<1>1. tab[t].seen = None
  BY OneTab, CredsName, ClientsHave DEF BeginLogin, User, TabState
<1>2. /\ nb \in TabState /\ nb.seen = None /\ nb.acting = 0 /\ nb.cache = tab[t].cache
      /\ nb.behind = tab[t].behind /\ nb.booting = tab[t].booting /\ nb.login = u
  <2>1. 0 \in 0..Len(grants) /\ u \in Who /\ tab[t] \in TabState
    BY OneTab, CredsName DEF Who
  <2>. QED
    BY <1>1, <2>1 DEF TabState
<1>3. Put(t, nb, call[t])
  BY OneTab DEF BeginLogin, Put, IInv, ValuesFit
<1>4. TabFits(nb, call[t])
  <2>1. tab[t].acting # 0 => app = "console"
    BY OneTab DEF TabFits
  <2>2. ASSUME NEW n \in Slots
        PROVE  CallFits(n, call[t][n], nb.acting)
    BY <1>1, <1>2, <2>1, <2>2, OneTab DEF TabFits, CallFits
  <2>. HIDE DEF nb
  <2>. QED
    BY <1>1, <1>2, <2>2, OneTab DEF TabFits
<1>5. BoundsFit'
  <2>1. Tabs' = Tabs /\ Slots' = Slots /\ tab \in [Tabs -> TabState]
    BY DEF BeginLogin, Tabs, Slots, IInv, ValuesFit
  <2>2. \A x \in Tabs : x # t => tab'[x].login = NoUser
    BY <1>3, <2>1 DEF BeginLogin, Put
  <2>3. tab'[t].login = u
    BY <1>2, <1>3, <2>1 DEF Put
  <2>4. Len(rows') < MaxLogins /\ call' = call /\ grants' = grants /\ app' = app
    BY DEF BeginLogin, server
  <2>. HIDE DEF nb
  <2>5. \A x \in Tabs : tab'[x].login # NoUser => x = t
    BY <2>2
  <2>. QED
    BY <2>1, <2>4, <2>5 DEF BoundsFit, IInv
<1>. HIDE DEF nb
<1>6. RowsFit' /\ TabState' = TabState /\ CallState' = CallState /\ Len(grants) <= Len(grants')
  BY OneTab, TablesRest DEF BeginLogin, server
<1>7. store' \in [token : Creds, perms : Who] /\ store'.token = store.token
  BY OneTab DEF BeginLogin, Who
<1>. QED
  BY <1>2, <1>3, <1>4, <1>5, <1>6, <1>7, OneTab, PutKeepsAll DEF BeginLogin, server

\* ... or fails.
LEMMA LoginFailingKeepsIt ==
    ASSUME IInv, NEW t \in Tabs, LoginFails(t)
    PROVE  IInv'
<1>. DEFINE nb == [tab[t] EXCEPT !.login = NoUser]
<1>1. /\ nb \in TabState /\ nb.seen = tab[t].seen /\ nb.acting = tab[t].acting
      /\ nb.cache = tab[t].cache /\ nb.behind = tab[t].behind /\ nb.booting = tab[t].booting
      /\ nb.hydrated = tab[t].hydrated /\ nb.login = NoUser
  BY OneTab DEF TabState, Who
<1>2. Put(t, nb, call[t])
  BY OneTab DEF LoginFails, Put, IInv, ValuesFit
<1>3. TabFits(nb, call[t])
  <2>. HIDE DEF nb
  <2>. QED
    BY <1>1, OneTab DEF TabFits
<1>4. BoundsFit'
  <2>1. Tabs' = Tabs /\ Slots' = Slots /\ tab \in [Tabs -> TabState]
    BY DEF LoginFails, Tabs, Slots, IInv, ValuesFit
  <2>2. \A x \in Tabs : tab'[x].login = IF x = t THEN NoUser ELSE tab[x].login
    BY <1>1, <1>2, <2>1 DEF Put
  <2>3. rows' = rows /\ call' = call /\ grants' = grants /\ app' = app
    BY DEF LoginFails, server
  <2>. HIDE DEF nb
  <2>. QED
    BY <2>1, <2>2, <2>3 DEF BoundsFit, IInv
<1>. HIDE DEF nb
<1>5. RowsFit' /\ TabState' = TabState /\ CallState' = CallState /\ Len(grants) <= Len(grants')
  BY OneTab, TablesRest DEF LoginFails, server
<1>. QED
  BY <1>1, <1>2, <1>3, <1>4, <1>5, OneTab, PutKeepsAll DEF LoginFails, server

\* The session ends on this device.
LEMMA EndingKeepsIt ==
    ASSUME IInv, NEW t \in Tabs, Put(t, EndedTab(tab[t]), EndedCalls(call[t])),
           store' = EmptyStore, byes' \subseteq Creds,
           UNCHANGED <<app, cookie, rows, grants, refresh, shared, strained>>
    PROVE  IInv'
<1>1. RowsFit' /\ Len(grants') = Len(grants)
  BY OneTab DEF RowsFit
<1>. QED
  BY <1>1, OneTab, EndedFits, PutKeeps

LEMMA SigningOutKeepsIt ==
    ASSUME IInv, NEW t \in Tabs, Logout(t) \/ \E n \in Slots : BeginTokenless(t, n)
    PROVE  IInv'
BY EndingKeepsIt, OneTab DEF Logout, BeginTokenless, server

\* The stored token is read again.
LEMMA ListeningKeepsIt ==
    ASSUME IInv, NEW t \in Tabs, Listen(t)
    PROVE  IInv'
<1>. DEFINE u == UserOf(store.token)
            nb == Committed(tab[t], store.token, u)
            ds == CommittedCalls(tab[t], call[t], store.token, u)
<1>1. store.token \in Creds /\ (store.token = None /\ app = "console" => tab[t].seen = None)
  BY OneTab
<1>2. /\ nb \in TabState /\ nb.seen = store.token /\ nb.login = tab[t].login
      /\ nb.booting = tab[t].booting
      /\ ds \in [Slots -> CallState] /\ Follows(ds, call[t]) /\ TabFits(nb, ds)
  BY <1>1, OneTab, CommittedFits
<1>3. Put(t, nb, ds) /\ RowsFit' /\ Len(grants') = Len(grants)
  BY OneTab DEF Listen, server, RowsFit
<1>. HIDE DEF nb, ds
<1>. QED
  BY <1>2, <1>3, OneTab, PutKeeps DEF Listen, server

LEMMA DismissingKeepsIt ==
    ASSUME IInv, NEW t \in Tabs, DismissNotice(t)
    PROVE  IInv'
<1>. DEFINE nb == [tab[t] EXCEPT !.notice = FALSE]
<1>1. /\ nb \in TabState /\ nb.seen = tab[t].seen /\ nb.acting = tab[t].acting
      /\ nb.cache = tab[t].cache /\ nb.behind = tab[t].behind /\ nb.booting = tab[t].booting
      /\ nb.hydrated = tab[t].hydrated /\ nb.login = tab[t].login
  BY OneTab DEF TabState
<1>2. Put(t, nb, call[t]) /\ RowsFit' /\ Len(grants') = Len(grants)
  BY OneTab DEF DismissNotice, Put, IInv, ValuesFit, server, RowsFit
<1>. HIDE DEF nb
<1>3. TabFits(nb, call[t])
  BY <1>1, OneTab DEF TabFits
<1>. QED
  BY <1>1, <1>2, <1>3, OneTab, PutKeeps DEF DismissNotice, server

\* A call begins.
LEMMA CallingKeepsIt ==
    ASSUME IInv, NEW t \in Tabs, NEW n \in Slots, NEW kind \in Kinds(t, n), BeginCall(t, n, kind)
    PROVE  IInv'
<1>. DEFINE c == Sent(kind, tab[t].acting, store.token)
            ds == [call[t] EXCEPT ![n] = c]
<1>1. /\ kind \in {"page", "enter", "exit"} /\ n \in {"page", "dialog"}
      /\ kind = "page" <=> n = "page"
      /\ kind = "exit" => tab[t].acting # 0
      /\ kind = "enter" => n = "dialog" /\ app = "console" /\ Len(grants) < MaxGrants
  BY OneTab, ClientsHave DEF Kinds
<1>2. /\ c \in CallState /\ c.stage = "sent" /\ c.kind = kind /\ c.kept
      /\ c.captured = (IF kind = "enter" THEN 0 ELSE tab[t].acting) /\ c.acting = c.captured
  <2>1. tab[t].acting \in 0..Len(grants) /\ store.token \in Creds
    BY OneTab DEF TabState
  <2>. QED
    BY <1>1, <2>1, OneTab, SentFits DEF AsOperator
<1>3. tab[t].seen # None
  BY OneTab, CredsName DEF BeginCall, User
<1>. HIDE DEF c
<1>4. ds \in [Slots -> CallState] /\ \A m \in Slots : ds[m] = IF m = n THEN c ELSE call[t][m]
  BY <1>2, OneTab
<1>5. Put(t, tab[t], ds)
  BY OneTab DEF BeginCall, Put, IInv, ValuesFit, c
<1>. HIDE DEF ds
<1>6. TabFits(tab[t], ds)
  <2>1. \A m \in Slots : CallFits(m, ds[m], tab[t].acting)
    BY <1>1, <1>2, <1>4, OneTab DEF TabFits, CallFits, AsOperator
  <2>2. ds["perms"] = call[t]["perms"]
    BY <1>1, <1>4, OneTab, ClientsHave
  <2>. QED
    BY <1>3, <2>1, <2>2, OneTab, ZenonT(40) DEF TabFits
<1>7. RowsFit' /\ TabState' = TabState /\ CallState' = CallState /\ Len(grants) <= Len(grants')
  BY OneTab, TablesRest DEF BeginCall, server
<1>8. BoundsFit'
  <2>1. /\ Tabs' = Tabs /\ Slots' = Slots /\ tab' = tab /\ app' = app
        /\ rows' = rows /\ grants' = grants
    BY DEF BeginCall, Tabs, Slots, server
  <2>2. \A x \in Tabs : call'[x] = IF x = t THEN ds ELSE call[x]
    BY <1>5 DEF Put, IInv, ValuesFit
  <2>3. ASSUME NEW x \in Tabs, NEW m \in Slots, call'[x][m].stage # "idle",
               call'[x][m].kind = "enter"
        PROVE  app = "console" /\ m = "dialog" /\ Len(grants) < MaxGrants
    <3>1. CASE x = t /\ m = n
      BY <1>1, <1>2, <1>4, <2>2, <2>3, <3>1
    <3>2. CASE ~(x = t /\ m = n)
      <4>1. call'[x][m] = call[x][m]
        BY <1>4, <2>2, <3>2
      <4>. QED
        BY <2>3, <4>1 DEF BoundsFit, IInv
    <3>. QED
      BY <3>1, <3>2
  <2>. QED
    BY <2>1, <2>3 DEF BoundsFit, IInv
<1>9. \A m \in Slots : ds[m].stage = "waiting" =>
         call[t][m].stage = "waiting" /\ ds[m].on = call[t][m].on
  BY <1>2, <1>4
<1>. QED
  BY <1>4, <1>5, <1>6, <1>7, <1>8, <1>9, OneTab, PutKeepsAll DEF BeginCall, server

\* authFetch rejects: the caller's handlers run, after what the refusal itself did to the tab.
LEMMA FailingKeepsIt ==
    ASSUME IInv, NEW t \in Tabs, NEW n \in Slots, call[t][n].stage # "idle",
           NEW tb \in TabState, NEW cs \in [Slots -> CallState], TabFits(tb, cs),
           Follows(cs, call[t]), cs[n].stage # "idle", cs[n].kind = call[t][n].kind,
           cs[n].kind = "perms" => cs[n].kept = call[t][n].kept,
           tb.seen = tab[t].seen, tb.login = tab[t].login, tb.booting = tab[t].booting,
           Put(t, FailedTab(tb, call[t][n]), FailedCalls(cs, n)),
           UNCHANGED <<app, store, cookie, byes, rows, refresh, shared>>,
           strained' \in BOOLEAN, strained => strained',
           RowsFit', Len(grants') = Len(grants)
    PROVE  IInv'
<1>. DEFINE nb == FailedTab(tb, call[t][n])
            ds == FailedCalls(cs, n)
<1>1. /\ nb \in TabState /\ nb.seen = tb.seen /\ nb.login = tb.login /\ nb.booting = tb.booting
      /\ ds \in [Slots -> CallState] /\ Follows(ds, cs) /\ TabFits(nb, ds)
  BY OneTab, FailedFits
<1>. HIDE DEF nb, ds
<1>2. Follows(ds, call[t])
  BY <1>1 DEF Follows
<1>3. Put(t, nb, ds)
  BY DEF nb, ds
<1>. QED
  BY <1>1, <1>2, <1>3, OneTab, PutKeeps

\* A retry's 401, a request that times out, and a 401 with no session to refresh.
LEMMA RejectingKeepsIt ==
    ASSUME IInv, NEW t \in Tabs, NEW n \in Slots, RefusedAgain(t, n) \/ CallTimesOut(t, n)
    PROVE  IInv'
<1>1. call[t][n].stage # "idle" /\ Put(t, FailedTab(tab[t], call[t][n]), FailedCalls(call[t], n))
  BY DEF RefusedAgain, CallTimesOut, OnWire
<1>2. /\ UNCHANGED <<app, store, cookie, byes, rows, refresh, shared, strained>>
      /\ RowsFit' /\ Len(grants') = Len(grants)
  BY OneTab, TablesRest DEF RefusedAgain, CallTimesOut, server
<1>. QED
  BY <1>1, <1>2, OneTab, FailingKeepsIt

\* The acting grant ends on the server.
LEMMA GrantEnds ==
    ASSUME RowsFit, rows' = rows, NEW g \in DOMAIN grants, grants' = [grants EXCEPT ![g].live = FALSE]
    PROVE  RowsFit' /\ Len(grants') = Len(grants)
<1>. DEFINE Grant == [sid : Nat, live : BOOLEAN]
            after == [grants[g] EXCEPT !.live = FALSE]
<1>1. grants \in Seq(Grant) /\ g \in 1..Len(grants)
  BY CredsName DEF RowsFit
<1>2. grants[g] \in Grant
  BY <1>1, ElementOfSeq
<1>3. after \in Grant
  BY <1>2
<1>4. grants' = [grants EXCEPT ![g] = after]
  OBVIOUS
<1>. HIDE DEF Grant, after
<1>5. grants' \in Seq(Grant) /\ Len(grants') = Len(grants)
  <2>1. [grants EXCEPT ![g] = after] \in Seq(Grant)
    BY <1>1, <1>3, ExceptSeq
  <2>2. Len([grants EXCEPT ![g] = after]) = Len(grants)
    BY <1>1, <1>3, ExceptSeq
  <2>. QED
    BY <1>4, <2>1, <2>2
<1>. QED
  BY <1>5 DEF RowsFit, Grant

LEMMA ExitingKeepsIt ==
    ASSUME IInv, NEW t \in Tabs, NEW n \in Slots, Exited(t, n)
    PROVE  IInv'
<1>1. call[t][n].stage \in {"sent", "resent"} /\ call[t][n].kind = "exit"
      /\ Put(t, FailedTab(tab[t], call[t][n]), FailedCalls(call[t], n))
  BY DEF Exited, OnWire
<1>2. call[t][n].acting \in DOMAIN grants
  <2>1. call[t][n].acting \in 0..Len(grants) /\ call[t][n].acting # 0
    BY <1>1, OneTab DEF CallState, TabFits, CallFits
  <2>. QED
    BY <2>1, OneTab, CredsName
<1>3. RowsFit' /\ Len(grants') = Len(grants)
  BY <1>2, OneTab, GrantEnds DEF Exited
<1>. QED
  BY <1>1, <1>3, OneTab, FailingKeepsIt DEF Exited

\* A 401 on the acting token.
LEMMA ActingRefusedKeepsIt ==
    ASSUME IInv, NEW t \in Tabs, NEW n \in Slots, ActingRefused(t, n)
    PROVE  IInv'
<1>. DEFINE tb == Dropped(tab[t])
            cs == DroppedCalls(tab[t], call[t])
<1>1. call[t][n].stage = "sent" /\ Put(t, FailedTab(tb, call[t][n]), FailedCalls(cs, n))
  BY DEF ActingRefused
<1>2. /\ UNCHANGED <<app, store, cookie, byes, rows, refresh, shared, strained>>
      /\ RowsFit' /\ Len(grants') = Len(grants)
  BY OneTab, TablesRest DEF ActingRefused, server
<1>3. /\ tb \in TabState /\ cs \in [Slots -> CallState] /\ TabFits(tb, cs) /\ Follows(cs, call[t])
      /\ cs[n].stage = call[t][n].stage /\ cs[n].kind = call[t][n].kind
      /\ cs[n].kind # "page" => cs[n].kept = call[t][n].kept
      /\ tb.seen = tab[t].seen /\ tb.login = tab[t].login /\ tb.booting = tab[t].booting
  <2>1. CASE tab[t].acting = 0
    BY <2>1, OneTab DEF Dropped, DroppedCalls
  <2>2. CASE tab[t].acting # 0
    <3>. DEFINE nb == [ClearedTab(tab[t]) EXCEPT !.acting = 0, !.notice = TRUE]
    <3>1. tb = nb /\ cs = ClearedCalls(call[t])
      BY <2>2 DEF Dropped, DroppedCalls
    <3>2. /\ nb \in TabState /\ nb.seen = tab[t].seen /\ nb.login = tab[t].login
          /\ nb.booting = tab[t].booting /\ nb.hydrated = tab[t].hydrated
          /\ nb.cache = {} /\ nb.behind = FALSE /\ nb.acting = 0
      <4>1. 0 \in 0..Len(grants) /\ tab[t] \in TabState
        BY OneTab, CredsName
      <4>. QED
        BY <4>1 DEF TabState, ClearedTab
    <3>. HIDE DEF nb, tb, cs
    <3>3. /\ ClearedCalls(call[t]) \in [Slots -> CallState]
          /\ Follows(ClearedCalls(call[t]), call[t])
          /\ TabFits(nb, ClearedCalls(call[t]))
      BY <3>2, OneTab, ClientsHave, ClearedFits
    <3>4. /\ cs[n].stage = call[t][n].stage /\ cs[n].kind = call[t][n].kind
          /\ cs[n].kind # "page" => cs[n].kept = call[t][n].kept
      <4>1. call[t][n] \in CallState
        BY OneTab
      <4>2. cs[n] = IF call[t][n].kind = "page" THEN [call[t][n] EXCEPT !.kept = FALSE]
                    ELSE call[t][n]
        BY <3>1 DEF ClearedCalls
      <4>. QED
        BY <4>1, <4>2 DEF CallState
    <3>. QED
      BY <3>1, <3>2, <3>3, <3>4
  <2>. QED
    BY <2>1, <2>2
<1>. HIDE DEF tb, cs
<1>. QED
  BY <1>1, <1>2, <1>3, OneTab, FailingKeepsIt

\* A page's answer.
LEMMA PageAnsweredKeepsIt ==
    ASSUME IInv, NEW t \in Tabs, NEW n \in Slots, PageAnswered(t, n)
    PROVE  IInv'
<1>. DEFINE c == call[t][n]
            nb == [tab[t] EXCEPT !.cache = IF c.kept THEN @ \cup {Identity(c.acting, c.token)} ELSE @,
                                 !.behind = @ \/ (c.acting = 0 /\ UserOf(c.token) # User(t))]
            ds == [call[t] EXCEPT ![n] = Idle]
<1>1. /\ c \in CallState /\ c.kind = "page" /\ c.stage \in {"sent", "resent"} /\ n = "page"
      /\ c.acting = c.captured /\ (c.kept => c.captured = tab[t].acting)
      /\ (tab[t].seen = None /\ (tab[t].behind => app = "console") => ~c.kept)
  BY OneTab DEF PageAnswered, OnWire, TabFits, CallFits
<1>2. Identity(c.acting, c.token) \in [acting : Nat, user : Who]
  <2>1. c.acting \in Nat /\ UserOf(c.token) \in Who /\ NoUser \in Who
    BY <1>1, OneTab, CredsName DEF CallState, Who
  <2>. QED
    BY <2>1 DEF Identity
<1>3. /\ nb \in TabState /\ nb.seen = tab[t].seen /\ nb.login = tab[t].login
      /\ nb.booting = tab[t].booting /\ nb.hydrated = tab[t].hydrated
      /\ nb.acting = tab[t].acting
      /\ nb.cache = IF c.kept THEN tab[t].cache \cup {Identity(c.acting, c.token)} ELSE tab[t].cache
      /\ nb.behind <=> tab[t].behind \/ (c.acting = 0 /\ UserOf(c.token) # User(t))
  <2>1. tab[t] \in TabState
    BY OneTab
  <2>. QED
    BY <1>2, <2>1 DEF TabState
<1>4. Put(t, nb, ds) /\ RowsFit' /\ Len(grants') = Len(grants)
  BY OneTab, TablesRest DEF PageAnswered, server
<1>. HIDE DEF nb
<1>5. TabFits(nb, call[t])
  <2>1. ~nb.behind => nb.cache \subseteq {Identity(nb.acting, nb.seen)}
    <3>. SUFFICES ASSUME ~nb.behind
                  PROVE  nb.cache \subseteq {Identity(nb.acting, nb.seen)}
      OBVIOUS
    <3>1. tab[t].cache \subseteq {Identity(tab[t].acting, tab[t].seen)}
      BY <1>3, OneTab DEF TabFits
    <3>2. c.kept => Identity(c.acting, c.token) = Identity(tab[t].acting, tab[t].seen)
      BY <1>1, <1>3 DEF Identity, User
    <3>. HIDE DEF c
    <3>. QED
      BY <1>3, <3>1, <3>2
  <2>2. nb.seen = None /\ (nb.behind => app = "console") => nb.cache = {}
    BY <1>1, <1>3, OneTab, ZenonT(40) DEF TabFits
  <2>. QED
    BY <1>3, <2>1, <2>2, OneTab, ZenonT(40) DEF TabFits
<1>6. ds \in [Slots -> CallState] /\ Follows(ds, call[t]) /\ TabFits(nb, ds)
  BY <1>1, <1>5, OneTab, OverFits
<1>. HIDE DEF ds, c
<1>. QED
  BY <1>3, <1>4, <1>6, OneTab, PutKeeps DEF PageAnswered, server

\* The hydration effect's answer.
LEMMA PermissionsAnsweredKeepsIt ==
    ASSUME IInv, NEW t \in Tabs, PermissionsAnswered(t)
    PROVE  IInv'
<1>. DEFINE c == call[t]["perms"]
            nb == [tab[t] EXCEPT !.hydrated = @ \/ c.kept]
            ds == [call[t] EXCEPT !["perms"] = Idle]
<1>1. "perms" \in Slots /\ c \in CallState
  BY OneTab, ClientsHave
<1>2. /\ nb \in TabState /\ nb.seen = tab[t].seen /\ nb.login = tab[t].login
      /\ nb.booting = tab[t].booting /\ nb.acting = tab[t].acting /\ nb.cache = tab[t].cache
      /\ nb.behind = tab[t].behind /\ (nb.hydrated <=> tab[t].hydrated \/ c.kept)
  <2>1. tab[t] \in TabState /\ c.kept \in BOOLEAN
    BY <1>1, OneTab DEF CallState
  <2>. HIDE DEF c
  <2>. QED
    BY <2>1 DEF TabState
<1>3. Put(t, nb, ds) /\ RowsFit' /\ Len(grants') = Len(grants)
  BY OneTab, TablesRest DEF PermissionsAnswered, server
<1>4. store' \in [token : Creds, perms : Who] /\ store'.token = store.token
  BY <1>1, OneTab, CredsName DEF PermissionsAnswered, CallState
<1>. HIDE DEF nb
<1>5. TabFits(nb, call[t])
  BY <1>2, OneTab DEF TabFits
<1>6. ds \in [Slots -> CallState] /\ Follows(ds, call[t]) /\ TabFits(nb, ds)
  BY <1>1, <1>2, <1>5, OneTab, OverFits
<1>. HIDE DEF ds, c
<1>. QED
  BY <1>2, <1>3, <1>4, <1>6, OneTab, PutKeeps DEF PermissionsAnswered, server

\* installActing.
LEMMA EnteredKeepsIt ==
    ASSUME IInv, NEW t \in Tabs, NEW n \in Slots, Entered(t, n)
    PROVE  IInv'
<1>. DEFINE c == call[t][n]
            nb == [ClearedTab(tab[t]) EXCEPT !.acting = Len(grants) + 1, !.notice = FALSE]
            rest == [call[t] EXCEPT ![n] = Idle]
            ds == ClearedCalls(rest)
            grant == [sid |-> c.token.sid, live |-> TRUE]
            Grant == [sid : Nat, live : BOOLEAN]
<1>1. /\ c \in CallState /\ c.kind = "enter" /\ c.stage \in {"sent", "resent"}
      /\ app = "console" /\ n = "dialog" /\ Len(grants) < MaxGrants
  BY OneTab DEF Entered, OnWire, BoundsFit, IInv
<1>2. grant \in Grant
  <2>1. c.token \in Creds /\ None.sid = 0
    BY <1>1 DEF CallState, None
  <2>2. c.token.sid \in Nat
    BY <2>1, OneTab, CredsName
  <2>. QED
    BY <2>2
<1>3. grants \in Seq(Grant) /\ grants' = Append(grants, grant) /\ Len(grants) \in Nat
  BY OneTab, CredsName DEF Entered, RowsFit
<1>. HIDE DEF grant, Grant
<1>4. grants' \in Seq(Grant) /\ Len(grants') = Len(grants) + 1
  BY <1>2, <1>3, AppendProperties
<1>5. RowsFit' /\ Len(grants) <= Len(grants') /\ Grows
  <2>1. Len(grants') <= MaxGrants
    BY <1>1, <1>3, <1>4, SessionAssumption
  <2>2. rows' = rows /\ app' = app
    BY DEF Entered
  <2>3. RowsFit'
    BY <1>4, <2>1, <2>2, OneTab DEF RowsFit, Grant
  <2>. QED
    BY <1>3, <1>4, <2>2, <2>3 DEF Grows
<1>6. /\ nb \in TabState' /\ nb.seen = tab[t].seen /\ nb.login = tab[t].login
      /\ nb.booting = tab[t].booting /\ nb.hydrated = tab[t].hydrated
      /\ nb.cache = {} /\ nb.behind = FALSE
  <2>1. tab[t] \in TabState' /\ Len(grants) + 1 \in 0..Len(grants')
    BY <1>3, <1>4, <1>5, OneTab, TypesGrow
  <2>. QED
    BY <2>1 DEF TabState, ClearedTab
<1>. HIDE DEF nb
<1>7. rest \in [Slots -> CallState] /\ Follows(rest, call[t]) /\ TabFits(tab[t], rest)
  BY <1>1, OneTab, OverFits
<1>. HIDE DEF rest
<1>8. ds \in [Slots -> CallState] /\ Follows(ds, rest) /\ TabFits(nb, ds)
  BY <1>1, <1>6, <1>7, OneTab, ClientsHave, ClearedFits, ZenonT(40)
<1>9. ds \in [Slots -> CallState']
  BY <1>5, <1>8, OneTab, TypesGrow
<1>10. Put(t, nb, ds)
  BY DEF Entered, nb, ds, rest
<1>11. \A m \in Slots : ds[m].stage # "idle" => ds[m].kind # "enter"
  <2>1. \A m \in Slots : rest[m] = IF m = n THEN Idle ELSE call[t][m]
    BY OneTab DEF rest
  <2>2. Idle.stage = "idle"
    BY DEF Idle
  <2>3. \A m \in Slots : ds[m].stage # "idle" /\ ds[m].kind = "enter" =>
           rest[m].stage # "idle" /\ rest[m].kind = "enter"
    BY <1>8 DEF Follows
  <2>4. \A m \in Slots : call[t][m].stage # "idle" /\ call[t][m].kind = "enter" => m = n
    BY <1>1 DEF BoundsFit, IInv
  <2>. QED
    BY <2>1, <2>2, <2>3, <2>4
<1>. HIDE DEF ds
<1>12. BoundsFit'
  <2>1. Tabs = {t} /\ Tabs' = Tabs /\ Slots' = Slots
    BY <1>1, OneTab, ClientsHave DEF Entered, Tabs, Slots
  <2>2. tab'[t] = nb /\ call'[t] = ds /\ rows' = rows
    BY <1>10 DEF Put, IInv, ValuesFit, Entered
  <2>. QED
    BY <1>6, <1>11, <2>1, <2>2 DEF BoundsFit, IInv
<1>13. \A m \in Slots : ds[m].stage = "waiting" =>
          call[t][m].stage = "waiting" /\ ds[m].on = call[t][m].on
  BY <1>7, <1>8 DEF Follows
<1>. QED
  BY <1>5, <1>6, <1>8, <1>9, <1>10, <1>12, <1>13, OneTab, PutKeepsAll DEF Entered

\* issueToken answered: a session row, its cookie and its token.
LEMMA LoggedInKeepsIt ==
    ASSUME IInv, NEW t \in Tabs, LoginAnswered(t)
    PROVE  IInv'
<1>. DEFINE u == tab[t].login
            token == [sid |-> Len(rows) + 1, gen |-> 1]
            row == [user |-> u, gen |-> 1, open |-> TRUE]
            RowState == [user : Users, gen : Nat, open : BOOLEAN]
            got == Committed(tab[t], token, u)
            nb == [ClearedTab(got) EXCEPT !.login = NoUser]
            mid == CommittedCalls(tab[t], call[t], token, u)
            ds == ClearedCalls(mid)
<1>1. /\ u \in Users /\ Len(rows) \in Nat /\ Len(rows) < MaxLogins /\ row \in RowState
      /\ \A x \in Tabs : x # t => tab[x].login = NoUser
  <2>1. u \in Users
    BY OneTab DEF LoginAnswered, TabState, Who
  <2>. QED
    BY <2>1, OneTab, CredsName DEF LoginAnswered, BoundsFit, IInv
<1>2. RowsFit' /\ Grows /\ Len(rows') = Len(rows) + 1 /\ rows'[Len(rows) + 1] = row
      /\ \A s \in DOMAIN rows : rows'[s] = rows[s]
  <2>1. rows \in Seq(RowState) /\ rows' = Append(rows, row)
    BY OneTab DEF LoginAnswered, RowsFit
  <2>. HIDE DEF RowState, row
  <2>2. /\ rows' \in Seq(RowState) /\ Len(rows') = Len(rows) + 1
        /\ rows'[Len(rows) + 1] = row /\ \A s \in 1..Len(rows) : rows'[s] = rows[s]
    BY <1>1, <2>1, AppendProperties
  <2>3. Len(rows') <= MaxLogins /\ grants' = grants /\ app' = app
    BY <1>1, <2>2, SessionAssumption DEF LoginAnswered
  <2>4. DOMAIN rows = 1..Len(rows) /\ DOMAIN rows' = 1..Len(rows') /\ Len(grants) <= Len(grants')
    BY <2>2, <2>3, OneTab, CredsName, LenProperties
  <2>. QED
    BY <1>1, <2>2, <2>3, <2>4, OneTab DEF RowsFit, RowState, Grows
<1>3. token \in Creds' /\ token # None /\ \A old \in Creds : old # None => old.sid # Len(rows) + 1
  BY <1>1, <1>2, OneTab, CredsName DEF Creds, None, RowsFit
<1>. HIDE DEF token, row, RowState
<1>4. "perms" \in Slots /\ NoUser \notin Users /\ app' = app /\ Slots' = Slots /\ Tabs' = Tabs
  BY OneTab, ClientsHave DEF LoginAnswered, Slots, Tabs
<1>5. /\ nb \in TabState' /\ nb.seen = token /\ nb.cache = {} /\ nb.behind = FALSE
      /\ nb.acting = tab[t].acting /\ nb.login = NoUser /\ nb.booting = tab[t].booting
      /\ nb.hydrated = tab[t].hydrated
  <2>1. tab[t] \in TabState' /\ u \in Who /\ NoUser \in Who
    BY <1>1, <1>2, OneTab, TypesGrow DEF Who
  <2>. HIDE DEF u
  <2>. QED
    BY <1>3, <2>1 DEF TabState, ClearedTab, Committed
<1>. HIDE DEF nb
<1>6. Sent("perms", 0, token) \in CallState'
      /\ Sent("perms", 0, token).stage = "sent" /\ Sent("perms", 0, token).kind = "perms"
      /\ Sent("perms", 0, token).kept
      /\ Sent("perms", 0, token).captured = 0 /\ Sent("perms", 0, token).acting = 0
  <2>1. 0 \in 0..Len(grants') /\ None \in Creds'
    BY <1>2, CredsName, OneTab DEF RowsFit, Creds
  <2>. QED
    BY <1>3, <2>1 DEF Sent, Idle, CallState, AsOperator
<1>7. /\ \A n \in Slots : n # "perms" => mid[n] = call[t][n]
      /\ mid \in [Slots -> CallState']
      /\ mid["perms"].stage = "waiting" => call[t]["perms"].stage = "waiting"
                                           /\ mid["perms"].on = call[t]["perms"].on
      /\ mid["perms"].stage # "idle" => mid["perms"].kind = "perms"
      /\ CallFits("perms", mid["perms"], nb.acting)
      /\ ~tab[t].hydrated => mid["perms"].stage # "idle" /\ mid["perms"].kept
  <2>1. call[t] \in [Slots -> CallState'] /\ call[t]["perms"] \in CallState'
    BY <1>2, <1>4, OneTab, TypesGrow
  <2>2. CallFits("perms", call[t]["perms"], nb.acting)
    BY <1>4, <1>5, OneTab DEF TabFits
  <2>3. CASE Settled(tab[t], u)
    <3>1. mid = [call[t] EXCEPT !["perms"].kept = FALSE]
      BY <2>3 DEF CommittedCalls
    <3>. HIDE DEF mid
    <3>2. /\ mid \in [Slots -> CallState']
          /\ \A n \in Slots : mid[n] = IF n = "perms" THEN [call[t]["perms"] EXCEPT !.kept = FALSE]
                                       ELSE call[t][n]
      BY <1>4, <2>1, <3>1 DEF CallState
    <3>. QED
      <4>1. mid["perms"] = [call[t]["perms"] EXCEPT !.kept = FALSE]
        BY <1>4, <3>2
      <4>2. \A f \in {"kind", "stage", "captured", "acting", "on"} : mid["perms"][f] = call[t]["perms"][f]
        BY <2>1, <4>1 DEF CallState
      <4>3. CallFits("perms", mid["perms"], nb.acting)
        BY <2>1, <2>2, <4>1, <4>2 DEF CallState, CallFits
      <4>4. tab[t].hydrated
        BY <2>3 DEF Settled
      <4>. QED
        BY <1>4, <2>3, <3>2, <4>1, <4>2, <4>3, <4>4, OneTab DEF TabFits, CallFits
  <2>4. CASE ~Settled(tab[t], u)
    <3>1. mid = [call[t] EXCEPT !["perms"] = Sent("perms", 0, token)]
      BY <1>1, <1>4, <2>4 DEF CommittedCalls
    <3>. HIDE DEF mid
    <3>2. /\ mid \in [Slots -> CallState']
          /\ \A n \in Slots : mid[n] = IF n = "perms" THEN Sent("perms", 0, token) ELSE call[t][n]
      BY <1>4, <1>6, <2>1, <3>1
    <3>. QED
      BY <1>4, <1>6, <2>1, <2>4, <3>2 DEF CallFits, AsOperator
  <2>. QED
    BY <2>3, <2>4
<1>. HIDE DEF mid
<1>8. /\ ds \in [Slots -> CallState']
      /\ \A n \in Slots :
            /\ ds[n].stage = mid[n].stage /\ ds[n].kind = mid[n].kind /\ ds[n].on = mid[n].on
            /\ ds[n].captured = mid[n].captured /\ ds[n].acting = mid[n].acting
            /\ ds[n].kind = "page" => ~ds[n].kept
            /\ ds[n].kind # "page" => ds[n].kept = mid[n].kept
  <2>1. \A n \in Slots : mid[n] \in CallState'
    BY <1>7
  <2>2. \A n \in Slots : ds[n] = IF mid[n].kind = "page" THEN [mid[n] EXCEPT !.kept = FALSE]
                                 ELSE mid[n]
    BY DEF ClearedCalls
  <2>3. ds \in [Slots -> CallState']
    BY <2>1 DEF ClearedCalls, CallState
  <2>. HIDE DEF ds
  <2>4. \A n \in Slots :
            /\ ds[n].stage = mid[n].stage /\ ds[n].kind = mid[n].kind /\ ds[n].on = mid[n].on
            /\ ds[n].captured = mid[n].captured /\ ds[n].acting = mid[n].acting
            /\ ds[n].kind = "page" => ~ds[n].kept
            /\ ds[n].kind # "page" => ds[n].kept = mid[n].kept
    BY <2>1, <2>2 DEF CallState
  <2>. QED
    BY <2>3, <2>4
<1>9. Put(t, nb, ds)
  BY DEF LoginAnswered, nb, ds, mid, got, token
<1>. HIDE DEF ds
<1>10. Follows(ds, call[t])
  BY <1>7, <1>8 DEF Follows
<1>11. TabsFit'
  <2>1. \A n \in Slots : CallFits(n, ds[n], nb.acting)
    BY <1>5, <1>7, <1>8, OneTab DEF TabFits, CallFits
  <2>2. nb.acting # 0 => app = "console"
    BY <1>5, OneTab DEF TabFits
  <2>3. ~nb.hydrated => ds["perms"].stage # "idle" /\ ds["perms"].kept
    BY <1>4, <1>5, <1>7, <1>8
  <2>4. ASSUME NEW v, NEW w, v = nb, w = ds
        PROVE  TabFits(v, w)'
    BY <1>3, <1>4, <1>5, <2>1, <2>2, <2>3, <2>4 DEF TabFits, CallFits, AsOperator
  <2>5. /\ tab'[t] = nb /\ call'[t] = ds
        /\ \A x \in Tabs : x # t => tab'[x] = tab[x] /\ call'[x] = call[x]
    BY <1>9, OneTab DEF Put, ValuesFit
  <2>6. ASSUME NEW x \in Tabs
        PROVE  TabFits(tab[x], call[x])'
    <3>1. ASSUME NEW v, NEW w, v = tab'[x], w = call'[x]
          PROVE  TabFits(v, w)'
      <4>1. CASE x = t
        BY <2>4, <2>5, <3>1, <4>1
      <4>2. CASE x # t
        <5>1. v = tab[x] /\ w = call[x]
          BY <2>5, <3>1, <4>2
        <5>2. v.seen \in Creds /\ TabFits(v, w)
          BY <5>1, OneTab DEF TabState
        <5>. QED
          BY <1>2, <5>2, OneTab, TabRests
      <4>. QED
        BY <4>1, <4>2
    <3>. QED
      BY <3>1 DEF TabFits, CallFits, Identity, UserOf, AsOperator
  <2>. QED
    BY <1>4, <2>6 DEF TabsFit
<1>12. store'.token = token /\ cookie' = token
  BY OneTab DEF LoginAnswered, token
<1>13. ValuesFit'
  <2>1. /\ store' \in [token : Creds', perms : Who] /\ cookie' \in Creds' /\ byes' \subseteq Creds'
    BY <1>2, <1>3, <1>12, OneTab, TypesGrow DEF LoginAnswered, token
  <2>2. /\ refresh' \in [Tabs -> [Starters -> RefreshState']]
        /\ shared' \in [Tabs -> Slots \cup {"none"}] /\ strained' \in BOOLEAN
    BY <1>2, OneTab, TypesGrow DEF LoginAnswered, ValuesFit
  <2>. QED
    BY <1>2, <1>5, <1>8, <1>9, <2>1, <2>2, OneTab, PutTypes
<1>14. ConsoleSees'
  BY <1>4, <1>5, <1>9, <1>12, OneTab DEF ConsoleSees, Put, ValuesFit
<1>15. WaitInv'
  BY <1>2, <1>5, <1>9, <1>10, OneTab, PutWaits DEF LoginAnswered, Follows, IInv
<1>16. BoundsFit'
  <2>1. /\ tab'[t] = nb /\ call'[t] = ds
        /\ \A x \in Tabs : x # t => tab'[x] = tab[x] /\ call'[x] = call[x]
    BY <1>9, OneTab DEF Put, ValuesFit
  <2>2. \A x \in Tabs : tab'[x].login = NoUser
    BY <1>1, <1>5, <2>1
  <2>3. ASSUME NEW x \in Tabs, NEW n \in Slots, call'[x][n].stage # "idle",
               call'[x][n].kind = "enter"
        PROVE  call[x][n].stage # "idle" /\ call[x][n].kind = "enter"
    BY <1>10, <2>1, <2>3 DEF Follows
  <2>4. grants' = grants
    BY DEF LoginAnswered
  <2>. QED
    BY <1>4, <2>2, <2>3, <2>4 DEF BoundsFit, IInv
<1>17. RefreshInv'
  <2>1. /\ refresh' = refresh /\ shared' = shared /\ strained' = strained /\ Starters' = Starters
    BY <1>4 DEF LoginAnswered, Starters
  <2>2. RotatedFits'
    BY <1>4, <2>1 DEF RefreshInv, RotatedFits, IInv
  <2>3. ASSUME app = "console", ~strained
        PROVE  OneRefresh'
    <3>1. OneRefresh
      BY <2>3 DEF RefreshInv, IInv
    <3>2. Current(cookie)'
      BY <1>2, <1>12 DEF Current, token, row
    <3>3. ASSUME NEW o \in Starters
          PROVE  RefreshFits(refresh[1][o])'
      <4>1. refresh[1][o] \in RefreshState /\ RefreshFits(refresh[1][o])
        BY <2>3, <3>1, OneTab, ClientsHave DEF OneRefresh, ValuesFit
      <4>2. refresh'[1][o] = refresh[1][o]
        BY <2>1
      <4>3. refresh[1][o].cookie # None =>
               rows'[refresh[1][o].cookie.sid] = rows[refresh[1][o].cookie.sid]
        BY <1>2, <4>1, OneTab, CredsName DEF RefreshState
      <4>4. (IF refresh[1][o].token = None THEN NoUser ELSE rows'[refresh[1][o].token.sid].user)
               = UserOf(refresh[1][o].token)
        BY <1>2, <4>1, OneTab, TypesGrow DEF RefreshState
      <4>. QED
        BY <4>1, <4>2, <4>3, <4>4 DEF RefreshFits, Current, UserOf
    <3>. QED
      BY <1>4, <2>1, <3>1, <3>2, <3>3 DEF OneRefresh
  <2>. QED
    BY <1>4, <2>1, <2>2, <2>3 DEF RefreshInv
<1>. QED
  BY <1>11, <1>13, <1>14, <1>15, <1>16, <1>17 DEF IInv

-----------------------------------------------------------------------------
(* The steps of a refresh. *)

\* One tab is written, and its waiting and its refreshes with it.
LEMMA PutKeepsRest ==
    ASSUME IInv, NEW t \in Tabs, NEW tb \in TabState, NEW cs \in [Slots -> CallState],
           Put(t, tb, cs), TabFits(tb, cs), tb.login = tab[t].login,
           \A n \in Slots : cs[n].stage # "idle" /\ cs[n].kind = "enter" =>
              call[t][n].stage # "idle" /\ call[t][n].kind = "enter",
           store' \in [token : Creds, perms : Who], cookie' \in Creds,
           app = "console" => tb.seen \in {None, store'.token},
           app' = app, byes' \subseteq Creds, RowsFit', Grows, Len(rows') = Len(rows),
           Len(grants') = Len(grants),
           refresh' \in [Tabs -> [Starters -> RefreshState]],
           shared' \in [Tabs -> Slots \cup {"none"}], strained' \in BOOLEAN,
           WaitInv', RefreshInv'
    PROVE  IInv'
<1>0. DOMAIN rows' = DOMAIN rows
  BY OneTab, LenProperties DEF RowsFit
<1>1. /\ Creds' = Creds /\ Tabs' = Tabs /\ Slots' = Slots /\ Starters' = Starters
      /\ TabState' = TabState /\ CallState' = CallState /\ RefreshState' = RefreshState
  BY <1>0 DEF Creds, TabState, CallState, RefreshState, Starters, Slots, Tabs
<1>2. tb.seen \in Creds
  BY DEF TabState
<1>3. ValuesFit'
  <2>1. /\ tb \in TabState' /\ cs \in [Slots -> CallState'] /\ cookie' \in Creds'
        /\ store' \in [token : Creds', perms : Who] /\ byes' \subseteq Creds'
        /\ refresh' \in [Tabs -> [Starters -> RefreshState']]
    BY <1>1, OneTab
  <2>. QED
    BY <2>1, OneTab, PutTypes
<1>4. TabsFit'
  BY <1>2, OneTab, PutFits DEF IInv
<1>5. ConsoleSees'
  BY OneTab, ClientsHave DEF ConsoleSees, Put, ValuesFit
<1>6. BoundsFit'
  <2>1. /\ tab'[t] = tb /\ call'[t] = cs
        /\ \A x \in Tabs : x # t => tab'[x] = tab[x] /\ call'[x] = call[x]
    BY OneTab DEF Put, ValuesFit
  <2>2. \A x \in Tabs : tab'[x].login = tab[x].login
    BY <2>1
  <2>3. \A x \in Tabs, n \in Slots : call'[x][n].stage # "idle" /\ call'[x][n].kind = "enter" =>
           call[x][n].stage # "idle" /\ call[x][n].kind = "enter"
    BY <2>1
  <2>4. Len(rows') = Len(rows) /\ app' = app /\ Len(grants') = Len(grants) /\ BoundsFit
    BY DEF IInv
  <2>5. \A x \in Tabs : tab'[x].login # NoUser =>
           Len(rows') < MaxLogins /\ \A y \in Tabs : y # x => tab'[y].login = NoUser
    BY <2>2, <2>4 DEF BoundsFit
  <2>6. \A x \in Tabs, n \in Slots : call'[x][n].stage # "idle" /\ call'[x][n].kind = "enter" =>
           app' = "console" /\ n = "dialog" /\ Len(grants') < MaxGrants
    BY <2>3, <2>4 DEF BoundsFit
  <2>. QED
    BY <1>1, <2>5, <2>6 DEF BoundsFit
<1>. QED
  BY <1>3, <1>4, <1>5, <1>6 DEF IInv

\* A call that waits is the call it was.
Waits(cs, n, o) == [cs EXCEPT ![n].stage = "waiting", ![n].on = o]

LEMMA WaitingFits ==
    ASSUME ValuesFit, NEW tb, NEW cs, TabFits(tb, cs), cs \in [Slots -> CallState],
           NEW n \in Slots, cs[n].stage = "sent", NEW o \in Slots
    PROVE  /\ Waits(cs, n, o) \in [Slots -> CallState] /\ TabFits(tb, Waits(cs, n, o))
           /\ Waits(cs, n, o)[n].stage = "waiting" /\ Waits(cs, n, o)[n].on = o
           /\ \A m \in Slots : m # n => Waits(cs, n, o)[m] = cs[m]
           /\ \A m \in Slots : Waits(cs, n, o)[m].kind = cs[m].kind
<1>. DEFINE ds == Waits(cs, n, o)
<1>1. ds = [cs EXCEPT ![n] = [cs[n] EXCEPT !.stage = "waiting", !.on = o]]
  BY DEF Waits
<1>2. cs[n] \in CallState /\ o \in Starters /\ "perms" \in Slots
  BY ClientsHave
<1>. DEFINE c == [cs[n] EXCEPT !.stage = "waiting", !.on = o]
<1>3. /\ c \in CallState /\ c.stage = "waiting" /\ c.on = o /\ c.kind = cs[n].kind
      /\ c.captured = cs[n].captured /\ c.kept = cs[n].kept
  BY <1>2 DEF CallState
<1>. HIDE DEF c, ds
<1>4. ds \in [Slots -> CallState] /\ \A m \in Slots : ds[m] = IF m = n THEN c ELSE cs[m]
  BY <1>1, <1>3 DEF c
<1>5. \A m \in Slots : CallFits(m, ds[m], tb.acting)
  BY <1>3, <1>4 DEF TabFits, CallFits
<1>6. TabFits(tb, ds)
  BY <1>2, <1>3, <1>4, <1>5 DEF TabFits
<1>. QED
  BY <1>3, <1>4, <1>6 DEF ds

\* A 401 on the session's own token.
LEMMA RefusedKeepsIt ==
    ASSUME IInv, NEW t \in Tabs, NEW n \in Slots, Refused(t, n)
    PROVE  IInv'
<1>1. /\ call[t][n].stage = "sent" /\ UNCHANGED <<app, store, cookie, byes, rows, grants>>
      /\ RowsFit' /\ Grows /\ Len(grants') = Len(grants) /\ Len(rows') = Len(rows)
      /\ Tabs' = Tabs /\ Slots' = Slots /\ Starters' = Starters
  BY OneTab, NothingGrows DEF Refused, server, Tabs, Slots, Starters
<1>2. /\ strained' \in BOOLEAN
      /\ strained => strained'
      /\ app = "console" /\ ~strained' => refresh[t]["boot"].stage = "none"
  BY OneTab DEF Refused
<1>3. /\ tab \in [Tabs -> TabState] /\ call \in [Tabs -> [Slots -> CallState]]
      /\ refresh \in [Tabs -> [Starters -> RefreshState]]
      /\ shared \in [Tabs -> Slots \cup {"none"}]
  BY OneTab DEF ValuesFit
<1>4. CASE shared[t] # "none"
  <2>. DEFINE ds == Waits(call[t], n, shared[t])
  <2>1. /\ call' = [call EXCEPT ![t][n].stage = "waiting", ![t][n].on = shared[t]]
        /\ UNCHANGED <<tab, refresh, shared>>
    BY <1>4 DEF Refused
  <2>2. shared[t] \in Slots
    BY <1>3, <1>4
  <2>3. /\ ds \in [Slots -> CallState] /\ TabFits(tab[t], ds)
        /\ ds[n].stage = "waiting" /\ ds[n].on = shared[t]
        /\ \A m \in Slots : m # n => ds[m] = call[t][m]
        /\ \A m \in Slots : ds[m].kind = call[t][m].kind
    BY <1>1, <2>2, OneTab, WaitingFits
  <2>4. Put(t, tab[t], ds)
    BY <1>3, <2>1 DEF Put, Waits
  <2>. HIDE DEF ds
  <2>5. WaitInv'
    <3>1. ASSUME NEW x \in Tabs
          PROVE  WaitsFit(x)'
      <4>1. WaitsFit(x) /\ WaitsFit(t)
        BY OneTab
      <4>2. call'[x] = IF x = t THEN ds ELSE call[x]
        BY <1>3, <2>4 DEF Put
      <4>3. shared[t] \in Starters /\ refresh[t][shared[t]].stage # "none"
        BY <1>4, <2>2, <4>1 DEF Starters, WaitsFit
      <4>4. \A m \in Slots : call'[x][m].stage = "waiting" =>
               \/ x = t /\ call'[x][m].on = shared[t]
               \/ call[x][m].stage = "waiting" /\ call'[x][m].on = call[x][m].on
        BY <2>3, <4>2
      <4>5. tab'[x] = tab[x] /\ refresh' = refresh /\ shared' = shared
        BY <2>1
      <4>6. \A m \in Slots : call'[x][m].stage = "waiting" =>
               call'[x][m].on \in Slots /\ refresh[x][call'[x][m].on].stage # "none"
        BY <2>2, <4>1, <4>3, <4>4 DEF WaitsFit
      <4>. QED
        BY <1>1, <4>1, <4>5, <4>6 DEF WaitsFit
    <3>. QED
      BY <1>1, <3>1 DEF WaitInv
  <2>6. RefreshInv'
    <3>1. /\ ValuesFit /\ RefreshInv /\ app' = app /\ UNCHANGED <<rows, refresh, shared>>
          /\ cookie' \in {cookie, None}
      BY <1>1, <2>1 DEF IInv
    <3>. QED
      BY <1>2, <3>1, RefreshRests
  <2>7. \A m \in Slots : ds[m].stage # "idle" /\ ds[m].kind = "enter" =>
           call[t][m].stage # "idle" /\ call[t][m].kind = "enter"
    BY <1>1, <2>3
  <2>. QED
    BY <1>1, <1>2, <1>3, <2>1, <2>3, <2>4, <2>5, <2>6, <2>7, OneTab, PutKeepsRest
<1>5. CASE shared[t] = "none" /\ store.token = None
  <2>1. /\ Put(t, FailedTab(tab[t], call[t][n]), FailedCalls(call[t], n))
        /\ UNCHANGED <<app, store, cookie, byes, rows, refresh, shared>>
    BY <1>1, <1>5 DEF Refused
  <2>2. /\ tab[t] \in TabState /\ call[t] \in [Slots -> CallState] /\ TabFits(tab[t], call[t])
        /\ Follows(call[t], call[t]) /\ call[t][n].stage # "idle"
    BY <1>1, OneTab
  <2>. QED
    BY <1>1, <1>2, <2>1, <2>2, FailingKeepsIt
<1>6. CASE shared[t] = "none" /\ store.token # None
  <2>. DEFINE ds == Waits(call[t], n, n)
              r == [stage |-> "sent", cookie |-> cookie, token |-> store.token]
  <2>1. /\ call' = [call EXCEPT ![t][n].stage = "waiting", ![t][n].on = n] /\ tab' = tab
        /\ refresh' = [refresh EXCEPT ![t][n] = r] /\ shared' = [shared EXCEPT ![t] = n]
    BY <1>6 DEF Refused, Claimed
  <2>2. /\ ds \in [Slots -> CallState] /\ TabFits(tab[t], ds)
        /\ ds[n].stage = "waiting" /\ ds[n].on = n
        /\ \A m \in Slots : m # n => ds[m] = call[t][m]
        /\ \A m \in Slots : ds[m].kind = call[t][m].kind
    BY <1>1, OneTab, WaitingFits
  <2>3. Put(t, tab[t], ds)
    BY <1>3, <2>1 DEF Put, Waits
  <2>. HIDE DEF ds
  <2>4. r \in RefreshState /\ r.stage = "sent" /\ r.cookie = cookie /\ n \in Starters
    BY OneTab DEF RefreshState, Starters
  <2>. HIDE DEF r
  <2>5. /\ refresh' \in [Tabs -> [Starters -> RefreshState]]
        /\ shared' \in [Tabs -> Slots \cup {"none"}]
        /\ \A x \in Tabs, o \in Starters :
              refresh'[x][o] = IF x = t /\ o = n THEN r ELSE refresh[x][o]
        /\ \A x \in Tabs : shared'[x] = IF x = t THEN n ELSE shared[x]
    BY <1>3, <2>1, <2>4
  <2>6. WaitInv'
    <3>1. ASSUME NEW x \in Tabs
          PROVE  WaitsFit(x)'
      <4>1. WaitsFit(x)
        BY OneTab
      <4>2. call'[x] = IF x = t THEN ds ELSE call[x]
        BY <1>3, <2>3 DEF Put
      <4>3. \A o \in Starters : refresh[x][o].stage # "none" => refresh'[x][o].stage # "none"
        BY <2>4, <2>5
      <4>4. \A m \in Slots : call'[x][m].stage = "waiting" =>
               \/ x = t /\ m = n /\ call'[x][m].on = n
               \/ call[x][m].stage = "waiting" /\ call'[x][m].on = call[x][m].on
        BY <2>2, <4>2
      <4>5. refresh'[t][n].stage # "none"
        BY <2>4, <2>5
      <4>6. "boot" \in Starters /\ Slots \subseteq Starters
        BY DEF Starters
      <4>7. \A m \in Slots : call'[x][m].stage = "waiting" =>
               call'[x][m].on \in Slots /\ refresh'[x][call'[x][m].on].stage # "none"
        <5>. SUFFICES ASSUME NEW m \in Slots, call'[x][m].stage = "waiting"
                      PROVE  call'[x][m].on \in Slots /\ refresh'[x][call'[x][m].on].stage # "none"
          OBVIOUS
        <5>1. CASE x = t /\ m = n /\ call'[x][m].on = n
          BY <4>5, <5>1, OneTab
        <5>2. CASE call[x][m].stage = "waiting" /\ call'[x][m].on = call[x][m].on
          <6>1. call[x][m].on \in Slots /\ refresh[x][call[x][m].on].stage # "none"
            BY <4>1, <5>2 DEF WaitsFit
          <6>. QED
            BY <4>3, <4>6, <5>2, <6>1
        <5>. QED
          BY <4>4, <5>1, <5>2
      <4>8. shared'[x] # "none" => refresh'[x][shared'[x]].stage # "none"
        <5>1. CASE x = t
          BY <2>5, <4>5, <5>1
        <5>2. CASE x # t /\ shared[x] # "none"
          <6>1. shared'[x] = shared[x] /\ shared[x] \in Starters /\ refresh[x][shared[x]].stage # "none"
            BY <2>5, <4>1, <4>6, <5>2, OneTab DEF WaitsFit, ValuesFit
          <6>. QED
            BY <4>3, <6>1
        <5>. QED
          BY <2>5, <5>1, <5>2
      <4>9. tab'[x].booting => refresh'[x]["boot"].stage # "none"
        <5>1. tab'[x] = tab[x]
          BY <2>1
        <5>. QED
          BY <4>1, <4>3, <4>6, <5>1 DEF WaitsFit
      <4>. QED
        BY <1>1, <4>7, <4>8, <4>9 DEF WaitsFit
    <3>. QED
      BY <1>1, <3>1 DEF WaitInv
  <2>7. RefreshInv'
    <3>1. RotatedFits'
      BY <1>1, <2>4, <2>5 DEF RotatedFits, RefreshInv, IInv
    <3>2. ASSUME app = "console", ~strained'
          PROVE  OneRefresh'
      <4>1. t = 1 /\ OneRefresh /\ refresh[1]["boot"].stage = "none"
        <5>1. ~strained
          BY <1>2, <3>2
        <5>2. t = 1 /\ RefreshInv
          BY <3>2, OneTab DEF IInv
        <5>. QED
          BY <1>2, <3>2, <5>1, <5>2 DEF RefreshInv
      <4>2. \A o \in Starters : refresh[1][o].stage = "none"
        BY <1>6, <4>1, OneTab, ClientsHave DEF OneRefresh
      <4>3. cookie # None => Current(cookie)
        BY <4>1, <4>2 DEF OneRefresh
      <4>4. \A o \in Starters : refresh'[1][o] = IF o = n THEN r ELSE refresh[1][o]
        BY <2>5, <4>1
      <4>5. \A o \in Starters : RefreshFits(refresh[1][o])'
        BY <1>1, <2>4, <4>2, <4>3, <4>4 DEF RefreshFits, Current
      <4>6. (cookie # None => Current(cookie))'
        BY <1>1, <4>3 DEF Current
      <4>7. \A o \in Slots : refresh'[1][o].stage # "none" => shared'[1] = o
        BY <2>5, <4>1, <4>2, <4>4 DEF Starters
      <4>8. refresh'[1]["boot"].stage = "none"
        BY <4>2, <4>4, OneTab, ClientsHave
      <4>. QED
        BY <1>1, <4>5, <4>6, <4>7, <4>8 DEF OneRefresh
    <3>. QED
      BY <1>1, <3>1, <3>2 DEF RefreshInv
  <2>8. \A m \in Slots : ds[m].stage # "idle" /\ ds[m].kind = "enter" =>
           call[t][m].stage # "idle" /\ call[t][m].kind = "enter"
    BY <1>1, <2>2
  <2>9. /\ tab[t] \in TabState /\ byes' \subseteq Creds /\ store' \in [token : Creds, perms : Who] /\ cookie' \in Creds
        /\ app = "console" => tab[t].seen \in {None, store'.token}
    BY <1>1, OneTab
  <2>. QED
    BY <1>1, <1>2, <2>2, <2>3, <2>5, <2>6, <2>7, <2>8, <2>9, PutKeepsRest
<1>. QED
  BY <1>4, <1>5, <1>6

\* A row is altered in place: its user and every credential stay.
LEMMA RowAlters ==
    ASSUME RowsFit, NEW s \in DOMAIN rows,
           NEW row \in [user : Users, gen : Nat, open : BOOLEAN], row.user = rows[s].user,
           rows' = [rows EXCEPT ![s] = row], UNCHANGED <<app, grants>>
    PROVE  RowsFit' /\ Grows /\ Len(rows') = Len(rows) /\ Len(grants') = Len(grants)
<1>. DEFINE Row == [user : Users, gen : Nat, open : BOOLEAN]
<1>1. rows \in Seq(Row) /\ s \in 1..Len(rows) /\ row \in Row
  BY CredsName DEF RowsFit
<1>. HIDE DEF Row
<1>2. rows' \in Seq(Row) /\ Len(rows') = Len(rows)
  <2>1. [rows EXCEPT ![s] = row] \in Seq(Row)
    BY <1>1, ExceptSeq
  <2>2. Len([rows EXCEPT ![s] = row]) = Len(rows)
    BY <1>1, ExceptSeq
  <2>. QED
    BY <2>1, <2>2
<1>3. RowsFit'
  BY <1>2 DEF RowsFit, Row
<1>4. Grows
  BY CredsName DEF Grows
<1>. QED
  BY <1>2, <1>3, <1>4

\* Nothing but the rows, the cookie and the refreshes changes.
LEMMA TabsRestKeepsIt ==
    ASSUME IInv, UNCHANGED <<app, store, tab, call, shared, strained>>, cookie' \in Creds, byes' \subseteq Creds,
           RowsFit', Grows, Len(rows') = Len(rows), Len(grants') = Len(grants),
           refresh' \in [Tabs -> [Starters -> RefreshState]],
           \A x \in Tabs, o \in Starters :
              refresh[x][o].stage # "none" => refresh'[x][o].stage # "none",
           RefreshInv'
    PROVE  IInv'
<1>1. 1 \in Tabs /\ Tabs' = Tabs /\ Slots' = Slots /\ Starters' = Starters
  BY ClientsHave DEF IInv, Tabs, Slots, Starters
<1>2. /\ Put(1, tab[1], call[1]) /\ shared \in [Tabs -> Slots \cup {"none"}]
      /\ strained' \in BOOLEAN
  BY <1>1 DEF Put, IInv, ValuesFit
<1>3. WaitInv'
  <2>1. ASSUME NEW x \in Tabs
        PROVE  WaitsFit(x)'
    <3>1. WaitsFit(x) /\ shared[x] \in Slots \cup {"none"}
      BY <1>2, OneTab
    <3>2. "boot" \in Starters /\ Slots \subseteq Starters
      BY DEF Starters
    <3>. QED
      BY <1>1, <3>1, <3>2 DEF WaitsFit
  <2>. QED
    BY <1>1, <2>1 DEF WaitInv
<1>4. /\ tab[1] \in TabState /\ call[1] \in [Slots -> CallState] /\ TabFits(tab[1], call[1])
      /\ store' \in [token : Creds, perms : Who]
      /\ app = "console" => tab[1].seen \in {None, store'.token}
  BY <1>1, OneTab
<1>5. \A n \in Slots : call[1][n].stage # "idle" /\ call[1][n].kind = "enter" =>
         call[1][n].stage # "idle" /\ call[1][n].kind = "enter"
  OBVIOUS
<1>6. shared' \in [Tabs -> Slots \cup {"none"}] /\ app' = app
  BY <1>2
<1>. QED
  BY <1>1, <1>2, <1>3, <1>4, <1>5, <1>6, PutKeepsRest

\* The server takes the cookie of a refresh, or refuses it.
LEMMA RotatingKeepsIt ==
    ASSUME IInv, NEW t \in Tabs, NEW o \in Starters, ServerRotates(t, o)
    PROVE  IInv'
<1>. DEFINE r == refresh[t][o]
            s == r.cookie.sid
            current == r.cookie # None /\ rows[s].open /\ rows[s].gen = r.cookie.gen
            new == refresh'[t][o]
            Row == [user : Users, gen : Nat, open : BOOLEAN]
<1>1. /\ refresh \in [Tabs -> [Starters -> RefreshState]] /\ r \in RefreshState
      /\ r.stage = "sent" /\ UNCHANGED <<app, store, cookie, byes, grants, tab, call, shared, strained>>
      /\ Tabs' = Tabs /\ Slots' = Slots /\ Starters' = Starters
  <2>1. r.stage = "sent" /\ UNCHANGED <<app, store, cookie, byes, grants, tab, call, shared, strained>>
    BY DEF ServerRotates
  <2>. QED
    BY <2>1, OneTab, SMTT(30) DEF ValuesFit, Tabs, Slots, Starters
<1>2. r.cookie \in Creds /\ r.token \in Creds
  BY <1>1 DEF RefreshState
<1>3. r.cookie # None => /\ s \in DOMAIN rows /\ r.cookie.gen \in Nat /\ rows[s] \in Row
                         /\ r.cookie \in [sid : DOMAIN rows, gen : Nat]
  BY <1>2, OneTab, CredsName DEF Creds
\* What the step makes of the row and of the refresh.
<1>4. /\ new \in RefreshState /\ new.token = r.token
      /\ new.stage \in {"rotated", "refused"}
      /\ \A x \in Tabs, p \in Starters : ~(x = t /\ p = o) => refresh'[x][p] = refresh[x][p]
      /\ refresh' \in [Tabs -> [Starters -> RefreshState]]
      /\ RowsFit' /\ Grows /\ Len(rows') = Len(rows) /\ Len(grants') = Len(grants)
      /\ new.stage = "rotated" => /\ new.cookie # None
                                  /\ rows'[new.cookie.sid].gen = new.cookie.gen
      /\ new.stage = "refused" /\ new.cookie # None =>
            \/ UserOf(r.token) # rows'[new.cookie.sid].user
            \/ ~rows'[new.cookie.sid].open
            \/ ~current /\ new.cookie = r.cookie /\ rows' = rows
  <2>1. CASE current
    <3>. DEFINE stage == IF UserOf(r.token) = rows[s].user THEN "rotated" ELSE "refused"
                row == [rows[s] EXCEPT !.gen = @ + 1]
                spent == [r.cookie EXCEPT !.gen = @ + 1]
                after == [r EXCEPT !.stage = stage, !.cookie = spent]
    <3>1. /\ rows' = [rows EXCEPT ![s].gen = @ + 1]
          /\ refresh' = [refresh EXCEPT ![t][o].stage = stage, ![t][o].cookie.gen = @ + 1]
      BY <2>1 DEF ServerRotates
    <3>2. rows' = [rows EXCEPT ![s] = row] /\ refresh' = [refresh EXCEPT ![t][o] = after]
      <4>1. rows' = [rows EXCEPT ![s] = row]
        BY <3>1
      <4>. DEFINE mid == [refresh EXCEPT ![t][o] = [r EXCEPT !.stage = stage]]
      <4>2. refresh' = [mid EXCEPT ![t][o].cookie.gen = @ + 1]
        BY <3>1
      <4>3. mid[t][o] = [r EXCEPT !.stage = stage] /\ mid[t][o].cookie = r.cookie
        BY <1>1 DEF RefreshState
      <4>4. refresh' = [mid EXCEPT ![t][o] = [mid[t][o] EXCEPT !.cookie = spent]]
        BY <4>2, <4>3
      <4>5. [mid[t][o] EXCEPT !.cookie = spent] = after
        BY <4>3
      <4>6. refresh' = [mid EXCEPT ![t][o] = after]
        BY <4>4, <4>5
      <4>. HIDE DEF after
      <4>7. [mid EXCEPT ![t][o] = after] = [refresh EXCEPT ![t][o] = after]
        BY <1>1
      <4>. QED
        BY <4>1, <4>6, <4>7
    <3>3. row \in Row /\ row.user = rows[s].user /\ row.gen = r.cookie.gen + 1 /\ s \in DOMAIN rows
      BY <1>3, <2>1, SMTT(30)
    <3>4. spent \in [sid : DOMAIN rows, gen : Nat] /\ spent.sid = s /\ spent.gen = r.cookie.gen + 1
      BY <1>3, <2>1
    <3>. HIDE DEF row, spent, stage
    <3>5. RowsFit' /\ Grows /\ Len(rows') = Len(rows) /\ Len(grants') = Len(grants)
      BY <1>1, <3>2, <3>3, OneTab, RowAlters DEF Row
    <3>6. spent \in Creds /\ spent # None
      BY <3>3, <3>4, OneTab, CredsName DEF Creds, None
    <3>7. /\ after \in RefreshState /\ after.token = r.token /\ after.stage = stage
          /\ after.cookie = spent /\ stage \in {"rotated", "refused"}
      BY <1>1, <3>6 DEF RefreshState, stage
    <3>. HIDE DEF after
    <3>8. /\ new = after /\ refresh' \in [Tabs -> [Starters -> RefreshState]]
          /\ \A x \in Tabs, p \in Starters : ~(x = t /\ p = o) => refresh'[x][p] = refresh[x][p]
      BY <1>1, <3>2, <3>7
    <3>9. rows'[s] = row
      BY <3>2, <3>3
    <3>. QED
      BY <3>3, <3>4, <3>5, <3>6, <3>7, <3>8, <3>9 DEF stage
  <2>2. CASE ~current
    <3>. DEFINE after == [r EXCEPT !.stage = "refused"]
                row == [rows[s] EXCEPT !.open = FALSE]
    <3>1. /\ refresh' = [refresh EXCEPT ![t][o].stage = "refused"]
          /\ rows' = rows \/ (r.cookie # None /\ rows' = [rows EXCEPT ![s].open = FALSE])
      BY <2>2 DEF ServerRotates
    <3>2. refresh' = [refresh EXCEPT ![t][o] = after]
      BY <1>1, <3>1
    <3>3. after \in RefreshState /\ after.token = r.token /\ after.stage = "refused"
          /\ after.cookie = r.cookie
      BY <1>1 DEF RefreshState
    <3>. HIDE DEF after
    <3>4. /\ new = after /\ refresh' \in [Tabs -> [Starters -> RefreshState]]
          /\ \A x \in Tabs, p \in Starters : ~(x = t /\ p = o) => refresh'[x][p] = refresh[x][p]
      BY <1>1, <3>2, <3>3
    <3>5. CASE rows' = rows
      BY <1>1, <2>2, <3>3, <3>4, <3>5, OneTab, NothingGrows
    <3>6. CASE r.cookie # None /\ rows' = [rows EXCEPT ![s].open = FALSE]
      <4>1. row \in Row /\ row.user = rows[s].user /\ ~row.open /\ s \in DOMAIN rows
        BY <1>3, <3>6
      <4>2. rows' = [rows EXCEPT ![s] = row]
        BY <3>6
      <4>. HIDE DEF row
      <4>3. RowsFit' /\ Grows /\ Len(rows') = Len(rows) /\ Len(grants') = Len(grants)
        BY <1>1, <4>1, <4>2, OneTab, RowAlters DEF Row
      <4>4. ~rows'[s].open
        BY <4>1, <4>2
      <4>. QED
        BY <3>3, <3>4, <4>3, <4>4
    <3>. QED
      BY <3>1, <3>5, <3>6
  <2>. QED
    BY <2>1, <2>2
<1>. HIDE DEF new, current
<1>5. RefreshInv'
  <2>1. RotatedFits'
    BY <1>1, <1>4 DEF RotatedFits, RefreshInv, IInv, new
  <2>2. ASSUME app = "console", ~strained
        PROVE  OneRefresh'
    <3>1. t = 1 /\ OneRefresh
      BY <2>2, OneTab DEF RefreshInv, IInv
    <3>2. \A p \in Starters : p # o => refresh[1][p].stage = "none"
      BY <1>1, <3>1, OneTab, ClientsHave DEF OneRefresh
    <3>3. \A p \in Starters : refresh'[1][p] = IF p = o THEN new ELSE refresh[1][p]
      BY <1>4, <3>1 DEF new
    <3>4. RefreshFits(r)
      BY <3>1 DEF OneRefresh
    <3>5. (IF r.token = None THEN NoUser ELSE rows'[r.token.sid].user) = UserOf(r.token)
      BY <1>2, <1>4, OneTab, TypesGrow
    <3>6. RefreshFits(refresh[1][o])'
      <4>1. refresh'[1][o] = new
        BY <3>3
      <4>2. current \/ (r.cookie # None => ~rows[r.cookie.sid].open)
        BY <1>1, <3>4 DEF RefreshFits, Current, current
      <4>3. new.stage = "refused" /\ new.cookie # None =>
               UserOf(r.token) # rows'[new.cookie.sid].user \/ ~rows'[new.cookie.sid].open
        BY <1>4, <4>2
      <4>. QED
        BY <1>4, <3>5, <4>1, <4>3 DEF RefreshFits, Current, UserOf
    <3>7. \A p \in Starters : p # o => RefreshFits(refresh[1][p])'
      BY <3>2, <3>3, <1>1 DEF RefreshFits, RotatedFits
    <3>8. \A p \in Slots : refresh'[1][p].stage # "none" => shared'[1] = p
      BY <1>1, <3>1, <3>2, <3>3 DEF OneRefresh, Starters
    <3>9. refresh'[1]["boot"].stage # "none" => \A p \in Slots : refresh'[1][p].stage = "none"
      BY <1>1, <3>1, <3>2, <3>3, OneTab, ClientsHave DEF OneRefresh
    <3>10. \E p \in Starters : refresh'[1][p].stage \in {"rotated", "refused"}
      BY <1>4, <3>3
    <3>. QED
      BY <1>1, <3>6, <3>7, <3>8, <3>9, <3>10 DEF OneRefresh
  <2>. QED
    BY <1>1, <2>1, <2>2 DEF RefreshInv
<1>6. /\ \A x \in Tabs, p \in Starters : refresh[x][p].stage # "none" => refresh'[x][p].stage # "none"
      /\ cookie' \in Creds /\ byes' \subseteq Creds
  BY <1>1, <1>4, OneTab DEF new
<1>. QED
  BY <1>1, <1>4, <1>5, <1>6, TabsRestKeepsIt

\* A refresh is over, whatever came of it.
LEMMA OverKeepsRefreshes ==
    ASSUME IInv, NEW t \in Tabs, NEW o \in Starters, UNCHANGED <<app, rows>>,
           refresh' = Over(t, o), shared' = Released(t, o),
           app = "console" /\ ~strained' =>
              /\ ~strained
              /\ \/ cookie' = None
                 \/ refresh[t][o].stage = "rotated" /\ cookie' = refresh[t][o].cookie
    PROVE  /\ RefreshInv'
           /\ refresh' \in [Tabs -> [Starters -> RefreshState]]
           /\ shared' \in [Tabs -> Slots \cup {"none"}]
           /\ \A x \in Tabs, p \in Starters :
                 refresh'[x][p] = IF x = t /\ p = o THEN NoRefresh ELSE refresh[x][p]
           /\ \A x \in Tabs : shared'[x] \in {shared[x], "none"} /\ shared'[t] # o
<1>1. /\ refresh \in [Tabs -> [Starters -> RefreshState]]
      /\ shared \in [Tabs -> Slots \cup {"none"}] /\ NoRefresh \in RefreshState
      /\ Tabs' = Tabs /\ Slots' = Slots /\ Starters' = Starters
      /\ "none" \notin Starters /\ Starters = Slots \cup {"boot"} /\ "boot" \notin Slots
  BY OneTab, IdleFits, ClientsHave DEF ValuesFit, Tabs, Slots, Starters
<1>2. /\ refresh' \in [Tabs -> [Starters -> RefreshState]]
      /\ \A x \in Tabs, p \in Starters :
            refresh'[x][p] = IF x = t /\ p = o THEN NoRefresh ELSE refresh[x][p]
  BY <1>1 DEF Over
<1>3. /\ shared' \in [Tabs -> Slots \cup {"none"}]
      /\ \A x \in Tabs : shared'[x] = IF x = t /\ shared[t] = o THEN "none" ELSE shared[x]
  BY <1>1 DEF Released
<1>4. NoRefresh.stage = "none" /\ NoRefresh.cookie = None
  BY DEF NoRefresh
<1>5. RotatedFits'
  BY <1>1, <1>2, <1>4 DEF RotatedFits, RefreshInv, IInv
<1>6. ASSUME app = "console", ~strained'
      PROVE  OneRefresh'
  <2>1. t = 1 /\ OneRefresh
    BY <1>6, OneTab DEF RefreshInv, IInv
  <2>2. \A p \in Starters : refresh'[1][p] = IF p = o THEN NoRefresh ELSE refresh[1][p]
    BY <1>2, <2>1
  <2>3. \A p \in Slots : refresh'[1][p].stage # "none" => shared'[1] = p
    BY <1>1, <1>3, <1>4, <2>1, <2>2 DEF OneRefresh
  <2>4. refresh'[1]["boot"].stage # "none" => \A p \in Slots : refresh'[1][p].stage = "none"
    BY <1>1, <1>4, <2>1, <2>2 DEF OneRefresh
  <2>5. \A p \in Starters : RefreshFits(refresh[1][p])'
    <3>1. ASSUME NEW p \in Starters
          PROVE  RefreshFits(refresh[1][p])'
      <4>1. CASE p = o
        BY <1>4, <2>2, <4>1 DEF RefreshFits
      <4>2. CASE p # o
        <5>1. RefreshFits(refresh[1][p]) /\ refresh'[1][p] = refresh[1][p]
          BY <2>1, <2>2, <4>2 DEF OneRefresh
        <5>. QED
          BY <5>1 DEF RefreshFits, Current, UserOf
      <4>. QED
        BY <4>1, <4>2
    <3>. QED
      BY <3>1
  <2>6. (cookie # None => Current(cookie))'
    <3>1. CASE cookie' = None
      BY <3>1 DEF None
    <3>2. CASE refresh[t][o].stage = "rotated" /\ cookie' = refresh[t][o].cookie
      <4>1. RefreshFits(refresh[1][o])
        BY <2>1 DEF OneRefresh
      <4>. QED
        BY <2>1, <3>2, <4>1 DEF RefreshFits, Current
    <3>. QED
      BY <1>6, <3>1, <3>2
  <2>. QED
    BY <1>1, <2>3, <2>4, <2>5, <2>6 DEF OneRefresh
<1>7. ~strained' /\ app = "console" => OneRefresh'
  BY <1>6
<1>. QED
  BY <1>1, <1>2, <1>3, <1>5, <1>7 DEF RefreshInv

\* ... and none of the tab's calls waits for it any more.
LEMMA OverKeepsIt ==
    ASSUME IInv, NEW t \in Tabs, NEW o \in Starters,
           NEW tb \in TabState, NEW cs \in [Slots -> CallState], Put(t, tb, cs), TabFits(tb, cs),
           tb.login = tab[t].login, tb.booting => tab[t].booting /\ o # "boot",
           Follows(cs, call[t]), \A n \in Slots : cs[n].stage = "waiting" => cs[n].on # o,
           refresh' = Over(t, o), shared' = Released(t, o), RefreshInv',
           refresh' \in [Tabs -> [Starters -> RefreshState]],
           shared' \in [Tabs -> Slots \cup {"none"}],
           \A x \in Tabs, p \in Starters :
                 refresh'[x][p] = IF x = t /\ p = o THEN NoRefresh ELSE refresh[x][p],
           \A x \in Tabs : shared'[x] \in {shared[x], "none"} /\ shared'[t] # o,
           store' \in [token : Creds, perms : Who], cookie' \in Creds, strained' \in BOOLEAN,
           app = "console" => tb.seen \in {None, store'.token},
           UNCHANGED <<app, rows, grants, byes>>
    PROVE  IInv'
<1>1. /\ Tabs' = Tabs /\ Slots' = Slots /\ Starters' = Starters
      /\ tab \in [Tabs -> TabState] /\ call \in [Tabs -> [Slots -> CallState]]
      /\ shared \in [Tabs -> Slots \cup {"none"}]
      /\ "boot" \in Starters /\ Slots \subseteq Starters
  BY OneTab DEF ValuesFit, Tabs, Slots, Starters
<1>2. /\ tab'[t] = tb /\ call'[t] = cs
      /\ \A x \in Tabs : x # t => tab'[x] = tab[x] /\ call'[x] = call[x]
  BY <1>1 DEF Put
<1>3. WaitInv'
  <2>1. ASSUME NEW x \in Tabs
        PROVE  WaitsFit(x)'
    <3>1. WaitsFit(x)
      BY OneTab
    <3>2. CASE x # t
      <4>1. \A p \in Starters : refresh'[x][p] = refresh[x][p]
        BY <3>2
      <4>2. tab'[x] = tab[x] /\ call'[x] = call[x] /\ shared'[x] \in {shared[x], "none"}
        BY <1>2, <3>2
      <4>. QED
        BY <1>1, <3>1, <4>1, <4>2 DEF WaitsFit
    <3>3. CASE x = t
      <4>1. \A p \in Starters : p # o => refresh'[t][p] = refresh[t][p]
        OBVIOUS
      <4>2. \A n \in Slots : cs[n].stage = "waiting" =>
               cs[n].on \in Slots /\ cs[n].on # o /\ refresh[t][cs[n].on].stage # "none"
        BY <3>1, <3>3 DEF WaitsFit, Follows
      <4>3. shared'[t] # "none" => shared'[t] = shared[t] /\ shared[t] # o /\ shared[t] \in Starters
        BY <1>1
      <4>4. shared'[t] # "none" => refresh'[t][shared'[t]].stage # "none"
        BY <3>1, <3>3, <4>1, <4>3 DEF WaitsFit
      <4>5. tb.booting => refresh'[t]["boot"].stage # "none"
        BY <1>1, <3>1, <3>3, <4>1 DEF WaitsFit
      <4>6. \A n \in Slots : cs[n].stage = "waiting" => refresh'[t][cs[n].on].stage # "none"
        BY <1>1, <4>1, <4>2
      <4>7. tab'[x] = tb /\ call'[x] = cs
        BY <1>2, <3>3
      <4>. QED
        BY <1>1, <3>3, <4>2, <4>4, <4>5, <4>6, <4>7 DEF WaitsFit
    <3>. QED
      BY <3>2, <3>3
  <2>. QED
    BY <1>1, <2>1 DEF WaitInv
<1>4. RowsFit' /\ Grows /\ Len(rows') = Len(rows) /\ Len(grants') = Len(grants)
  BY OneTab, NothingGrows
<1>5. \A n \in Slots : cs[n].stage # "idle" /\ cs[n].kind = "enter" =>
         call[t][n].stage # "idle" /\ call[t][n].kind = "enter"
  BY DEF Follows
<1>6. app' = app /\ byes' \subseteq Creds
  BY OneTab
<1>. QED
  BY <1>3, <1>4, <1>5, <1>6, PutKeepsRest

\* A tab that has booted.
LEMMA BootedFits ==
    ASSUME NEW tb \in TabState, NEW cs, TabFits(tb, cs), NEW b \in BOOLEAN
    PROVE  LET nb == [tb EXCEPT !.booting = b]
           IN  /\ nb \in TabState /\ nb.seen = tb.seen /\ nb.login = tb.login
               /\ nb.booting = b /\ TabFits(nb, cs)
<1>. DEFINE nb == [tb EXCEPT !.booting = b]
<1>1. /\ nb \in TabState /\ nb.seen = tb.seen /\ nb.login = tb.login /\ nb.booting = b
      /\ nb.acting = tb.acting /\ nb.cache = tb.cache /\ nb.behind = tb.behind
      /\ nb.hydrated = tb.hydrated
  BY DEF TabState
<1>. HIDE DEF nb
<1>2. TabFits(nb, cs)
  BY <1>1 DEF TabFits
<1>. QED
  BY <1>1, <1>2 DEF nb

\* The calls that waited are over: permissions among them are given up for.
LEMMA WaitersFit ==
    ASSUME ValuesFit, NEW tb, NEW cs \in [Slots -> CallState], TabFits(tb, cs), NEW t, NEW o,
           "perms" \in Waiting(t, o) /\ cs["perms"].kept => tb.hydrated \/ tb.seen = None
    PROVE  /\ FailedWaiters(t, o, cs) \in [Slots -> CallState]
           /\ Follows(FailedWaiters(t, o, cs), cs) /\ TabFits(tb, FailedWaiters(t, o, cs))
           /\ \A n \in Slots : FailedWaiters(t, o, cs)[n].stage = "waiting" => n \notin Waiting(t, o)
<1>. DEFINE ds == FailedWaiters(t, o, cs)
            S == Waiting(t, o)
<1>1. Idle \in CallState /\ Idle.stage = "idle" /\ "perms" \in Slots
  BY IdleFits, ClientsHave
<1>. HIDE DEF S
<1>2. ds \in [Slots -> CallState] /\ \A n \in Slots : ds[n] = IF n \in S THEN Idle ELSE cs[n]
  BY <1>1 DEF FailedWaiters, S
<1>. HIDE DEF ds
<1>3. Follows(ds, cs) /\ \A n \in Slots : ds[n].stage = "waiting" => n \notin S
  BY <1>1, <1>2 DEF Follows
<1>4. \A n \in Slots : CallFits(n, ds[n], tb.acting)
  BY <1>1, <1>2 DEF TabFits, CallFits
<1>5. TabFits(tb, ds)
  BY <1>1, <1>2, <1>4 DEF TabFits, S
<1>. QED
  BY <1>2, <1>3, <1>5 DEF ds, S

\* The refresh is refused: the session ends on this device.
LEMMA RefreshRefusedKeepsIt ==
    ASSUME IInv, NEW t \in Tabs, NEW o \in Starters, RefreshRefused(t, o)
    PROVE  IInv'
<1>. DEFINE tb == EndedTab(tab[t])
            cs == EndedCalls(call[t])
            b == tab[t].booting /\ o # "boot"
            nb == [tb EXCEPT !.booting = b]
            ds == FailedWaiters(t, o, cs)
<1>1. /\ refresh' = Over(t, o) /\ shared' = Released(t, o) /\ cookie' = None /\ store' = EmptyStore
      /\ UNCHANGED <<app, rows, grants, byes>> /\ strained' = strained
  BY DEF RefreshRefused, server
<1>2. /\ tb \in TabState /\ tb.seen = None /\ tb.login = tab[t].login
      /\ tb.booting = tab[t].booting
      /\ cs \in [Slots -> CallState] /\ Follows(cs, call[t]) /\ TabFits(tb, cs)
  BY OneTab, EndedFits
<1>3. Put(t, nb, ds)
  BY <1>2 DEF RefreshRefused
<1>. HIDE DEF tb, cs
<1>4. ds \in [Slots -> CallState] /\ Follows(ds, cs) /\ TabFits(tb, ds)
      /\ \A n \in Slots : ds[n].stage = "waiting" => n \notin Waiting(t, o)
  BY <1>2, OneTab, WaitersFit
<1>. HIDE DEF ds
<1>5. /\ nb \in TabState /\ nb.seen = None /\ nb.login = tab[t].login
      /\ nb.booting = b /\ TabFits(nb, ds)
  <2>1. b \in BOOLEAN
    OBVIOUS
  <2>. HIDE DEF b
  <2>. QED
    BY <1>2, <1>4, <2>1, BootedFits
<1>. HIDE DEF nb
<1>6. Follows(ds, call[t]) /\ \A n \in Slots : ds[n].stage = "waiting" => ds[n].on # o
  BY <1>2, <1>4 DEF Follows, Waiting
<1>7. /\ RefreshInv' /\ refresh' \in [Tabs -> [Starters -> RefreshState]]
      /\ shared' \in [Tabs -> Slots \cup {"none"}]
      /\ \A x \in Tabs, p \in Starters :
            refresh'[x][p] = IF x = t /\ p = o THEN NoRefresh ELSE refresh[x][p]
      /\ \A x \in Tabs : shared'[x] \in {shared[x], "none"} /\ shared'[t] # o
  BY <1>1, OverKeepsRefreshes
<1>8. /\ store' \in [token : Creds, perms : Who] /\ cookie' \in Creds /\ strained' \in BOOLEAN
      /\ nb.booting => tab[t].booting /\ o # "boot"
  BY <1>1, <1>5, OneTab, CredsName
<1>. QED
  BY <1>1, <1>3, <1>4, <1>5, <1>6, <1>7, <1>8, OverKeepsIt, SMTT(30)

\* The refresh times out: its callers fail, and only at boot the session is given up.
LEMMA RefreshTimesOutKeepsIt ==
    ASSUME IInv, NEW t \in Tabs, NEW o \in Starters, RefreshTimesOut(t, o)
    PROVE  IInv'
<1>1. /\ refresh' = Over(t, o) /\ shared' = Released(t, o) /\ strained' = (app = "console")
      /\ UNCHANGED <<app, cookie, rows, grants, byes>>
  BY DEF RefreshTimesOut, server
<1>2. app = "console" /\ ~strained' =>
         /\ ~strained
         /\ \/ cookie' = None
            \/ refresh[t][o].stage = "rotated" /\ cookie' = refresh[t][o].cookie
  BY <1>1
<1>3. /\ RefreshInv' /\ refresh' \in [Tabs -> [Starters -> RefreshState]]
      /\ shared' \in [Tabs -> Slots \cup {"none"}]
      /\ \A x \in Tabs, p \in Starters :
            refresh'[x][p] = IF x = t /\ p = o THEN NoRefresh ELSE refresh[x][p]
      /\ \A x \in Tabs : shared'[x] \in {shared[x], "none"} /\ shared'[t] # o
  BY <1>1, <1>2, OverKeepsRefreshes
<1>4. strained' \in BOOLEAN /\ cookie' \in Creds
  BY <1>1, OneTab
<1>5. CASE o = "boot"
  <2>. DEFINE tb == EndedTab(tab[t])
              ds == EndedCalls(call[t])
              nb == [tb EXCEPT !.booting = FALSE]
  <2>1. Put(t, nb, ds) /\ store' = EmptyStore
    BY <1>5 DEF RefreshTimesOut
  <2>2. /\ tb \in TabState /\ tb.seen = None /\ tb.login = tab[t].login
        /\ ds \in [Slots -> CallState] /\ Follows(ds, call[t]) /\ TabFits(tb, ds)
    BY OneTab, EndedFits
  <2>. HIDE DEF tb, ds
  <2>3. /\ nb \in TabState /\ nb.seen = None /\ nb.login = tab[t].login
        /\ ~nb.booting /\ TabFits(nb, ds)
    BY <2>2, BootedFits
  <2>. HIDE DEF nb
  <2>4. \A n \in Slots : ds[n].stage = "waiting" => ds[n].on # o
    BY <1>5, <2>2, OneTab, ClientsHave DEF Follows, WaitsFit
  <2>5. store' \in [token : Creds, perms : Who]
    BY <2>1, OneTab
  <2>. QED
    BY <1>1, <1>3, <1>4, <2>1, <2>2, <2>3, <2>4, <2>5, OverKeepsIt
<1>6. CASE o # "boot"
  <2>. DEFINE hydrating == "perms" \in Waiting(t, o) /\ call[t]["perms"].kept
              nb == [tab[t] EXCEPT !.hydrated = @ \/ hydrating]
              ds == FailedWaiters(t, o, call[t])
  <2>1. Put(t, nb, ds) /\ store' = store
    BY <1>6 DEF RefreshTimesOut
  <2>2. "perms" \in Slots /\ tab[t] \in TabState /\ call[t]["perms"] \in CallState
    BY OneTab, ClientsHave
  <2>3. hydrating \in BOOLEAN
    BY <2>2 DEF CallState
  <2>. HIDE DEF hydrating
  <2>4. /\ nb \in TabState /\ nb.seen = tab[t].seen /\ nb.login = tab[t].login
        /\ nb.booting = tab[t].booting /\ nb.acting = tab[t].acting /\ nb.cache = tab[t].cache
        /\ nb.behind = tab[t].behind /\ (nb.hydrated <=> tab[t].hydrated \/ hydrating)
    BY <2>2, <2>3 DEF TabState
  <2>. HIDE DEF nb
  <2>5. TabFits(nb, call[t])
    BY <2>4, OneTab DEF TabFits
  <2>6. /\ ds \in [Slots -> CallState] /\ Follows(ds, call[t]) /\ TabFits(nb, ds)
        /\ \A n \in Slots : ds[n].stage = "waiting" => n \notin Waiting(t, o)
    BY <2>4, <2>5, OneTab, WaitersFit DEF hydrating
  <2>. HIDE DEF ds
  <2>7. \A n \in Slots : ds[n].stage = "waiting" => ds[n].on # o
    BY <2>6 DEF Follows, Waiting
  <2>8. /\ store' \in [token : Creds, perms : Who]
        /\ app = "console" => nb.seen \in {None, store'.token}
        /\ nb.booting => tab[t].booting /\ o # "boot"
    BY <1>6, <2>1, <2>4, OneTab
  <2>. QED
    BY <1>1, <1>3, <1>4, <2>1, <2>4, <2>6, <2>7, <2>8, OverKeepsIt, SMTT(30)
<1>. QED
  BY <1>5, <1>6

\* The calls that waited go out once more, but those whose identity changed meanwhile.
ResentCalls(t, o, token) ==
    [n \in Slots |-> IF n \in Waiting(t, o)
                     THEN Resent(call[t][n], tab[t].acting, token) ELSE call[t][n]]

LEMMA ResentFits ==
    ASSUME IInv, NEW t \in Tabs, NEW o, NEW token \in Creds
    PROVE  LET cs == ResentCalls(t, o, token)
           IN  /\ cs \in [Slots -> CallState] /\ Follows(cs, call[t]) /\ TabFits(tab[t], cs)
               /\ \A n \in Slots : cs[n].stage = "waiting" => n \notin Waiting(t, o)
<1>. DEFINE cs == ResentCalls(t, o, token)
            acting == tab[t].acting
<1>1. /\ Idle \in CallState /\ Idle.stage = "idle" /\ "perms" \in Slots
      /\ acting \in 0..Len(grants) /\ 0 \in 0..Len(grants) /\ None \in Creds
      /\ "none" \in Starters \cup {"none"}
  BY OneTab, IdleFits, ClientsHave, CredsName DEF TabState
<1>2. ASSUME NEW n \in Slots, n \in Waiting(t, o)
      PROVE  LET c == Resent(call[t][n], acting, token)
             IN  /\ c \in CallState /\ c.stage \in {"idle", "resent"}
                 /\ c.stage # "idle" => /\ c.kind = call[t][n].kind /\ c.kept = call[t][n].kept
                                        /\ CallFits(n, c, acting)
                 /\ n = "perms" => c.stage # "idle" /\ c.kept = call[t][n].kept
  <2>. DEFINE old == call[t][n]
              a == IF AsOperator(old.kind) THEN 0 ELSE acting
              sent == [old EXCEPT !.stage = "resent", !.on = "none", !.acting = a,
                                  !.token = IF a = 0 THEN token ELSE None]
  <2>1. old \in CallState /\ old.stage = "waiting" /\ CallFits(n, old, acting)
    BY <1>2, OneTab DEF Waiting, TabFits
  <2>2. CASE Drifted(old, acting)
    <3>1. Resent(old, acting, token) = Idle /\ ~AsOperator(old.kind)
      BY <2>2 DEF Resent, Drifted
    <3>2. n # "perms"
      BY <2>1, <3>1 DEF CallFits, AsOperator
    <3>. QED
      BY <1>1, <3>1, <3>2
  <2>3. CASE ~Drifted(old, acting)
    <3>1. Resent(old, acting, token) = sent
      BY <2>3 DEF Resent
    <3>2. a \in 0..Len(grants) /\ (IF a = 0 THEN token ELSE None) \in Creds
      BY <1>1
    <3>. HIDE DEF a
    <3>3. /\ sent \in CallState /\ sent.stage = "resent" /\ sent.kind = old.kind
          /\ sent.kept = old.kept /\ sent.captured = old.captured /\ sent.acting = a
      BY <1>1, <2>1, <3>2 DEF CallState
    <3>. HIDE DEF sent
    <3>4. CallFits(n, sent, acting)
      BY <2>1, <2>3, <3>3 DEF CallFits, Drifted, a
    <3>. QED
      BY <3>1, <3>3, <3>4
  <2>. QED
    BY <2>2, <2>3
<1>. HIDE DEF acting
<1>3. \A n \in Slots : cs[n] = IF n \in Waiting(t, o) THEN Resent(call[t][n], acting, token)
                               ELSE call[t][n]
  BY DEF ResentCalls, acting
<1>4. \A n \in Slots : call[t][n] \in CallState /\ CallFits(n, call[t][n], acting)
  BY OneTab DEF TabFits, acting
<1>5. \A n \in Slots : n \in Waiting(t, o) => call[t][n].stage = "waiting"
  BY DEF Waiting
<1>6. \A n \in Slots : cs[n] \in CallState /\ CallFits(n, cs[n], acting)
  BY <1>2, <1>3, <1>4 DEF CallFits
<1>7. cs \in [Slots -> CallState]
  BY <1>6 DEF ResentCalls
<1>8. /\ \A n \in Slots : cs[n].stage = "waiting" => n \notin Waiting(t, o)
      /\ Follows(cs, call[t])
  BY <1>2, <1>3, <1>5 DEF Follows
<1>9. /\ call[t]["perms"].stage # "idle" /\ call[t]["perms"].kept =>
            cs["perms"].stage # "idle" /\ cs["perms"].kept
      /\ \A n \in Slots : cs[n].stage # "idle" /\ cs[n].kind = "page" /\ cs[n].kept =>
            call[t][n].stage # "idle" /\ call[t][n].kind = "page" /\ call[t][n].kept
  BY <1>1, <1>2, <1>3, <1>5
<1>. HIDE DEF cs
<1>10. TabFits(tab[t], cs)
  BY <1>6, <1>9, OneTab DEF TabFits, acting
<1>. QED
  BY <1>7, <1>8, <1>10 DEF cs

\* The refresh arrives: its token is stored, and every call that waited goes out once more.
LEMMA RefreshArrivesKeepsIt ==
    ASSUME IInv, NEW t \in Tabs, NEW o \in Starters, RefreshArrives(t, o)
    PROVE  IInv'
<1>. DEFINE token == refresh[t][o].cookie
            u == UserOf(token)
            cs == ResentCalls(t, o, token)
            tb == Committed(tab[t], token, u)
            ds == CommittedCalls(tab[t], cs, token, u)
            b == tab[t].booting /\ o # "boot"
            nb == [tb EXCEPT !.booting = b]
<1>1. /\ refresh' = Over(t, o) /\ shared' = Released(t, o) /\ strained' = strained
      /\ refresh[t][o].stage = "rotated" /\ cookie' = token /\ store' = [store EXCEPT !.token = token]
      /\ UNCHANGED <<app, rows, grants, byes>>
  BY DEF RefreshArrives, server
<1>2. token \in Creds /\ token # None
  <2>1. refresh[t][o] \in RefreshState
    BY OneTab DEF ValuesFit
  <2>. QED
    BY <1>1, <2>1 DEF RefreshState, IInv, RefreshInv, RotatedFits
<1>3. tb.booting = tab[t].booting
  BY OneTab DEF Committed, TabState
<1>4. Put(t, nb, ds)
  BY <1>3 DEF RefreshArrives, ResentCalls
<1>. HIDE DEF token
<1>5. /\ cs \in [Slots -> CallState] /\ Follows(cs, call[t]) /\ TabFits(tab[t], cs)
      /\ \A n \in Slots : cs[n].stage = "waiting" => n \notin Waiting(t, o)
  BY <1>2, ResentFits
<1>. HIDE DEF cs
<1>6. /\ tb \in TabState /\ tb.seen = token /\ tb.login = tab[t].login
      /\ ds \in [Slots -> CallState] /\ Follows(ds, cs) /\ TabFits(tb, ds)
  BY <1>2, <1>5, OneTab, CommittedFits
<1>. HIDE DEF tb, ds
<1>7. /\ nb \in TabState /\ nb.seen = token /\ nb.login = tab[t].login
      /\ nb.booting = b /\ TabFits(nb, ds)
  <2>1. b \in BOOLEAN
    OBVIOUS
  <2>. HIDE DEF b
  <2>. QED
    BY <1>6, <2>1, BootedFits
<1>. HIDE DEF nb
<1>8. Follows(ds, call[t]) /\ \A n \in Slots : ds[n].stage = "waiting" => ds[n].on # o
  BY <1>5, <1>6 DEF Follows, Waiting
<1>9. /\ RefreshInv' /\ refresh' \in [Tabs -> [Starters -> RefreshState]]
      /\ shared' \in [Tabs -> Slots \cup {"none"}]
      /\ \A x \in Tabs, p \in Starters :
            refresh'[x][p] = IF x = t /\ p = o THEN NoRefresh ELSE refresh[x][p]
      /\ \A x \in Tabs : shared'[x] \in {shared[x], "none"} /\ shared'[t] # o
  BY <1>1, OverKeepsRefreshes DEF token
<1>10. /\ store' \in [token : Creds, perms : Who] /\ store'.token = token
       /\ cookie' \in Creds /\ strained' \in BOOLEAN
       /\ nb.booting => tab[t].booting /\ o # "boot"
  BY <1>1, <1>2, <1>7, OneTab
<1>. QED
  BY <1>1, <1>4, <1>6, <1>7, <1>8, <1>9, <1>10, OverKeepsIt

\* The server is told of a sign-out: the request names no session, and the cookie goes.
LEMMA LogoutAnsweredKeepsIt ==
    ASSUME IInv, NEW token \in byes, LogoutAnswered(token)
    PROVE  IInv'
<1>1. /\ cookie' = None /\ byes' \subseteq byes
      /\ UNCHANGED <<app, store, grants, tab, call, refresh, shared, strained>>
  BY DEF LogoutAnswered
<1>2. rows' = rows
  <2>1. rows' = [s \in DOMAIN rows |-> rows[s]]
    BY DEF LogoutAnswered, LogoutNames, isAnonymous
  <2>2. rows = [s \in DOMAIN rows |-> rows[s]]
    <3>1. rows \in [1..Len(rows) -> [user : Users, gen : Nat, open : BOOLEAN]]
      BY LenProperties DEF IInv, ValuesFit, RowsFit
    <3>. QED
      BY <3>1
  <2>. QED
    BY <2>1, <2>2
<1>3. 1 \in Tabs /\ Put(1, tab[1], call[1])
  BY <1>1, ClientsHave DEF Put, IInv, ValuesFit
<1>4. RowsFit' /\ Grows /\ Len(rows') = Len(rows) /\ Len(grants') = Len(grants)
  BY <1>1, <1>2, <1>3, OneTab, NothingGrows
<1>5. /\ ValuesFit /\ RefreshInv /\ WaitInv /\ strained \in BOOLEAN /\ None \in Creds
      /\ refresh \in [Tabs -> [Starters -> RefreshState]] /\ shared \in [Tabs -> Slots \cup {"none"}]
  BY <1>3, OneTab, CredsName DEF IInv, ValuesFit
<1>6. RefreshInv'
  <2>1. UNCHANGED <<rows, refresh, shared>> /\ app' = app /\ cookie' \in {cookie, None}
    BY <1>1, <1>2
  <2>2. strained' \in BOOLEAN
    BY <1>1, <1>5
  <2>3. strained => strained'
    BY <1>1
  <2>. QED
    BY <1>5, <2>1, <2>2, <2>3, RefreshRests
<1>7. /\ cookie' \in Creds /\ byes' \subseteq Creds
      /\ refresh' \in [Tabs -> [Starters -> RefreshState]]
      /\ \A x \in Tabs, o \in Starters :
            refresh[x][o].stage # "none" => refresh'[x][o].stage # "none"
  BY <1>1, <1>3, <1>5, OneTab
<1>. QED
  BY <1>1, <1>4, <1>6, <1>7, TabsRestKeepsIt

\* Nothing the invariant is about changes.
LEMMA StutteringKeepsIt ==
    ASSUME IInv, UNCHANGED <<app, store, cookie, rows, byes, tab, call, refresh, shared, strained>>,
           RowsFit', Len(grants') = Len(grants)
    PROVE  IInv'
<1>1. /\ 1 \in Tabs /\ ValuesFit /\ RefreshInv /\ RowsFit
      /\ refresh \in [Tabs -> [Starters -> RefreshState]] /\ strained \in BOOLEAN
      /\ cookie \in Creds /\ byes \subseteq Creds
  BY ClientsHave DEF IInv, ValuesFit
<1>2. Grows /\ Len(rows') = Len(rows)
  BY <1>1, CredsName DEF Grows
<1>3. RefreshInv'
  <2>1. UNCHANGED <<rows, refresh, shared>> /\ app' = app /\ cookie' \in {cookie, None}
    OBVIOUS
  <2>2. strained' \in BOOLEAN
    BY <1>1
  <2>3. strained => strained'
    OBVIOUS
  <2>. QED
    BY <1>1, <2>1, <2>2, <2>3, RefreshRests
<1>4. /\ cookie' \in Creds /\ byes' \subseteq Creds
      /\ refresh' \in [Tabs -> [Starters -> RefreshState]]
      /\ \A x \in Tabs, o \in Starters :
            refresh[x][o].stage # "none" => refresh'[x][o].stage # "none"
  BY <1>1
<1>. QED
  BY <1>2, <1>3, <1>4, TabsRestKeepsIt

\* A token runs out, a grant is revoked elsewhere, or nothing happens.
LEMMA TroubleKeepsIt ==
    ASSUME IInv, Expire \/ (\E g \in DOMAIN grants : RevokeGrant(g)) \/ UNCHANGED vars
    PROVE  IInv'
<1>1. RowsFit
  BY DEF IInv, ValuesFit
<1>2. CASE Expire
  BY <1>1, <1>2, NothingGrows, StutteringKeepsIt DEF Expire, RowsFit
<1>3. CASE \E g \in DOMAIN grants : RevokeGrant(g)
  BY <1>1, <1>3, GrantEnds, StutteringKeepsIt DEF RevokeGrant
<1>4. CASE UNCHANGED vars
  BY <1>1, <1>4, NothingGrows, StutteringKeepsIt DEF vars, RowsFit
<1>. QED
  BY <1>2, <1>3, <1>4

\* A session is closed elsewhere.
LEMMA RevokingKeepsIt ==
    ASSUME IInv, NEW s \in DOMAIN rows, RevokeRow(s)
    PROVE  IInv'
<1>. DEFINE row == [rows[s] EXCEPT !.open = FALSE]
            Row == [user : Users, gen : Nat, open : BOOLEAN]
<1>1. /\ RowsFit /\ 1 \in Tabs /\ Tabs' = Tabs /\ Slots' = Slots /\ Starters' = Starters
      /\ refresh \in [Tabs -> [Starters -> RefreshState]] /\ cookie \in Creds
      /\ byes \subseteq Creds /\ RefreshInv
  BY ClientsHave DEF IInv, ValuesFit, RevokeRow, Tabs, Slots, Starters
<1>2. rows[s] \in Row
  BY <1>1, CredsName
<1>3. row \in Row /\ row.user = rows[s].user /\ row.gen = rows[s].gen /\ ~row.open
  BY <1>2
<1>4. /\ rows' = [rows EXCEPT ![s] = row]
      /\ UNCHANGED <<app, store, cookie, grants, byes, tab, call, refresh, shared, strained>>
  BY DEF RevokeRow
<1>. HIDE DEF row
<1>5. RowsFit' /\ Grows /\ Len(rows') = Len(rows) /\ Len(grants') = Len(grants)
  BY <1>1, <1>3, <1>4, RowAlters DEF Row
<1>6. \A x \in DOMAIN rows : /\ rows'[x].user = rows[x].user /\ rows'[x].gen = rows[x].gen
                              /\ (rows'[x] = rows[x] \/ ~rows'[x].open)
  BY <1>3, <1>4
<1>7. RefreshInv'
  <2>1. RotatedFits'
    BY <1>1, <1>4 DEF RotatedFits, RefreshInv
  <2>2. ASSUME app = "console", ~strained
        PROVE  OneRefresh'
    <3>1. OneRefresh
      BY <1>1, <2>2 DEF RefreshInv
    <3>2. ASSUME NEW o \in Starters
          PROVE  RefreshFits(refresh[1][o])'
      <4>1. refresh[1][o] \in RefreshState /\ RefreshFits(refresh[1][o])
        BY <1>1, <3>1 DEF OneRefresh
      <4>2. refresh'[1][o] = refresh[1][o]
        BY <1>4
      <4>3. refresh[1][o].cookie # None => refresh[1][o].cookie.sid \in DOMAIN rows
        BY <1>1, <4>1, CredsName DEF RefreshState
      <4>4. (IF refresh[1][o].token = None THEN NoUser ELSE rows'[refresh[1][o].token.sid].user)
               = UserOf(refresh[1][o].token)
        BY <1>1, <1>5, <4>1, TypesGrow DEF RefreshState
      <4>5. refresh[1][o].cookie # None =>
               /\ rows'[refresh[1][o].cookie.sid].user = rows[refresh[1][o].cookie.sid].user
               /\ rows'[refresh[1][o].cookie.sid].gen = rows[refresh[1][o].cookie.sid].gen
               /\ (rows'[refresh[1][o].cookie.sid] = rows[refresh[1][o].cookie.sid] \/ ~rows'[refresh[1][o].cookie.sid].open)
        BY <1>6, <4>3
      <4>. QED
        BY <4>1, <4>2, <4>4, <4>5 DEF RefreshFits, Current, UserOf
    <3>3. cookie # None => /\ rows'[cookie.sid].gen = rows[cookie.sid].gen
                           /\ (rows'[cookie.sid] = rows[cookie.sid] \/ ~rows'[cookie.sid].open)
      BY <1>1, <1>6, CredsName
    <3>4. cookie' # None => Current(cookie)'
                            \/ \E o \in Starters : refresh'[1][o].stage \in {"rotated", "refused"}
      BY <1>4, <3>1, <3>3 DEF OneRefresh, Current
    <3>. QED
      BY <1>1, <1>4, <3>1, <3>2, <3>4 DEF OneRefresh
  <2>. QED
    BY <1>4, <2>1, <2>2 DEF RefreshInv
<1>8. /\ cookie' \in Creds /\ byes' \subseteq Creds
      /\ refresh' \in [Tabs -> [Starters -> RefreshState]]
      /\ \A x \in Tabs, o \in Starters :
            refresh[x][o].stage # "none" => refresh'[x][o].stage # "none"
  BY <1>1, <1>4
<1>. QED
  BY <1>4, <1>5, <1>7, <1>8, TabsRestKeepsIt

-----------------------------------------------------------------------------
(* The invariant. *)

\* A browser starts in it, with a token that has run out or without one.
LEMMA StartsIn == Init => IInv
<1>. SUFFICES ASSUME Init
              PROVE  IInv
  OBVIOUS
<1>. DEFINE Row == [user : Users, gen : Nat, open : BOOLEAN]
            Grant == [sid : Nat, live : BOOLEAN]
            first == [sid |-> 1, gen |-> 1]
<1>1. /\ app \in Apps /\ grants = <<>> /\ byes = {} /\ strained = FALSE
      /\ tab = [t \in Tabs |-> [FreshTab EXCEPT
                    !.booting = t = 1 /\ store.token # None,
                    !.hydrated = store.token = None \/ store.perms # NoUser]]
      /\ call = [t \in Tabs |-> [n \in Slots |-> Idle]]
      /\ refresh = [t \in Tabs |-> Boot(t)] /\ shared = [t \in Tabs |-> "none"]
  BY DEF Init
<1>2. grants \in Seq(Grant) /\ Len(grants) = 0 /\ Len(grants) <= MaxGrants
  <2>. HIDE DEF Grant
  <2>1. <<>> \in Seq(Grant) /\ Len(<<>>) = 0
    BY EmptySeq
  <2>2. grants = <<>>
    BY Zenon DEF Init
  <2>3. 0 <= MaxGrants
    BY SessionAssumption
  <2>. QED
    BY <2>1, <2>2, <2>3
<1>3. /\ rows \in Seq(Row) /\ Len(rows) <= MaxLogins
      /\ store \in [token : Creds, perms : Who] /\ cookie \in Creds
      /\ cookie # None => Current(cookie)
  <2>1. CASE rows = <<>> /\ store = EmptyStore /\ cookie = None
    BY <2>1, SessionAssumption DEF EmptyStore, Creds, Who
  <2>2. ASSUME NEW u \in Users, NEW cached \in {NoUser, u},
               rows = <<[user |-> u, gen |-> 1, open |-> TRUE]>>,
               store = [token |-> first, perms |-> cached], cookie \in {None, first}
        PROVE  <1>3!:
    <3>1. [user |-> u, gen |-> 1, open |-> TRUE] \in Row
      OBVIOUS
    <3>2. rows \in Seq(Row) /\ Len(rows) = 1 /\ rows[1].gen = 1 /\ DOMAIN rows = 1..1
      BY <2>2, <3>1
    <3>3. first \in Creds
      BY <3>2 DEF Creds
    <3>4. None \in Creds /\ cached \in Who
      BY DEF Creds, Who
    <3>5. cookie # None => Current(cookie)
      BY <2>2, <3>2 DEF Current
    <3>6. Len(rows) <= MaxLogins
      BY <3>2, SessionAssumption
    <3>. QED
      BY <2>2, <3>2, <3>3, <3>4, <3>5, <3>6
  <2>. QED
    BY <2>1, <2>2 DEF Init
<1>4. RowsFit
  BY <1>2, <1>3 DEF RowsFit
<1>5. /\ app \in {"console", "dashboard"} /\ 1 \in Tabs /\ (app = "console" => Tabs = {1})
      /\ Starters = Slots \cup {"boot"} /\ "boot" \notin Slots /\ "none" \notin Starters
  BY <1>1, SessionAssumption DEF Tabs, Slots, Starters
<1>6. Idle \in CallState /\ NoRefresh \in RefreshState /\ Idle.stage = "idle"
      /\ NoRefresh.stage = "none" /\ NoRefresh.cookie = None
  BY <1>2 DEF Idle, NoRefresh, CallState, RefreshState, Creds
<1>7. \A t \in Tabs : /\ tab[t] \in TabState /\ tab[t].seen = None /\ tab[t].acting = 0
                      /\ tab[t].cache = {} /\ tab[t].login = NoUser
                      /\ tab[t].booting <=> t = 1 /\ store.token # None
  <2>1. None \in Creds /\ NoUser \in Who /\ 0 \in 0..Len(grants)
    BY <1>2 DEF Creds, Who
  <2>. QED
    BY <1>1, <2>1 DEF FreshTab, TabState
<1>8. \A t \in Tabs, n \in Slots : call[t][n] = Idle
  BY <1>1
<1>9. \A t \in Tabs, o \in Starters :
         refresh[t][o] = IF t = 1 /\ store.token # None /\ o = "boot"
                         THEN [stage |-> "sent", cookie |-> cookie, token |-> store.token]
                         ELSE NoRefresh
  BY <1>1 DEF Boot
<1>10. [stage |-> "sent", cookie |-> cookie, token |-> store.token] \in RefreshState
  BY <1>3 DEF RefreshState
<1>11. ValuesFit
  <2>1. tab \in [Tabs -> TabState]
    BY <1>1, <1>7
  <2>2. call \in [Tabs -> [Slots -> CallState]]
    BY <1>1, <1>6
  <2>3. refresh \in [Tabs -> [Starters -> RefreshState]]
    BY <1>1, <1>6, <1>10 DEF Boot
  <2>. QED
    BY <1>1, <1>3, <1>4, <2>1, <2>2, <2>3 DEF ValuesFit
<1>12. TabsFit
  BY <1>6, <1>7, <1>8, <1>11, ClientsHave DEF TabsFit, TabFits, CallFits
<1>13. ConsoleSees
  BY <1>5, <1>7 DEF ConsoleSees
<1>14. WaitInv
  <2>1. ASSUME NEW t \in Tabs
        PROVE  /\ shared[t] = "none" /\ \A n \in Slots : call[t][n].stage = "idle"
               /\ tab[t].booting => refresh[t]["boot"].stage = "sent"
    <3>1. shared[t] = "none" /\ \A n \in Slots : call[t][n].stage = "idle"
      BY <1>1, <1>6, <1>8
    <3>2. tab[t].booting => t = 1 /\ store.token # None
      BY <1>7
    <3>3. "boot" \in Starters
      BY <1>5
    <3>. QED
      BY <1>9, <3>1, <3>2, <3>3
  <2>. QED
    BY <2>1 DEF WaitInv, WaitsFit
<1>15. BoundsFit
  BY <1>6, <1>7, <1>8 DEF BoundsFit
<1>16. RefreshInv
  BY <1>3, <1>5, <1>6, <1>9 DEF RefreshInv, RotatedFits, OneRefresh, RefreshFits
<1>. QED
  BY <1>11, <1>12, <1>13, <1>14, <1>15, <1>16 DEF IInv

\* Every step keeps it.
LEMMA StaysIn == IInv /\ [Next]_vars => IInv'
<1>. SUFFICES ASSUME IInv, [Next]_vars
              PROVE  IInv'
  OBVIOUS
<1>1. CASE UNCHANGED vars
  BY <1>1, TroubleKeepsIt
<1>2. ASSUME NEW t \in Tabs, NEW u \in Users, BeginLogin(t, u)
      PROVE  IInv'
  BY <1>2, LoggingInKeepsIt
<1>3. ASSUME NEW t \in Tabs,
             \/ LoginAnswered(t) \/ LoginFails(t)
             \/ Logout(t) \/ Listen(t) \/ DismissNotice(t)
             \/ PermissionsAnswered(t)
      PROVE  IInv'
  BY <1>3, LoggedInKeepsIt, LoginFailingKeepsIt, SigningOutKeepsIt, ListeningKeepsIt,
     DismissingKeepsIt, PermissionsAnsweredKeepsIt
<1>4. ASSUME NEW t \in Tabs, NEW n \in Slots,
             (\E kind \in Kinds(t, n) : BeginCall(t, n, kind)) \/ BeginTokenless(t, n)
      PROVE  IInv'
  BY <1>4, CallingKeepsIt, SigningOutKeepsIt
<1>5. ASSUME NEW t \in Tabs, NEW n \in Slots, Handled(t, n)
      PROVE  IInv'
  BY <1>5, PageAnsweredKeepsIt, EnteredKeepsIt, ExitingKeepsIt, ActingRefusedKeepsIt,
     RefusedKeepsIt, RejectingKeepsIt DEF Handled
<1>6. ASSUME NEW t \in Tabs, NEW o \in Starters,
             \/ ServerRotates(t, o) \/ RefreshArrives(t, o)
             \/ RefreshRefused(t, o) \/ RefreshTimesOut(t, o)
      PROVE  IInv'
  BY <1>6, RotatingKeepsIt, RefreshArrivesKeepsIt, RefreshRefusedKeepsIt, RefreshTimesOutKeepsIt
<1>7. ASSUME NEW token \in byes, LogoutAnswered(token)
      PROVE  IInv'
  BY <1>7, LogoutAnsweredKeepsIt
<1>8. CASE Expire \/ \E g \in DOMAIN grants : RevokeGrant(g)
  BY <1>8, TroubleKeepsIt
<1>9. ASSUME NEW s \in DOMAIN rows, RevokeRow(s)
      PROVE  IInv'
  BY <1>9, RevokingKeepsIt
<1>. QED
  BY <1>1, <1>2, <1>3, <1>4, <1>5, <1>6, <1>7, <1>8, <1>9 DEF Next

LEMMA AlwaysIn == Spec => []IInv
BY StartsIn, StaysIn, PTL DEF Spec

-----------------------------------------------------------------------------
(* What follows. *)

\* A request a user makes as themself never goes out under an acting token and one made inside a
\* tenant never under the operator's own, and nothing cached is of another identity than the
\* tab's, unless that changed behind its back: authFetch, credentialFor, query-client.ts.
THEOREM IdentitiesAgreeHolds == Spec => []IdentitiesAgree
<1>1. ASSUME IInv
      PROVE  IdentitiesAgree
  <2>1. RowsFit /\ ValuesFit
    BY <1>1 DEF IInv, ValuesFit
  <2>2. TypeOK
    <3>1. /\ app \in Apps /\ store.token \in Tokens /\ store.perms \in Users \cup {NoUser}
          /\ cookie \in Tokens /\ Len(rows) <= MaxLogins /\ Len(grants) <= MaxGrants
      BY <2>1, CredsName DEF ValuesFit, RowsFit, Who
    <3>2. \A s \in DOMAIN rows : rows[s] \in [user : Users, gen : Nat, open : BOOLEAN]
      BY <2>1, CredsName
    <3>3. ASSUME NEW t \in Tabs
          PROVE  /\ tab[t].seen \in Tokens /\ tab[t].acting \in 0..Len(grants)
                 /\ tab[t].acting # 0 => app = "console"
                 /\ tab[t].booting => refresh[t]["boot"].stage # "none"
                 /\ shared[t] \in Slots \cup {"none"}
      <4>1. tab[t].seen \in Creds /\ tab[t].acting \in 0..Len(grants)
        BY <1>1, OneTab DEF TabState
      <4>. QED
        BY <1>1, <2>1, <4>1, OneTab, CredsName DEF TabFits, WaitsFit, ValuesFit
    <3>4. ASSUME NEW t \in Tabs, NEW n \in Slots
          PROVE  call[t][n].stage \in {"idle", "sent", "waiting", "resent"}
      <4>1. call[t][n] \in CallState
        BY <1>1, OneTab
      <4>. QED
        BY <4>1 DEF CallState
    <3>. QED
      BY <3>1, <3>2, <3>3, <3>4 DEF TypeOK
  <2>3. NoBorrowedCredential
    BY <1>1 DEF IInv, TabsFit, TabFits, CallFits, NoBorrowedCredential, OnWire
  <2>4. CacheIsOwn
    BY <1>1 DEF IInv, TabsFit, TabFits, CacheIsOwn
  <2>. QED
    BY <2>2, <2>3, <2>4 DEF IdentitiesAgree
<1>. QED
  BY <1>1, AlwaysIn, PTL

\* The console never spends its own session: while every answer arrived, no 401 asked beside the
\* refresh at boot and the cookie is there, a refresh is refused only for a session closed on the
\* server (sharedRefresh, refreshAccessToken).
THEOREM NoSelfRefusalHolds == Spec => []NoSelfRefusal
<1>1. ASSUME IInv
      PROVE  NoSelfRefusal
  <2>1. ASSUME app = "console", ~strained, NEW t \in Tabs, NEW o \in Starters
        PROVE  RefreshFits(refresh[t][o])
    BY <1>1, <2>1, OneTab DEF IInv, RefreshInv, OneRefresh
  <2>. QED
    BY <2>1 DEF NoSelfRefusal, RefreshFits
<1>. QED
  BY <1>1, AlwaysIn, PTL

\* Nobody waits for nothing: permissions a signed-in tab shows it is waiting for are on their way,
\* and so is the refresh a call waits for (auth-context.tsx, route-guard.tsx, sharedRefresh).
THEOREM NobodyWaitsForNothingHolds == Spec => []NobodyWaitsForNothing
<1>1. ASSUME IInv
      PROVE  NobodyWaitsForNothing
  BY <1>1 DEF IInv, TabsFit, TabFits, WaitInv, WaitsFit, NobodyWaitsForNothing
<1>. QED
  BY <1>1, AlwaysIn, PTL
=============================================================================
