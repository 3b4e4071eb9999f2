--------------------------- MODULE ClientSession ---------------------------
(***************************************************************************)
(* The session a browser holds for the two web clients: the access token   *)
(* in localStorage, shared by every tab; the refresh cookie, which only    *)
(* the server writes; and, per tab, the React state, the query cache, the  *)
(* calls in flight with their single-flight refresh, and - in the console  *)
(* only - the acting session of an operator inside another tenant.         *)
(*                                                                         *)
(* The dashboard runs in two tabs and has no acting layer, the console in  *)
(* one tab with one (ADR-0008); `app` says which.  What a second tab of    *)
(* the console does to the acting session of the first is not modelled.    *)
(* A call is one run of authFetch.  Continuations of one promise run to    *)
(* completion before the next event: what they do to the stores is a step. *)
(***************************************************************************)
EXTENDS Naturals, FiniteSets, Sequences

CONSTANTS
    Users,          \* who may sign in; all of them in one tenant
    Apps,           \* the clients explored: "console", "dashboard"
    MaxLogins,      \* sign-ins, one session row each
    MaxGrants,      \* acting sessions minted
    MaxTroubles,    \* tokens run out and sessions closed elsewhere
    MaxInFlight     \* per app: calls in flight once a page or a dialog starts another

NoUser == "nobody"

ASSUME SessionAssumption ==
    /\ Users # {} /\ NoUser \notin Users
    /\ Apps \subseteq {"console", "dashboard"}
    /\ MaxLogins \in Nat \ {0} /\ MaxGrants \in Nat /\ MaxTroubles \in Nat
    /\ MaxInFlight \in [Apps -> Nat]

VARIABLES
    app,        \* which client this browser runs
    store,      \* localStorage: access token and permission list
    cookie,     \* the refresh cookie, as the browser would send it
    rows,       \* server: the session rows, in order of sign-in
    expired,    \* server: access tokens past their lifetime
    grants,     \* server: the acting grants, in order of minting
    byes,       \* logout requests on the wire, by the session they are for
    tab,        \* per tab: React state, acting store, query cache
    call,       \* per tab and slot: a run of authFetch
    refresh,    \* per tab and starter: a run of refreshAccessToken
    shared,     \* per tab: whose refresh is in `refreshPromise`
    strained    \* the console: a refresh lost its answer, or ran beside the one at boot

vars == <<app, store, cookie, rows, expired, grants, byes, tab, call,
          refresh, shared, strained>>
server == <<rows, expired, grants, byes>>

None == [sid |-> 0, gen |-> 0]          \* no token, no cookie

Tabs == IF app = "console" THEN {1} ELSE {1, 2}
Slots == IF app = "console" THEN {"page", "dialog", "perms"} ELSE {"page", "perms"}
Starters == Slots \cup {"boot"}

UserOf(token) == IF token = None THEN NoUser ELSE rows[token.sid].user

(***************************************************************************)
(* Calls and refreshes at rest.                                            *)
(***************************************************************************)
Idle == [kind |-> "none", stage |-> "idle", captured |-> 0, acting |-> 0,
         token |-> None, on |-> "none", kept |-> FALSE]
NoRefresh == [stage |-> "none", cookie |-> None, token |-> None]

Tokens == [sid : 0..MaxLogins, gen : Nat]
TypeOK ==
    /\ app \in Apps
    /\ store.token \in Tokens /\ store.perms \in Users \cup {NoUser}
    /\ cookie \in Tokens
    /\ Len(rows) <= MaxLogins /\ Len(grants) <= MaxGrants
    /\ \A s \in DOMAIN rows : rows[s] \in [user : Users, gen : Nat, open : BOOLEAN]
    /\ \A t \in Tabs : /\ tab[t].seen \in Tokens
                       /\ tab[t].acting \in 0..Len(grants)
                       /\ tab[t].acting # 0 => app = "console"
                       /\ tab[t].booting => refresh[t]["boot"].stage # "none"
                       /\ shared[t] \in Slots \cup {"none"}
    /\ \A t \in Tabs, n \in Slots :
           /\ call[t][n].stage \in {"idle", "sent", "waiting", "resent"}

-----------------------------------------------------------------------------
(***************************************************************************)
(* What a tab is, and what ends its session.                               *)
(***************************************************************************)
FreshTab == [seen |-> None, last |-> NoUser, hydrated |-> TRUE, booting |-> FALSE,
             login |-> NoUser, acting |-> 0, notice |-> FALSE, cache |-> {},
             behind |-> FALSE]

User(t) == UserOf(tab[t].seen)

\* Whose data an answer under this credential is.
Identity(acting, token) == IF acting # 0 THEN [acting |-> acting, user |-> NoUser]
                                         ELSE [acting |-> 0, user |-> UserOf(token)]

\* queryClient.clear(): nothing stays cached, and the answers of queries still
\* in flight go nowhere.
ClearedTab(tb) == [tb EXCEPT !.cache = {}, !.behind = FALSE]
ClearedCalls(cs) == [n \in Slots |-> IF cs[n].kind = "page" THEN [cs[n] EXCEPT !.kept = FALSE]
                                                          ELSE cs[n]]

\* endSessionLocally: acting session, stored token and permissions, and cache.
EmptyStore == [token |-> None, perms |-> NoUser]

EndedTab(tb) == [ClearedTab(tb) EXCEPT !.acting = 0, !.notice = FALSE,
                                       !.seen = None, !.last = NoUser]
EndedCalls(cs) == [n \in Slots |-> [cs[n] EXCEPT !.kept = FALSE]]

\* actingStore.drop: the acting session of the moment, and a notice that says so.
Dropped(tb) == IF tb.acting = 0 THEN tb
               ELSE [ClearedTab(tb) EXCEPT !.acting = 0, !.notice = TRUE]
DroppedCalls(tb, cs) == IF tb.acting = 0 THEN cs ELSE ClearedCalls(cs)

(***************************************************************************)
(* authFetch: which credential a call goes out with.                       *)
(***************************************************************************)
AsOperator(kind) == kind \in {"perms", "enter"}

\* credentialFor, at the first send: the acting token unless the call opted out.
Sent(kind, acting, token) ==
    LET a == IF AsOperator(kind) THEN 0 ELSE acting
    IN  [Idle EXCEPT !.kind = kind, !.stage = "sent", !.captured = a, !.acting = a,
                     !.token = IF a = 0 THEN token ELSE None, !.kept = TRUE]

\* mutant: the retry goes out whatever happened meanwhile
Drifted_Never(c, acting) == FALSE

Drifted(c, acting) == ~AsOperator(c.kind) /\ acting # c.captured

\* The retry after a refresh: a local 401 when the acting identity drifted.
Resent(c, acting, token) ==
    IF Drifted(c, acting) THEN Idle
    ELSE LET a == IF AsOperator(c.kind) THEN 0 ELSE acting
         IN  [c EXCEPT !.stage = "resent", !.on = "none", !.acting = a,
                       !.token = IF a = 0 THEN token ELSE None]

\* The server's answer to the credential: accepted, or 401.
Accepted(c) == IF c.acting # 0 THEN grants[c.acting].live
               ELSE c.token \notin expired /\ rows[c.token.sid].open

\* What a failed call leaves: the hydration effect stops waiting, exitTenant
\* drops the acting session whatever happened.
FailedTab(tb, c) ==
    CASE c.kind = "perms" /\ c.kept -> [tb EXCEPT !.hydrated = TRUE]
      [] c.kind = "exit" -> [ClearedTab(tb) EXCEPT !.acting = 0, !.notice = FALSE]
      [] OTHER -> tb
FailedCalls(cs, n) ==
    LET rest == [cs EXCEPT ![n] = Idle]
    IN  IF cs[n].kind = "exit" THEN ClearedCalls(rest) ELSE rest

(***************************************************************************)
(* The store's listener and the hydration effect.  Every emit makes a new  *)
(* `user` object, so the effect's clean-up cancels the run in flight; it   *)
(* starts over unless this subject's permissions are already there.        *)
(***************************************************************************)
\* mutant: permissions asked for count as permissions here
Settled_BySubject(tb, u) == tb.last = u

Settled(tb, u) == tb.last = u /\ tb.hydrated

Committed(tb, token, u) ==
    [tb EXCEPT !.seen = token, !.last = u,
               !.behind = @ \/ UserOf(tb.seen) \notin {NoUser, u}]
CommittedCalls(tb, cs, token, u) ==
    [cs EXCEPT !["perms"] = IF u # NoUser /\ ~Settled(tb, u)
                            THEN Sent("perms", 0, token)
                            ELSE [@ EXCEPT !.kept = FALSE]]

Put(t, tb, cs) == tab' = [tab EXCEPT ![t] = tb] /\ call' = [call EXCEPT ![t] = cs]

-----------------------------------------------------------------------------
\* A tab opens: on a token that has run out it renews the session before it
\* shows anything, without a token it has nothing to restore.
Boot(t) ==
    [o \in Starters |-> IF t = 1 /\ store.token # None /\ o = "boot"
                        THEN [stage |-> "sent", cookie |-> cookie, token |-> store.token]
                        ELSE NoRefresh]

Init ==
    /\ app \in Apps
    /\ grants = <<>> /\ byes = {}
    /\ \/ /\ rows = <<>> /\ expired = {}
          /\ store = EmptyStore /\ cookie = None
       \/ app = "console" /\ \E u \in Users : \E cached \in {NoUser, u} :
             /\ rows = <<[user |-> u, gen |-> 1, open |-> TRUE]>>
             /\ expired = {[sid |-> 1, gen |-> 1]}
             /\ store = [token |-> [sid |-> 1, gen |-> 1], perms |-> cached]
             /\ cookie \in {None, [sid |-> 1, gen |-> 1]}
    /\ tab = [t \in Tabs |-> [FreshTab EXCEPT
                 !.booting = t = 1 /\ store.token # None,
                 !.hydrated = store.token = None \/ store.perms # NoUser]]
    /\ call = [t \in Tabs |-> [n \in Slots |-> Idle]]
    /\ refresh = [t \in Tabs |-> Boot(t)]
    /\ shared = [t \in Tabs |-> "none"]
    /\ strained = FALSE

(***************************************************************************)
(* Signing in and out.                                                     *)
(***************************************************************************)
\* login, up to issueToken: the previous user's permissions and acting session go first.
BeginLogin(t, u) ==
    /\ User(t) = NoUser /\ ~tab[t].booting
    /\ Len(rows) < MaxLogins /\ \A x \in Tabs : tab[x].login = NoUser     \* bound: one at a time
    /\ app = "dashboard" => t = 2                          \* the other tab
    /\ store' = [store EXCEPT !.perms = NoUser]
    /\ tab' = [tab EXCEPT ![t].login = u, ![t].hydrated = FALSE, ![t].acting = 0,
                          ![t].notice = FALSE]
    /\ UNCHANGED <<app, cookie, server, call, refresh, shared, strained>>

\* ... and after it: the answer's cookie, the token, an empty cache.
LoginAnswered(t) ==
    /\ tab[t].login # NoUser
    /\ LET u == tab[t].login
           token == [sid |-> Len(rows) + 1, gen |-> 1]
           tb == [ClearedTab(Committed(tab[t], token, u)) EXCEPT !.login = NoUser]
       IN  /\ rows' = Append(rows, [user |-> u, gen |-> 1, open |-> TRUE])
           /\ cookie' = token
           /\ store' = [store EXCEPT !.token = token]
           /\ Put(t, tb, ClearedCalls(CommittedCalls(tab[t], call[t], token, u)))
    /\ UNCHANGED <<app, expired, grants, byes, refresh, shared, strained>>

LoginFails(t) ==
    /\ tab[t].login # NoUser
    /\ tab' = [tab EXCEPT ![t].login = NoUser]
    /\ UNCHANGED <<app, store, cookie, server, call, refresh, shared, strained>>

\* logout: tell the server without waiting, end the session here at once.
Logout(t) ==
    /\ User(t) # NoUser /\ byes = {}       \* bound: one such request at a time
    /\ byes' = {store.token} \ {None}
    /\ store' = EmptyStore
    /\ Put(t, EndedTab(tab[t]), EndedCalls(call[t]))
    /\ UNCHANGED <<app, cookie, rows, expired, grants, refresh, shared, strained>>

\* The auth routes go out without a bearer token, the logout route included, and
\* the cookie's Path keeps it off every route but the refresh.
isAnonymous(route) == route \in {"token", "refresh", "logout"}
LogoutNames(token) == IF isAnonymous("logout") THEN {} ELSE {token.sid}

\* The server ends the session the request names, if it names one, and clears the cookie.
LogoutAnswered(token) ==
    /\ token \in byes
    /\ byes' = byes \ {token}
    /\ rows' = [s \in DOMAIN rows |-> IF s \in LogoutNames(token)
                                      THEN [rows[s] EXCEPT !.open = FALSE] ELSE rows[s]]
    /\ cookie' = None
    /\ UNCHANGED <<app, store, expired, grants, tab, call, refresh, shared, strained>>

\* A storage event, or the tab becoming visible: the stored token is read again.
Listen(t) ==
    /\ tab[t].seen # store.token
    /\ LET u == UserOf(store.token)
       IN  Put(t, Committed(tab[t], store.token, u),
                  CommittedCalls(tab[t], call[t], store.token, u))
    /\ UNCHANGED <<app, store, cookie, server, refresh, shared, strained>>

(***************************************************************************)
(* Calls.                                                                  *)
(***************************************************************************)
Kinds(t, n) ==
    CASE n = "page"   -> {"page"}
      [] n = "dialog" -> (IF tab[t].acting # 0 THEN {"exit"} ELSE {})
                         \cup (IF Len(grants) < MaxGrants THEN {"enter"} ELSE {})
      [] OTHER        -> {}

InFlight == UNION {{<<t, n>> : n \in {m \in Slots : call[t][m].stage # "idle"}} : t \in Tabs}

BeginCall(t, n, kind) ==
    /\ call[t][n].stage = "idle"
    /\ t = 1 /\ Cardinality(InFlight) < MaxInFlight[app]     \* bound: the tab we watch
    /\ User(t) # NoUser /\ ~tab[t].booting /\ kind \in Kinds(t, n)
    /\ store.token # None \/ (tab[t].acting # 0 /\ ~AsOperator(kind))
    /\ call' = [call EXCEPT ![t][n] = Sent(kind, tab[t].acting, store.token)]
    /\ UNCHANGED <<app, store, cookie, server, tab, refresh, shared, strained>>

\* Not anonymous and no token to send: the session is over, here too.
BeginTokenless(t, n) ==
    /\ n = "page" /\ call[t][n].stage = "idle"
    /\ User(t) # NoUser /\ ~tab[t].booting
    /\ store.token = None /\ tab[t].acting = 0
    /\ store' = EmptyStore
    /\ Put(t, EndedTab(tab[t]), EndedCalls(call[t]))
    /\ UNCHANGED <<app, cookie, server, refresh, shared, strained>>

OnWire(t, n) == call[t][n].stage \in {"sent", "resent"}

PageAnswered(t, n) ==
    LET c == call[t][n] IN
    /\ OnWire(t, n) /\ c.kind = "page" /\ Accepted(c)
    /\ Put(t, [tab[t] EXCEPT !.cache = IF c.kept THEN @ \cup {Identity(c.acting, c.token)} ELSE @,
                             !.behind = @ \/ (c.acting = 0 /\ UserOf(c.token) # User(t))],
              [call[t] EXCEPT ![n] = Idle])
    /\ UNCHANGED <<app, store, cookie, server, refresh, shared, strained>>

\* The hydration effect's answer, unless its clean-up ran first.
PermissionsAnswered(t) ==
    LET c == call[t]["perms"] IN
    /\ OnWire(t, "perms") /\ Accepted(c)
    /\ store' = IF c.kept THEN [store EXCEPT !.perms = UserOf(c.token)] ELSE store
    /\ Put(t, [tab[t] EXCEPT !.hydrated = @ \/ c.kept], [call[t] EXCEPT !["perms"] = Idle])
    /\ UNCHANGED <<app, cookie, server, refresh, shared, strained>>

\* installActing: the acting token is stored and everything cached goes.
Entered(t, n) ==
    LET c == call[t][n] IN
    /\ OnWire(t, n) /\ c.kind = "enter" /\ Accepted(c)
    /\ grants' = Append(grants, [sid |-> c.token.sid, live |-> TRUE])
    /\ Put(t, [ClearedTab(tab[t]) EXCEPT !.acting = Len(grants) + 1, !.notice = FALSE],
              ClearedCalls([call[t] EXCEPT ![n] = Idle]))
    /\ UNCHANGED <<app, store, cookie, rows, expired, byes, refresh, shared, strained>>

Exited(t, n) ==
    LET c == call[t][n] IN
    /\ OnWire(t, n) /\ c.kind = "exit" /\ Accepted(c)
    /\ grants' = [grants EXCEPT ![c.acting].live = FALSE]
    /\ Put(t, FailedTab(tab[t], c), FailedCalls(call[t], n))
    /\ UNCHANGED <<app, store, cookie, rows, expired, byes, refresh, shared, strained>>

DismissNotice(t) ==
    /\ tab[t].notice
    /\ tab' = [tab EXCEPT ![t].notice = FALSE]
    /\ UNCHANGED <<app, store, cookie, server, call, refresh, shared, strained>>

\* A 401 on the acting token: nothing to renew, back to the operator's own session.
ActingRefused(t, n) ==
    LET c == call[t][n]
        tb == Dropped(tab[t])
        cs == DroppedCalls(tab[t], call[t])
    IN
    /\ c.stage = "sent" /\ c.acting # 0 /\ ~Accepted(c)
    /\ Put(t, FailedTab(tb, c), FailedCalls(cs, n))
    /\ UNCHANGED <<app, store, cookie, server, refresh, shared, strained>>

\* mutant: every 401 starts a refresh of its own
Claimed_Never(t, n) == shared

\* `refreshPromise` is taken before anything is awaited.
Claimed(t, n) == [shared EXCEPT ![t] = n]

\* A 401 on the session's own token: wait for the refresh in flight, or start one.
Refused(t, n) ==
    LET c == call[t][n] IN
    /\ c.stage = "sent" /\ c.acting = 0 /\ ~Accepted(c)
    /\ IF shared[t] # "none"
       THEN /\ call' = [call EXCEPT ![t][n].stage = "waiting", ![t][n].on = shared[t]]
            /\ UNCHANGED <<tab, refresh, shared>>
       ELSE IF store.token = None       \* "No session to refresh"
       THEN /\ Put(t, FailedTab(tab[t], c), FailedCalls(call[t], n))
            /\ UNCHANGED <<refresh, shared>>
       ELSE /\ call' = [call EXCEPT ![t][n].stage = "waiting", ![t][n].on = n]
            /\ refresh' = [refresh EXCEPT ![t][n] =
                              [stage |-> "sent", cookie |-> cookie, token |-> store.token]]
            /\ shared' = Claimed(t, n)
            /\ UNCHANGED tab
    /\ strained' = (strained \/ (app = "console" /\ refresh[t]["boot"].stage # "none"))
    /\ UNCHANGED <<app, store, cookie, server>>

\* The retry's own 401 is the caller's: no second refresh.
RefusedAgain(t, n) ==
    LET c == call[t][n] IN
    /\ c.stage = "resent" /\ ~Accepted(c)
    /\ Put(t, FailedTab(tab[t], c), FailedCalls(call[t], n))
    /\ UNCHANGED <<app, store, cookie, server, refresh, shared, strained>>

\* A request that fails on the network, or stalls into its thirty seconds.
CallTimesOut(t, n) ==
    LET c == call[t][n] IN
    /\ OnWire(t, n)
    /\ Put(t, FailedTab(tab[t], c), FailedCalls(call[t], n))
    /\ UNCHANGED <<app, store, cookie, server, refresh, shared, strained>>

(***************************************************************************)
(* The refresh.                                                            *)
(***************************************************************************)
\* Server: the cookie's token must be its session's current one; the one before
\* it is taken for a replay and closes the session, unless the two raced.
ServerRotates(t, o) ==
    LET r == refresh[t][o]
        row == rows[r.cookie.sid]
        current == r.cookie # None /\ row.open /\ row.gen = r.cookie.gen
    IN
    /\ r.stage = "sent"
    /\ \/ /\ current
          /\ rows' = [rows EXCEPT ![r.cookie.sid].gen = @ + 1]
          /\ refresh' = [refresh EXCEPT ![t][o].stage =
                            IF UserOf(r.token) = row.user THEN "rotated" ELSE "refused",
                                        ![t][o].cookie.gen = @ + 1]
       \/ /\ ~current
          /\ rows' \in {rows} \cup (IF r.cookie # None /\ row.gen = r.cookie.gen + 1
                                    THEN {[rows EXCEPT ![r.cookie.sid].open = FALSE]} ELSE {})
          /\ refresh' = [refresh EXCEPT ![t][o].stage = "refused"]
    /\ UNCHANGED <<app, store, cookie, expired, grants, byes, tab, call, shared, strained>>

Waiting(t, o) == {n \in Slots : call[t][n].stage = "waiting" /\ call[t][n].on = o}
Released(t, o) == IF shared[t] = o THEN [shared EXCEPT ![t] = "none"] ELSE shared
Over(t, o) == [refresh EXCEPT ![t][o] = NoRefresh]

\* The rotated token is stored, and every call that waited goes out once more.
RefreshArrives(t, o) ==
    LET r == refresh[t][o]
        u == UserOf(r.cookie)
        cs == [n \in Slots |-> IF n \in Waiting(t, o)
                               THEN Resent(call[t][n], tab[t].acting, r.cookie) ELSE call[t][n]]
    IN
    /\ r.stage = "rotated"
    /\ cookie' = r.cookie
    /\ store' = [store EXCEPT !.token = r.cookie]
    /\ Put(t, [Committed(tab[t], r.cookie, u) EXCEPT !.booting = @ /\ o # "boot"],
              CommittedCalls(tab[t], cs, r.cookie, u))
    /\ shared' = Released(t, o) /\ refresh' = Over(t, o)
    /\ UNCHANGED <<app, server, strained>>

FailedWaiters(t, o, cs) == [n \in Slots |-> IF n \in Waiting(t, o) THEN Idle ELSE cs[n]]

\* Not ok: the session ends on this device, for every tab that reads the store.
RefreshRefused(t, o) ==
    /\ refresh[t][o].stage = "refused"
    /\ cookie' = None
    /\ store' = EmptyStore
    /\ Put(t, [EndedTab(tab[t]) EXCEPT !.booting = @ /\ o # "boot"],
              FailedWaiters(t, o, EndedCalls(call[t])))
    /\ shared' = Released(t, o) /\ refresh' = Over(t, o)
    /\ UNCHANGED <<app, server, strained>>

\* Thirty seconds, or the network: the callers fail, and only boot gives the session up.
RefreshTimesOut(t, o) ==
    LET hydrating == "perms" \in Waiting(t, o) /\ call[t]["perms"].kept IN
    /\ refresh[t][o].stage # "none"
    /\ IF o = "boot"
       THEN /\ store' = EmptyStore
            /\ Put(t, [EndedTab(tab[t]) EXCEPT !.booting = FALSE], EndedCalls(call[t]))
       ELSE /\ Put(t, [tab[t] EXCEPT !.hydrated = @ \/ hydrating],
                      FailedWaiters(t, o, call[t]))
            /\ UNCHANGED store
    /\ shared' = Released(t, o) /\ refresh' = Over(t, o)
    /\ strained' = (app = "console")
    /\ UNCHANGED <<app, cookie, server>>

(***************************************************************************)
(* The world: tokens run out, sessions and grants are revoked elsewhere.   *)
(***************************************************************************)
Troubled == Cardinality(expired) + Cardinality({s \in DOMAIN rows : ~rows[s].open})

Expire ==
    /\ Troubled < MaxTroubles
    /\ store.token # None /\ store.token \notin expired
    /\ expired' = expired \cup {store.token}
    /\ UNCHANGED <<app, store, cookie, rows, grants, byes, tab, call, refresh, shared, strained>>

RevokeRow(s) ==
    /\ Troubled < MaxTroubles /\ rows[s].open
    /\ app = "console"      \* the dashboard's close by replay
    /\ rows' = [rows EXCEPT ![s].open = FALSE]
    /\ UNCHANGED <<app, store, cookie, expired, grants, byes, tab, call, refresh, shared, strained>>

RevokeGrant(g) ==
    /\ g \in DOMAIN grants /\ grants[g].live
    /\ grants' = [grants EXCEPT ![g].live = FALSE]
    /\ UNCHANGED <<app, store, cookie, rows, expired, byes, tab, call, refresh, shared,
                   strained>>

Handled(t, n) ==
    \/ PageAnswered(t, n)
    \/ Entered(t, n)
    \/ Exited(t, n)
    \/ ActingRefused(t, n)
    \/ Refused(t, n)
    \/ RefusedAgain(t, n)
    \/ CallTimesOut(t, n)

Next ==
    \/ \E t \in Tabs :
          \/ \E u \in Users : BeginLogin(t, u)
          \/ LoginAnswered(t) \/ LoginFails(t)
          \/ Logout(t) \/ Listen(t) \/ DismissNotice(t)
          \/ PermissionsAnswered(t)
          \/ \E n \in Slots :
                \/ \E kind \in Kinds(t, n) : BeginCall(t, n, kind)
                \/ BeginTokenless(t, n)
                \/ Handled(t, n)
          \/ \E o \in Starters :
                \/ ServerRotates(t, o) \/ RefreshArrives(t, o)
                \/ RefreshRefused(t, o) \/ RefreshTimesOut(t, o)
    \/ \E token \in byes : LogoutAnswered(token)
    \/ Expire
    \/ \E s \in DOMAIN rows : RevokeRow(s)
    \/ \E g \in DOMAIN grants : RevokeGrant(g)

Spec == Init /\ [][Next]_vars

-----------------------------------------------------------------------------
(* A request a user makes as themself never goes out under an acting token,
   and one made inside a tenant never goes out under the operator's own: the
   retry after a refresh finds the acting session changed and is not sent
   (identityDrifted). *)
NoBorrowedCredential ==
    \A t \in Tabs, n \in Slots :
        OnWire(t, n) => call[t][n].acting = call[t][n].captured

(* Nothing cached was fetched under another identity than the one the tab now
   has - unless the identity changed behind the tab's back, in another tab or
   by a refresh that came home late (query-client.ts, auth-context.tsx). *)
CacheIsOwn ==
    \A t \in Tabs :
        ~tab[t].behind /\ User(t) = UserOf(store.token) =>
            tab[t].cache \subseteq {Identity(tab[t].acting, tab[t].seen)}

(* The console never spends its own session: as long as every answer arrived,
   no 401 asked beside the refresh at boot and the cookie is there, a refresh is
   refused only for a session closed on the server, whatever burst of 401s
   asked for it (sharedRefresh). *)
NoSelfRefusal ==
    app = "console" /\ ~strained =>
        \A t \in Tabs, o \in Starters :
            LET r == refresh[t][o] IN
            r.stage = "refused" /\ r.cookie # None =>
                ~rows[r.cookie.sid].open \/ UserOf(r.token) # rows[r.cookie.sid].user

(* Nobody waits for nothing: a signed-in tab that shows "Resolving permissions"
   has a request for them on its way whose answer will be taken, and a call
   that waits for a refresh waits for one that is in flight (auth-context.tsx,
   route-guard.tsx, sharedRefresh). *)
NobodyWaitsForNothing ==
    \A t \in Tabs :
        /\ tab[t].seen # None /\ ~tab[t].hydrated /\ tab[t].login = NoUser =>
              call[t]["perms"].stage # "idle" /\ call[t]["perms"].kept
        /\ \A n \in Slots : call[t][n].stage = "waiting" =>
              refresh[t][call[t][n].on].stage # "none"

(* Whoever's request it is, whoever's answer is shown: both are the user's and
   the acting session's the tab is in. *)
IdentitiesAgree == TypeOK /\ NoBorrowedCredential /\ CacheIsOwn
=============================================================================
