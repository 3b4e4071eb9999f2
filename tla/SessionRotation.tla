--------------------------- MODULE SessionRotation ---------------------------
(***************************************************************************)
(* The refresh credentials of one user: SessionService on the UserSessions *)
(* table, with the sign-in, password and account-status handlers around    *)
(* it.  Tokens of a session are numbered in the order they were issued; a  *)
(* row keeps the hash of the current one and of the one before.  Reads and *)
(* saves of one request are steps of their own, and a request may die at   *)
(* any await without leaving more than the saves it made.                  *)
(***************************************************************************)
EXTENDS Integers, FiniteSets

CONSTANTS
    Sessions,   \* session ids
    Requests,   \* requests in flight at once
    MaxTokens,  \* bound: tokens issued per session
    MaxStamps,  \* bound: security stamps of the user
    Lifetime,   \* RefreshTokenDays, in ticks
    KeepFor     \* ticks an expired row is kept (30 days)

ASSUME ParametersAssumption ==
    /\ MaxTokens \in Nat \ {0} /\ MaxStamps \in Nat \ {0}
    /\ Lifetime \in Nat \ {0}  /\ KeepFor \in Nat \ {0}

VARIABLES
    sess,      \* the UserSessions table
    user,      \* the user's row: SecurityStamp and IsActive
    req,       \* requests in flight
    wins,      \* observation: rotations each token has won, up to 2
    late,      \* observation: rotations won after the session's stamp was outdated, up to 2
    ended      \* observation: sessions some request reported revoked

vars == <<sess, user, req, wins, late, ended>>
seen == <<wins, late, ended>>

Tokens == 1..MaxTokens
Stamps == 1..MaxStamps

Row == [at : {"none", "stored", "deleted"},
        hash : Tokens,          \* RefreshTokenHash
        prev : {0} \cup Tokens, \* PreviousTokenHash
        stamp : Stamps,         \* the user's stamp when the session was created
        revoked : BOOLEAN,
        left : (-KeepFor)..Lifetime]   \* ticks until ExpiresAt

User == [stamp : Stamps, active : BOOLEAN]

Positions == {"idle", "stamp", "swap", "revoke", "saving",
              "signIn", "open", "password", "deactivate", "savingStatus", "reactivate"}

\* What a request carries between its steps.
Request == [pc : Positions,
            batch : SUBSET Sessions,        \* the session, or sessions, it loaded
            token : {0} \cup Tokens,
            stamp : {0} \cup Stamps,
            read : User]

Free == [pc |-> "idle", batch |-> {}, token |-> 0, stamp |-> 0,
         read |-> [stamp |-> 1, active |-> FALSE]]

Init ==
    /\ sess = [s \in Sessions |-> [at |-> "none", hash |-> 1, prev |-> 0, stamp |-> 1,
                                   revoked |-> FALSE, left |-> 0]]
    /\ user = [stamp |-> 1, active |-> TRUE]
    /\ req = [r \in Requests |-> Free]
    /\ wins = [t \in Sessions \X Tokens |-> 0]
    /\ late = [s \in Sessions |-> 0]
    /\ ended = {}

Stored(s) == sess[s].at = "stored"
Unrevoked == {s \in Sessions : Stored(s) /\ ~sess[s].revoked}

Starts(r, state) == req[r].pc = "idle" /\ req' = [req EXCEPT ![r] = state]
Goes(r, pc) == req' = [req EXCEPT ![r].pc = pc]
Ends(r) == req' = [req EXCEPT ![r] = Free]
Counted(n) == IF n < 2 THEN n + 1 ELSE n

-----------------------------------------------------------------------------
(* Sign-in. *)

\* Mutant: the session is opened without the stamp.
SignInWithoutStamp(r) ==
    /\ user.active
    /\ Starts(r, [Free EXCEPT !.pc = "open"])
    /\ UNCHANGED <<sess, user, seen>>

\* The credentials are checked against an active user.
SignIn(r) ==
    /\ user.active
    /\ Starts(r, [Free EXCEPT !.pc = "signIn"])
    /\ UNCHANGED <<sess, user, seen>>

CreateSessionReadsStamp(r) ==
    /\ req[r].pc = "signIn"
    /\ req' = [req EXCEPT ![r].pc = "open", ![r].stamp = user.stamp]
    /\ UNCHANGED <<sess, user, seen>>

CreateSession(r, s) ==
    /\ req[r].pc = "open"
    /\ sess[s].at = "none"
    /\ sess' = [sess EXCEPT ![s] = [at |-> "stored", hash |-> 1, prev |-> 0,
                                    stamp |-> req[r].stamp, revoked |-> FALSE,
                                    left |-> Lifetime]]
    /\ Ends(r)
    /\ UNCHANGED <<user, seen>>

-----------------------------------------------------------------------------
(* RotateRefreshTokenAsync. *)

\* The candidate matches by its current hash, is not revoked and not expired.
RotateFindsCurrent(r, s) ==
    /\ s \in Unrevoked /\ sess[s].left > 0
    /\ sess[s].hash < MaxTokens
    /\ Starts(r, [Free EXCEPT !.pc = "stamp", !.batch = {s}, !.token = sess[s].hash,
                              !.stamp = sess[s].stamp])
    /\ UNCHANGED <<sess, user, seen>>

\* It matches by the hash it rotated away from: the session is revoked.
RotateFindsSpent(r, s) ==
    /\ Stored(s) /\ sess[s].prev # 0
    /\ Starts(r, [Free EXCEPT !.pc = "revoke", !.batch = {s}])
    /\ UNCHANGED <<sess, user, seen>>

\* Mutant: the stamps are not compared.
ReadsNoStamp(r) ==
    /\ req[r].pc = "stamp"
    /\ Goes(r, "swap")
    /\ UNCHANGED <<sess, user, seen>>

RotateReadsStamp(r) ==
    /\ req[r].pc = "stamp"
    /\ Goes(r, IF user.stamp = req[r].stamp THEN "swap" ELSE "revoke")
    /\ UNCHANGED <<sess, user, seen>>

\* Mutants: the UPDATE does not compare the token; it does not ask for revocation.
StampAsRead(r, s) == s \in Unrevoked /\ sess[s].stamp = req[r].stamp
TokenAsRead(r, s) == Stored(s) /\ sess[s].hash = req[r].token /\ sess[s].stamp = req[r].stamp

\* The predicate of the UPDATE.  Its expiry test uses the time the request
\* started at, which the read has tested.
StillAsRead(r, s) ==
    s \in Unrevoked /\ sess[s].hash = req[r].token /\ sess[s].stamp = req[r].stamp

RotateSwaps(r) ==
    LET token == req[r].token IN
    /\ req[r].pc = "swap"
    /\ \E s \in req[r].batch :
         IF StillAsRead(r, s)
         THEN /\ sess' = [sess EXCEPT ![s] = [@ EXCEPT !.prev = token, !.hash = token + 1,
                                                       !.left = Lifetime]]
              /\ wins' = [wins EXCEPT ![<<s, token>>] = Counted(@)]
              /\ late' = [late EXCEPT ![s] = IF sess[s].stamp # user.stamp
                                             THEN Counted(@) ELSE @]
         ELSE UNCHANGED <<sess, wins, late>>
    /\ Ends(r)
    /\ UNCHANGED <<user, ended>>

-----------------------------------------------------------------------------
(* Revocation: load what is not revoked, mark it, save. *)

\* RevokeAsync, from a rotation that found a spent token or an outdated stamp.
RevokeLoads(r) ==
    /\ req[r].pc = "revoke"
    /\ IF req[r].batch \subseteq Unrevoked
       THEN Goes(r, "saving") /\ UNCHANGED ended
       ELSE Ends(r) /\ ended' = ended \cup req[r].batch
    /\ UNCHANGED <<sess, user, wins, late>>

\* Logout takes the current token or the one before it.
RevokeSessionByRefreshToken(r, s, token) ==
    /\ s \in Unrevoked /\ token \in {sess[s].hash, sess[s].prev}
    /\ Starts(r, [Free EXCEPT !.pc = "saving", !.batch = {s}])
    /\ UNCHANGED <<sess, user, seen>>

\* By id, by the user or an administrator; all of them, or all but one.
RevokeSessions(r, batch) ==
    /\ \/ \E s \in Unrevoked : batch = {s}
       \/ batch = Unrevoked
       \/ \E s \in Unrevoked : batch = Unrevoked \ {s}
    /\ batch # {}
    /\ Starts(r, [Free EXCEPT !.pc = "saving", !.batch = batch])
    /\ UNCHANGED <<sess, user, seen>>

\* Mutant: an expired session is skipped.
RevokedIfUnexpired(batch) ==
    [s \in Sessions |-> [sess[s] EXCEPT !.revoked = @ \/ (s \in batch /\ sess[s].left > 0)]]

Revoked(batch) == [s \in Sessions |-> IF s \in batch THEN [sess[s] EXCEPT !.revoked = TRUE]
                                                     ELSE sess[s]]

\* One save for the batch; it throws when a row is gone.
RevokeSaves(r) ==
    LET batch == req[r].batch IN
    /\ req[r].pc = "saving"
    /\ IF \A s \in batch : Stored(s)
       THEN sess' = Revoked(batch) /\ ended' = ended \cup batch
       ELSE UNCHANGED <<sess, ended>>
    /\ Ends(r)
    /\ UNCHANGED <<user, wins, late>>

-----------------------------------------------------------------------------
(* The user's own row, saved only where it is still what was read. *)

ReadsUser(r, pc) ==
    /\ Starts(r, [Free EXCEPT !.pc = pc, !.read = user])
    /\ UNCHANGED <<sess, user, seen>>

MayRestamp == user.stamp < MaxStamps

\* A password change or reset, or a change of two-factor settings.
ChangePassword(r) == MayRestamp /\ ReadsUser(r, "password")

ChangePasswordSaves(r) ==
    /\ req[r].pc = "password"
    /\ IF user = req[r].read THEN user' = [user EXCEPT !.stamp = @ + 1] ELSE UNCHANGED user
    /\ Ends(r)
    /\ UNCHANGED <<sess, seen>>

Deactivate(r) == MayRestamp /\ ReadsUser(r, "deactivate")

DeactivateLoadsSessions(r) ==
    /\ req[r].pc = "deactivate"
    /\ req' = [req EXCEPT ![r].pc = "savingStatus", ![r].batch = Unrevoked]
    /\ UNCHANGED <<sess, user, seen>>

\* Status, stamp and revocations ride on one save.
DeactivateSaves(r) ==
    LET batch == req[r].batch IN
    /\ req[r].pc = "savingStatus"
    /\ IF user = req[r].read /\ \A s \in batch : Stored(s)
       THEN /\ user' = [stamp |-> user.stamp + 1, active |-> FALSE]
            /\ sess' = Revoked(batch)
            /\ ended' = ended \cup batch
       ELSE UNCHANGED <<user, sess, ended>>
    /\ Ends(r)
    /\ UNCHANGED <<wins, late>>

\* Reactivating an active user changes nothing that is kept here.
Reactivate(r) == ~user.active /\ ReadsUser(r, "reactivate")

ReactivateSaves(r) ==
    /\ req[r].pc = "reactivate"
    /\ IF user = req[r].read THEN user' = [user EXCEPT !.active = TRUE] ELSE UNCHANGED user
    /\ Ends(r)
    /\ UNCHANGED <<sess, seen>>

-----------------------------------------------------------------------------

\* An await throws, the caller hangs up or the process stops.
RequestDies(r) ==
    /\ req[r].pc # "idle"
    /\ Ends(r)
    /\ UNCHANGED <<sess, user, seen>>

CleanupExpiredSessions ==
    LET old == {s \in Sessions : Stored(s) /\ sess[s].left = -KeepFor} IN
    /\ old # {}
    /\ sess' = [s \in Sessions |-> IF s \in old THEN [sess[s] EXCEPT !.at = "deleted"]
                                                ELSE sess[s]]
    /\ UNCHANGED <<user, req, seen>>

Tick ==
    /\ sess' = [s \in Sessions |->
                  IF Stored(s) /\ sess[s].left > -KeepFor
                  THEN [sess[s] EXCEPT !.left = @ - 1] ELSE sess[s]]
    /\ UNCHANGED <<user, req, seen>>

Next ==
    \/ \E r \in Requests, s \in Sessions :
         \/ CreateSession(r, s)
         \/ RotateFindsCurrent(r, s)
         \/ RotateFindsSpent(r, s)
         \/ \E token \in Tokens : RevokeSessionByRefreshToken(r, s, token)
    \/ \E r \in Requests :
         \/ SignIn(r)
         \/ CreateSessionReadsStamp(r)
         \/ RotateReadsStamp(r)
         \/ RotateSwaps(r)
         \/ RevokeLoads(r)
         \/ \E batch \in SUBSET Sessions : RevokeSessions(r, batch)
         \/ RevokeSaves(r)
         \/ ChangePassword(r) \/ ChangePasswordSaves(r)
         \/ Deactivate(r) \/ DeactivateLoadsSessions(r) \/ DeactivateSaves(r)
         \/ Reactivate(r) \/ ReactivateSaves(r)
         \/ RequestDies(r)
    \/ CleanupExpiredSessions
    \/ Tick

Spec == Init /\ [][Next]_vars

-----------------------------------------------------------------------------
(* Properties. *)

TypeOK ==
    /\ sess \in [Sessions -> Row]
    /\ user \in User
    /\ req \in [Requests -> Request]
    /\ wins \in [Sessions \X Tokens -> 0..2]
    /\ late \in [Sessions -> 0..2]
    /\ ended \subseteq Sessions

\* Of all the requests that present one token, at whatever point between read
\* and update they overlap, one gets the next token.
OneWinner == \A t \in Sessions \X Tokens : wins[t] <= 1

\* Revocation is terminal: whatever overlaps it, a revoked session stays
\* revoked and no rotation gives it a new token.
RevokedIsFinal ==
    [][\A s \in Sessions : sess[s].revoked => sess'[s].revoked /\ sess'[s].hash = sess[s].hash]_vars

\* A revocation that was reported - a logout, a replayed token, a sign-out
\* everywhere, a deactivation - has really ended the session.
EndedMeansEnded ==
    \A s \in ended : sess[s].revoked \/ sess[s].at = "deleted"

\* A rotation that read the stamp before a password change may still win, but
\* only once: the token it yields comes too late for any request that passed
\* the check, so the session dies at its next use.
AtMostOneLateRotation == \A s \in Sessions : late[s] <= 1
=============================================================================
