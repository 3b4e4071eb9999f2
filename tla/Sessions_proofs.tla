---------------------------- MODULE Sessions_proofs ----------------------------
(***************************************************************************)
(* Proofs about SessionRotation, for every set of sessions and requests    *)
(* and every value of the bounds, and about SessionLiveness, for every     *)
(* number of instances and lookups, every cache duration, latency and      *)
(* lifetime: how long a cached answer may admit a revoked session or       *)
(* refuse a renewed one.                                                   *)
(***************************************************************************)
EXTENDS SessionRotation, SessionLiveness, TLAPS

-----------------------------------------------------------------------------
(* The session rows. *)


\* What a request loaded is a row that was stored, and a rotation holds one row, a token
\* that may be followed by another, and the stamp of its row.
Holds(r) ==
    /\ req[r].pc \in {"stamp", "swap", "revoke"} => \E s \in Sessions : req[r].batch = {s}
    /\ \A s \in req[r].batch : sess[s].at # "none"
    /\ req[r].pc \in {"stamp", "swap"} =>
         /\ req[r].token \in Tokens /\ req[r].token < MaxTokens
         /\ \A s \in req[r].batch : /\ req[r].token <= sess[s].hash
                                    /\ req[r].stamp = sess[s].stamp

\* The stamps a request read are the user's, or older; one that will save another stamp
\* read one that has a successor.
Stamped(r) ==
    /\ req[r].pc = "open" => req[r].stamp \in Stamps /\ req[r].stamp <= user.stamp
    /\ req[r].pc \in {"password", "deactivate", "savingStatus"} => req[r].read.stamp < MaxStamps

RequestInv == \A r \in Requests : Holds(r) /\ Stamped(r)

\* Nothing has happened to a session that does not exist yet; none has a newer stamp than
\* the user.
RowInv ==
    \A s \in Sessions :
        /\ sess[s].at = "none" =>
             /\ ~sess[s].revoked /\ late[s] = 0 /\ s \notin ended
             /\ \A t \in Tokens : wins[<<s, t>>] = 0
        /\ sess[s].stamp <= user.stamp

\* A token that has won was rotated away from: the current one has not won.
WonInv ==
    \A s \in Sessions : \A t \in Tokens :
        wins[<<s, t>>] <= 1 /\ (wins[<<s, t>>] > 0 => t < sess[s].hash)

\* After a late rotation the stamp of the session stays outdated, and no rotation that
\* passed the check holds the token it yielded.
LateInv ==
    \A s \in Sessions :
        /\ late[s] <= 1
        /\ late[s] > 0 =>
             /\ sess[s].stamp < user.stamp
             /\ \A r \in Requests :
                  req[r].pc = "swap" /\ s \in req[r].batch => req[r].token < sess[s].hash

IInv == TypeOK /\ RequestInv /\ RowInv /\ WonInv /\ LateInv /\ EndedMeansEnded

-----------------------------------------------------------------------------
\* A free request slot is well typed.
LEMMA FreeType == Free \in Request
BY ParametersAssumption DEF Free, Request, Positions, User, Stamps

\* The initial state has all of it.
LEMMA InitHolds == Init => IInv
<1> SUFFICES ASSUME Init PROVE IInv
  OBVIOUS
<1>1. TypeOK
  BY FreeType, ParametersAssumption DEF Init, TypeOK, Row, User, Tokens, Stamps
<1>2. RequestInv
  BY DEF Init, RequestInv, Holds, Stamped, Free
<1>3. RowInv /\ WonInv /\ LateInv /\ EndedMeansEnded
  BY ParametersAssumption DEF Init, RowInv, WonInv, LateInv, EndedMeansEnded, Free, Tokens
<1>. QED
  BY <1>1, <1>2, <1>3 DEF IInv

-----------------------------------------------------------------------------
(* What the steps write. *)

\* Revoking some rows leaves all else of them, and of the others, as it is.
LEMMA RevokedEffect ==
    ASSUME TypeOK, NEW batch \in SUBSET Sessions
    PROVE  /\ Revoked(batch) \in [Sessions -> Row]
           /\ \A s \in Sessions :
                /\ Revoked(batch)[s].at = sess[s].at
                /\ Revoked(batch)[s].hash = sess[s].hash
                /\ Revoked(batch)[s].stamp = sess[s].stamp
                /\ Revoked(batch)[s].revoked = (sess[s].revoked \/ s \in batch)
<1>1. \A s \in Sessions : sess[s] \in Row
  BY DEF TypeOK
<1>2. \A s \in Sessions : [sess[s] EXCEPT !.revoked = TRUE] \in Row
  BY <1>1 DEF Row
<1>. QED
  BY <1>1, <1>2 DEF Revoked, Row

\* The cleanup deletes rows and changes nothing else of them.
LEMMA CleanupEffect ==
    ASSUME TypeOK, CleanupExpiredSessions
    PROVE  /\ sess' \in [Sessions -> Row]
           /\ \A s \in Sessions :
                /\ sess'[s].at \in {sess[s].at, "deleted"}
                /\ sess'[s].at # sess[s].at => sess[s].at = "stored"
                /\ sess'[s].hash = sess[s].hash /\ sess'[s].stamp = sess[s].stamp
                /\ sess'[s].revoked = sess[s].revoked
<1>1. \A s \in Sessions : sess[s] \in Row
  BY DEF TypeOK
<1>2. \A s \in Sessions : [sess[s] EXCEPT !.at = "deleted"] \in Row
  BY <1>1 DEF Row
<1>. QED
  BY <1>1, <1>2 DEF CleanupExpiredSessions, Stored, Row

\* Time passing brings expiry nearer and changes nothing else.
LEMMA TickEffect ==
    ASSUME TypeOK, Tick
    PROVE  /\ sess' \in [Sessions -> Row]
           /\ \A s \in Sessions :
                /\ sess'[s].at = sess[s].at
                /\ sess'[s].hash = sess[s].hash /\ sess'[s].stamp = sess[s].stamp
                /\ sess'[s].revoked = sess[s].revoked
<1>1. \A s \in Sessions : sess[s] \in Row
  BY DEF TypeOK
<1>2. \A s \in Sessions :
        sess[s].left > -KeepFor => [sess[s] EXCEPT !.left = @ - 1] \in Row
  BY <1>1, ParametersAssumption DEF Row
<1>. QED
  BY <1>1, <1>2 DEF Tick, Stored, Row

\* A swap either changes nothing, or gives the one session of the request the token after
\* the one it had, which it counts as a win, and as a late one if the stamps differ.
LEMMA SwapEffect ==
    ASSUME TypeOK, RequestInv, NEW r \in Requests, RotateSwaps(r)
    PROVE  \/ UNCHANGED <<sess, wins, late>>
           \/ \E s \in Sessions : LET token == req[r].token IN
                /\ req[r].batch = {s} /\ token = sess[s].hash
                /\ token \in Tokens /\ token + 1 \in Tokens
                /\ sess[s].at = "stored" /\ ~sess[s].revoked
                /\ sess' = [sess EXCEPT ![s] = [@ EXCEPT !.prev = token, !.hash = token + 1,
                                                         !.left = Lifetime]]
                /\ wins' = [wins EXCEPT ![<<s, token>>] = Counted(@)]
                /\ late' = [late EXCEPT ![s] = IF sess[s].stamp # user.stamp
                                               THEN Counted(@) ELSE @]
<1>1. PICK s \in Sessions : req[r].batch = {s}
  BY DEF RotateSwaps, RequestInv, Holds
<1>2. req[r].token \in Tokens /\ req[r].token + 1 \in Tokens
  BY ParametersAssumption DEF RotateSwaps, RequestInv, Holds, Tokens
<1>. QED
  BY <1>1, <1>2 DEF RotateSwaps, StillAsRead, Unrevoked, Stored

\* It keeps the types.
LEMMA SwapType ==
    ASSUME TypeOK, RequestInv, NEW r \in Requests, RotateSwaps(r)
    PROVE  /\ sess' \in [Sessions -> Row]
           /\ wins' \in [Sessions \X Tokens -> 0..2]
           /\ late' \in [Sessions -> 0..2]
<1>1. CASE UNCHANGED <<sess, wins, late>>
  BY <1>1 DEF TypeOK
<1>2. CASE ~UNCHANGED <<sess, wins, late>>
  <2>1. PICK s \in Sessions : LET token == req[r].token IN
          /\ token \in Tokens /\ token + 1 \in Tokens
          /\ sess' = [sess EXCEPT ![s] = [@ EXCEPT !.prev = token, !.hash = token + 1,
                                                   !.left = Lifetime]]
          /\ wins' = [wins EXCEPT ![<<s, token>>] = Counted(@)]
          /\ late' = [late EXCEPT ![s] = IF sess[s].stamp # user.stamp
                                         THEN Counted(@) ELSE @]
    BY <1>2, SwapEffect
  <2>2. sess[s] \in Row
    BY DEF TypeOK
  <2>3. [sess[s] EXCEPT !.prev = req[r].token, !.hash = req[r].token + 1,
                        !.left = Lifetime] \in Row
    <3>1. Lifetime \in (-KeepFor)..Lifetime
      BY ParametersAssumption
    <3>. QED
      BY <2>1, <2>2, <3>1 DEF Row
  <2>4. sess' \in [Sessions -> Row]
    BY <2>1, <2>3 DEF TypeOK
  <2>5. wins' \in [Sessions \X Tokens -> 0..2]
    BY <2>1 DEF TypeOK, Counted
  <2>6. late' \in [Sessions -> 0..2]
    <3>1. late' = [late EXCEPT ![s] = Counted(late[s])] \/ late' = late
      BY <2>1 DEF TypeOK
    <3>2. Counted(late[s]) \in 0..2
      BY DEF TypeOK, Counted
    <3>. QED
      BY <3>1, <3>2 DEF TypeOK
  <2>. QED
    BY <2>4, <2>5, <2>6
<1>. QED
  BY <1>1, <1>2

\* A save that revokes changes rows to revoked only, and reports no other as ended.
LEMMA SaveEffect ==
    ASSUME TypeOK, RequestInv, NEW r \in Requests, RevokeSaves(r) \/ DeactivateSaves(r)
    PROVE  /\ \A s \in Sessions :
                /\ sess'[s].at = sess[s].at
                /\ sess[s].at = "none" => s \notin req[r].batch
                /\ sess'[s].hash = sess[s].hash /\ sess'[s].stamp = sess[s].stamp
                /\ sess'[s].revoked => sess[s].revoked \/ s \in req[r].batch
                /\ sess[s].revoked => sess'[s].revoked
                /\ s \in ended' => s \in ended \/ (s \in req[r].batch /\ sess'[s].revoked)
           /\ UNCHANGED <<wins, late>>
<1>1. req[r].batch \in SUBSET Sessions
  BY DEF TypeOK, Request
<1>2. \A s \in req[r].batch : sess[s].at # "none"
  BY DEF RequestInv, Holds
<1>3. \/ UNCHANGED <<sess, ended>>
      \/ sess' = Revoked(req[r].batch) /\ ended' = ended \cup req[r].batch
  BY DEF RevokeSaves, DeactivateSaves
<1>4. UNCHANGED <<wins, late>>
  BY DEF RevokeSaves, DeactivateSaves
<1>5. CASE UNCHANGED <<sess, ended>>
  BY <1>2, <1>4, <1>5
<1>6. CASE sess' = Revoked(req[r].batch) /\ ended' = ended \cup req[r].batch
  <2>1. \A s \in Sessions :
          /\ sess'[s].at = sess[s].at /\ sess'[s].hash = sess[s].hash
          /\ sess'[s].stamp = sess[s].stamp
          /\ sess'[s].revoked = (sess[s].revoked \/ s \in req[r].batch)
    BY <1>1, <1>6, RevokedEffect
  <2>. QED
    BY <1>2, <1>4, <1>6, <2>1
<1>. QED
  BY <1>3, <1>5, <1>6

\* Whoever saves the user's row with a new stamp read one that has a successor.
LEMMA UserType ==
    ASSUME TypeOK, RequestInv, NEW r \in Requests,
           req[r].pc \in {"password", "deactivate", "savingStatus"}, user = req[r].read
    PROVE  user.stamp + 1 \in Stamps
<1>1. user.stamp \in Stamps
  BY DEF TypeOK, User
<1>2. user.stamp < MaxStamps
  BY DEF RequestInv, Stamped
<1>. QED
  BY <1>1, <1>2, ParametersAssumption DEF Stamps

-----------------------------------------------------------------------------
(* Preservation. *)

\* Every step keeps the types.
LEMMA TypeStep ==
    ASSUME TypeOK, RequestInv, [Next]_vars
    PROVE  TypeOK'
<1> USE ParametersAssumption, FreeType DEF seen, TypeOK, Row, User, Request, Positions,
           Tokens, Stamps, Free
<1>1. ASSUME NEW r \in Requests, NEW s \in Sessions, CreateSession(r, s)
      PROVE  TypeOK'
  BY <1>1 DEF CreateSession, Ends, RequestInv, Stamped
<1>2. ASSUME NEW r \in Requests, NEW s \in Sessions, RotateFindsCurrent(r, s)
      PROVE  TypeOK'
  BY <1>2 DEF RotateFindsCurrent, Starts, Unrevoked, Stored
<1>3. ASSUME NEW r \in Requests, NEW s \in Sessions, RotateFindsSpent(r, s)
      PROVE  TypeOK'
  BY <1>3 DEF RotateFindsSpent, Starts, Stored
<1>4. ASSUME NEW r \in Requests, NEW s \in Sessions,
             NEW token \in Tokens, RevokeSessionByRefreshToken(r, s, token)
      PROVE  TypeOK'
  BY <1>4 DEF RevokeSessionByRefreshToken, Starts, Unrevoked, Stored
<1>5. ASSUME NEW r \in Requests, SignIn(r)
      PROVE  TypeOK'
  BY <1>5 DEF SignIn, Starts
<1>6. ASSUME NEW r \in Requests, CreateSessionReadsStamp(r)
      PROVE  TypeOK'
  BY <1>6, ZenonT(40) DEF CreateSessionReadsStamp
<1>7. ASSUME NEW r \in Requests, RotateReadsStamp(r)
      PROVE  TypeOK'
  BY <1>7 DEF RotateReadsStamp, Goes
<1>8. ASSUME NEW r \in Requests, RotateSwaps(r)
      PROVE  TypeOK'
  <2>1. req' \in [Requests -> Request]
    BY <1>8 DEF RotateSwaps, Ends
  <2>. QED
    BY <1>8, <2>1, SwapType DEF RotateSwaps
<1>9. ASSUME NEW r \in Requests, RevokeLoads(r)
      PROVE  TypeOK'
  <2>1. req[r] \in Request
    OBVIOUS
  <2>2. req' \in [Requests -> Request]
    <3>1. \/ req' = [req EXCEPT ![r].pc = "saving"]
          \/ req' = [req EXCEPT ![r] = Free]
      BY <1>9 DEF RevokeLoads, Goes, Ends
    <3>2. CASE req' = [req EXCEPT ![r].pc = "saving"]
      BY <2>1, <3>2
    <3>3. CASE req' = [req EXCEPT ![r] = Free]
      BY <3>3
    <3>. QED
      BY <3>1, <3>2, <3>3
  <2>. QED
    BY <1>9, <2>1, <2>2 DEF RevokeLoads, Unrevoked, Stored
<1>10. ASSUME NEW r \in Requests, NEW batch \in SUBSET Sessions, RevokeSessions(r, batch)
      PROVE  TypeOK'
  BY <1>10 DEF RevokeSessions, Starts, Unrevoked, Stored
<1>11. ASSUME NEW r \in Requests, RevokeSaves(r)
      PROVE  TypeOK'
  <2>1. req[r].batch \in SUBSET Sessions
    OBVIOUS
  <2>2. req' \in [Requests -> Request]
    BY <1>11 DEF RevokeSaves, Ends
  <2>3. sess' \in [Sessions -> Row] /\ ended' \subseteq Sessions
    BY <1>11, <2>1, RevokedEffect DEF RevokeSaves
  <2>. QED
    BY <1>11, <2>2, <2>3 DEF RevokeSaves
<1>12. ASSUME NEW r \in Requests, ChangePassword(r)
      PROVE  TypeOK'
  BY <1>12 DEF ChangePassword, ReadsUser, Starts, MayRestamp
<1>13. ASSUME NEW r \in Requests, ChangePasswordSaves(r)
      PROVE  TypeOK'
  <2>1. req' \in [Requests -> Request]
    BY <1>13 DEF ChangePasswordSaves, Ends
  <2>2. user' \in User
    BY <1>13 DEF ChangePasswordSaves, RequestInv, Stamped
  <2>. QED
    BY <1>13, <2>1, <2>2 DEF ChangePasswordSaves
<1>14. ASSUME NEW r \in Requests, Deactivate(r)
      PROVE  TypeOK'
  BY <1>14 DEF Deactivate, ReadsUser, Starts, MayRestamp
<1>15. ASSUME NEW r \in Requests, DeactivateLoadsSessions(r)
      PROVE  TypeOK'
  BY <1>15, ZenonT(40) DEF DeactivateLoadsSessions, Unrevoked, Stored
<1>16. ASSUME NEW r \in Requests, DeactivateSaves(r)
      PROVE  TypeOK'
  <2>1. req[r].batch \in SUBSET Sessions
    OBVIOUS
  <2>2. req' \in [Requests -> Request]
    BY <1>16 DEF DeactivateSaves, Ends
  <2>3. sess' \in [Sessions -> Row] /\ ended' \subseteq Sessions
    BY <1>16, <2>1, RevokedEffect DEF DeactivateSaves
  <2>4. user' \in User
    <3>1. \/ user' = user
          \/ user = req[r].read /\ user' = [stamp |-> user.stamp + 1, active |-> FALSE]
      BY <1>16 DEF DeactivateSaves
    <3>2. user = req[r].read => user.stamp + 1 \in Stamps
      BY <1>16, UserType DEF DeactivateSaves
    <3>3. CASE user' = user
      BY <3>3
    <3>4. CASE user = req[r].read /\ user' = [stamp |-> user.stamp + 1, active |-> FALSE]
      BY <3>2, <3>4
    <3>. QED
      BY <3>1, <3>3, <3>4
  <2>. QED
    BY <1>16, <2>2, <2>3, <2>4 DEF DeactivateSaves
<1>17. ASSUME NEW r \in Requests, Reactivate(r)
      PROVE  TypeOK'
  BY <1>17 DEF Reactivate, ReadsUser, Starts
<1>18. ASSUME NEW r \in Requests, ReactivateSaves(r)
      PROVE  TypeOK'
  BY <1>18 DEF ReactivateSaves, Ends
<1>19. ASSUME NEW r \in Requests, RequestDies(r)
      PROVE  TypeOK'
  BY <1>19 DEF RequestDies, Ends
<1>20. ASSUME CleanupExpiredSessions
      PROVE  TypeOK'
  BY <1>20, CleanupEffect DEF CleanupExpiredSessions
<1>21. ASSUME Tick
      PROVE  TypeOK'
  BY <1>21, TickEffect DEF Tick
<1>22. CASE UNCHANGED vars
  BY <1>22 DEF vars
<1>. QED
  BY <1>1, <1>2, <1>3, <1>4, <1>5, <1>6, <1>7, <1>8, <1>9, <1>10, <1>11, <1>12, <1>13,
     <1>14, <1>15, <1>16, <1>17, <1>18, <1>19, <1>20, <1>21, <1>22 DEF Next

\* Rows do not vanish, tokens are not taken back, a session keeps its stamp and the user's
\* only moves on.
Grows ==
    /\ \A s \in Sessions : sess[s].at # "none" =>
         /\ sess'[s].at # "none" /\ sess'[s].stamp = sess[s].stamp
         /\ sess[s].hash <= sess'[s].hash
    /\ user.stamp <= user'.stamp

\* Every step is such a change.
LEMMA GrowsStep ==
    ASSUME TypeOK, RequestInv, [Next]_vars
    PROVE  Grows
<1> USE DEF Grows, seen
<1>0. /\ \A s \in Sessions : sess[s].hash \in Int
      /\ user \in User /\ user.stamp \in Int
      /\ req \in [Requests -> Request]
  BY DEF TypeOK, Row, User, Tokens, Stamps
<1> USE <1>0
<1>1. ASSUME NEW r \in Requests, NEW s \in Sessions, CreateSession(r, s)
      PROVE  Grows
  BY <1>1 DEF CreateSession
<1>2. ASSUME NEW r \in Requests, NEW s \in Sessions, RotateFindsCurrent(r, s)
      PROVE  Grows
  BY <1>2 DEF RotateFindsCurrent
<1>3. ASSUME NEW r \in Requests, NEW s \in Sessions, RotateFindsSpent(r, s)
      PROVE  Grows
  BY <1>3 DEF RotateFindsSpent
<1>4. ASSUME NEW r \in Requests, NEW s \in Sessions,
             NEW token \in Tokens, RevokeSessionByRefreshToken(r, s, token)
      PROVE  Grows
  BY <1>4 DEF RevokeSessionByRefreshToken
<1>5. ASSUME NEW r \in Requests, SignIn(r)
      PROVE  Grows
  BY <1>5 DEF SignIn
<1>6. ASSUME NEW r \in Requests, CreateSessionReadsStamp(r)
      PROVE  Grows
  BY <1>6 DEF CreateSessionReadsStamp
<1>7. ASSUME NEW r \in Requests, RotateReadsStamp(r)
      PROVE  Grows
  BY <1>7 DEF RotateReadsStamp
<1>8. ASSUME NEW r \in Requests, RotateSwaps(r)
      PROVE  Grows
  <2>1. \A s \in Sessions : sess[s] \in Row
    BY DEF TypeOK
  <2>2. CASE UNCHANGED sess
    BY <1>8, <2>1, <2>2 DEF RotateSwaps, Row, Tokens
  <2>3. CASE ~UNCHANGED sess
    <3>1. PICK s \in Sessions : LET token == req[r].token IN
            /\ token = sess[s].hash
            /\ sess' = [sess EXCEPT ![s] = [@ EXCEPT !.prev = token, !.hash = token + 1,
                                                     !.left = Lifetime]]
      BY <1>8, <2>3, SwapEffect
    <3>. QED
      BY <1>8, <2>1, <3>1 DEF RotateSwaps, Row, Tokens
  <2>. QED
    BY <2>2, <2>3
<1>9. ASSUME NEW r \in Requests, RevokeLoads(r)
      PROVE  Grows
  BY <1>9 DEF RevokeLoads
<1>10. ASSUME NEW r \in Requests, NEW batch \in SUBSET Sessions, RevokeSessions(r, batch)
      PROVE  Grows
  BY <1>10 DEF RevokeSessions
<1>11. ASSUME NEW r \in Requests, RevokeSaves(r)
      PROVE  Grows
  <2>1. req[r].batch \in SUBSET Sessions
    BY DEF Request
  <2>2. sess' = sess \/ sess' = Revoked(req[r].batch)
    BY <1>11 DEF RevokeSaves
  <2>. QED
    BY <1>11, <2>1, <2>2, RevokedEffect DEF RevokeSaves
<1>12. ASSUME NEW r \in Requests, ChangePassword(r)
      PROVE  Grows
  BY <1>12 DEF ChangePassword, ReadsUser
<1>13. ASSUME NEW r \in Requests, ChangePasswordSaves(r)
      PROVE  Grows
  BY <1>13 DEF ChangePasswordSaves, User, Stamps
<1>14. ASSUME NEW r \in Requests, Deactivate(r)
      PROVE  Grows
  BY <1>14 DEF Deactivate, ReadsUser
<1>15. ASSUME NEW r \in Requests, DeactivateLoadsSessions(r)
      PROVE  Grows
  BY <1>15 DEF DeactivateLoadsSessions
<1>16. ASSUME NEW r \in Requests, DeactivateSaves(r)
      PROVE  Grows
  <2>1. req[r].batch \in SUBSET Sessions
    BY DEF Request
  <2>2. sess' = sess \/ sess' = Revoked(req[r].batch)
    BY <1>16 DEF DeactivateSaves
  <2>3. user' = user \/ user'.stamp = user.stamp + 1
    BY <1>16 DEF DeactivateSaves
  <2>4. user.stamp <= user'.stamp
    BY <2>3 DEF User, Stamps
  <2>. QED
    BY <2>1, <2>2, <2>4, RevokedEffect
<1>17. ASSUME NEW r \in Requests, Reactivate(r)
      PROVE  Grows
  BY <1>17 DEF Reactivate, ReadsUser
<1>18. ASSUME NEW r \in Requests, ReactivateSaves(r)
      PROVE  Grows
  BY <1>18 DEF ReactivateSaves, User
<1>19. ASSUME NEW r \in Requests, RequestDies(r)
      PROVE  Grows
  BY <1>19 DEF RequestDies
<1>20. ASSUME CleanupExpiredSessions
      PROVE  Grows
  BY <1>20, CleanupEffect DEF CleanupExpiredSessions
<1>21. ASSUME Tick
      PROVE  Grows
  BY <1>21, TickEffect DEF Tick
<1>22. CASE UNCHANGED vars
  BY <1>22 DEF vars
<1>. QED
  BY <1>1, <1>2, <1>3, <1>4, <1>5, <1>6, <1>7, <1>8, <1>9, <1>10, <1>11, <1>12, <1>13,
     <1>14, <1>15, <1>16, <1>17, <1>18, <1>19, <1>20, <1>21, <1>22 DEF Next

\* What a request holds stays true while others move.
LEMMA HoldsKept ==
    ASSUME TypeOK, TypeOK', RequestInv, Grows, NEW q \in Requests, req'[q] = req[q]
    PROVE  Holds(q)' /\ Stamped(q)'
<1>1. req[q] \in Request /\ user.stamp \in Int /\ user'.stamp \in Int
  BY DEF TypeOK, User, Stamps
<1>2. \A s \in req[q].batch : s \in Sessions /\ sess[s].hash \in Int /\ sess'[s].hash \in Int
  BY <1>1 DEF TypeOK, Request, Row, Tokens
<1>3. Holds(q) /\ Stamped(q)
  BY DEF RequestInv
<1>4. Holds(q)'
  BY <1>1, <1>2, <1>3 DEF Holds, Grows, Request, Tokens
<1>5. Stamped(q)'
  BY <1>1, <1>3 DEF Stamped, Grows, Request, Stamps
<1>. QED
  BY <1>4, <1>5

\* If one request changes, it is enough that what it holds then is true.
LEMMA OneRequest ==
    ASSUME TypeOK, TypeOK', RequestInv, Grows, NEW r \in Requests,
           \A q \in Requests \ {r} : req'[q] = req[q], Holds(r)' /\ Stamped(r)'
    PROVE  RequestInv'
<1>1. \A q \in Requests \ {r} : Holds(q)' /\ Stamped(q)'
  BY HoldsKept
<1>. QED
  BY <1>1 DEF RequestInv

\* A request that ends holds nothing.
LEMMA RequestEnds ==
    ASSUME TypeOK, TypeOK', RequestInv, Grows, NEW r \in Requests, Ends(r)
    PROVE  RequestInv'
<1>1. req' = [req EXCEPT ![r] = Free] /\ req \in [Requests -> Request]
  BY DEF Ends, TypeOK
<1>2. Holds(r)' /\ Stamped(r)'
  BY <1>1 DEF Holds, Stamped, Free
<1>3. \A q \in Requests \ {r} : req'[q] = req[q]
  BY <1>1
<1>. QED
  BY <1>2, <1>3, OneRequest


\* What requests hold stays true.
LEMMA RequestStep ==
    ASSUME TypeOK, RequestInv, [Next]_vars
    PROVE  RequestInv'
<1>0. TypeOK /\ TypeOK' /\ RequestInv /\ Grows
  BY TypeStep, GrowsStep
<1> /\ req \in [Requests -> Request] /\ user \in User
    /\ \A s \in Sessions : sess[s] \in Row
  BY DEF TypeOK
<1>1. ASSUME NEW r \in Requests, NEW s \in Sessions, CreateSession(r, s)
      PROVE  RequestInv'
  BY <1>1, <1>0, RequestEnds DEF CreateSession
<1>2. ASSUME NEW r \in Requests, NEW s \in Sessions, RotateFindsCurrent(r, s)
      PROVE  RequestInv'
  <2>1. req' = [req EXCEPT ![r] =
          [Free EXCEPT !.pc = "stamp", !.batch = {s}, !.token = sess[s].hash,
                       !.stamp = sess[s].stamp]]
    BY <1>2 DEF RotateFindsCurrent, Starts
  <2>2. \A q \in Requests \ {r} : req'[q] = req[q]
    BY <2>1
  <2>3. Holds(r)' /\ Stamped(r)'
    BY <1>2, <2>1 DEF RotateFindsCurrent, Holds, Stamped, Free, Unrevoked, Stored, Row, Tokens
  <2>. QED
    BY <2>2, <2>3, <1>0, OneRequest
<1>3. ASSUME NEW r \in Requests, NEW s \in Sessions, RotateFindsSpent(r, s)
      PROVE  RequestInv'
  <2>1. req' = [req EXCEPT ![r] = [Free EXCEPT !.pc = "revoke", !.batch = {s}]]
    BY <1>3 DEF RotateFindsSpent, Starts
  <2>2. \A q \in Requests \ {r} : req'[q] = req[q]
    BY <2>1
  <2>3. Holds(r)' /\ Stamped(r)'
    BY <1>3, <2>1 DEF RotateFindsSpent, Holds, Stamped, Free, Stored
  <2>. QED
    BY <2>2, <2>3, <1>0, OneRequest
<1>4. ASSUME NEW r \in Requests, NEW s \in Sessions,
             NEW token \in Tokens, RevokeSessionByRefreshToken(r, s, token)
      PROVE  RequestInv'
  <2>1. req' = [req EXCEPT ![r] = [Free EXCEPT !.pc = "saving", !.batch = {s}]]
    BY <1>4 DEF RevokeSessionByRefreshToken, Starts
  <2>2. \A q \in Requests \ {r} : req'[q] = req[q]
    BY <2>1
  <2>3. Holds(r)' /\ Stamped(r)'
    BY <1>4, <2>1 DEF RevokeSessionByRefreshToken, Holds, Stamped, Free, Stored, Unrevoked
  <2>. QED
    BY <2>2, <2>3, <1>0, OneRequest
<1>5. ASSUME NEW r \in Requests, SignIn(r)
      PROVE  RequestInv'
  <2>1. req' = [req EXCEPT ![r] = [Free EXCEPT !.pc = "signIn"]]
    BY <1>5 DEF SignIn, Starts
  <2>2. \A q \in Requests \ {r} : req'[q] = req[q]
    BY <2>1
  <2>3. Holds(r)' /\ Stamped(r)'
    BY <1>5, <2>1 DEF SignIn, Holds, Stamped, Free
  <2>. QED
    BY <2>2, <2>3, <1>0, OneRequest
<1>6. ASSUME NEW r \in Requests, CreateSessionReadsStamp(r)
      PROVE  RequestInv'
  <2>1. req' = [req EXCEPT ![r] = [@ EXCEPT !.pc = "open", !.stamp = user.stamp]]
    BY <1>6 DEF CreateSessionReadsStamp
  <2>2. \A q \in Requests \ {r} : req'[q] = req[q]
    BY <2>1
  <2>3. Holds(r)' /\ Stamped(r)'
    BY <1>6, <2>1 DEF CreateSessionReadsStamp, Holds, Stamped, Free, RequestInv, User, Stamps, Request
  <2>. QED
    BY <2>2, <2>3, <1>0, OneRequest
<1>7. ASSUME NEW r \in Requests, RotateReadsStamp(r)
      PROVE  RequestInv'
  <2>1. \/ req' = [req EXCEPT ![r] = [@ EXCEPT !.pc = "swap"]]
        \/ req' = [req EXCEPT ![r] = [@ EXCEPT !.pc = "revoke"]]
    BY <1>7 DEF RotateReadsStamp, Goes
  <2>2. \A q \in Requests \ {r} : req'[q] = req[q]
    BY <2>1
  <2>3. req[r] \in Request /\ Holds(r) /\ req[r].pc = "stamp" /\ sess' = sess
    BY <1>7 DEF RequestInv, RotateReadsStamp
  <2>4. /\ req'[r].pc \in {"swap", "revoke"} /\ req'[r].batch = req[r].batch
        /\ req'[r].token = req[r].token /\ req'[r].stamp = req[r].stamp
    BY <2>1, <2>3 DEF Request
  <2>5. Holds(r)' /\ Stamped(r)'
    BY <2>3, <2>4 DEF Holds, Stamped
  <2>. QED
    BY <2>2, <2>5, <1>0, OneRequest
<1>8. ASSUME NEW r \in Requests, RotateSwaps(r)
      PROVE  RequestInv'
  BY <1>8, <1>0, RequestEnds DEF RotateSwaps
<1>9. ASSUME NEW r \in Requests, RevokeLoads(r)
      PROVE  RequestInv'
  <2>1. CASE Ends(r)
    BY <2>1, <1>0, RequestEnds
  <2>2. CASE ~Ends(r)
    <3>1. req' = [req EXCEPT ![r] = [@ EXCEPT !.pc = "saving"]] /\ sess' = sess
      BY <1>9, <2>2 DEF RevokeLoads, Goes
    <3>2. \A q \in Requests \ {r} : req'[q] = req[q]
      BY <3>1
    <3>3. req[r] \in Request /\ Holds(r)
      BY DEF RequestInv
    <3>4. req'[r].pc = "saving" /\ req'[r].batch = req[r].batch
      BY <3>1, <3>3 DEF Request
    <3>5. Holds(r)' /\ Stamped(r)'
      BY <3>1, <3>3, <3>4 DEF Holds, Stamped
    <3>. QED
      BY <3>2, <3>5, <1>0, OneRequest
  <2>. QED
    BY <2>1, <2>2
<1>10. ASSUME NEW r \in Requests, NEW batch \in SUBSET Sessions, RevokeSessions(r, batch)
      PROVE  RequestInv'
  <2>1. req' = [req EXCEPT ![r] = [Free EXCEPT !.pc = "saving", !.batch = batch]]
    BY <1>10 DEF RevokeSessions, Starts
  <2>2. \A q \in Requests \ {r} : req'[q] = req[q]
    BY <2>1
  <2>3. Holds(r)' /\ Stamped(r)'
    BY <1>10, <2>1 DEF RevokeSessions, Holds, Stamped, Free, Stored, Unrevoked
  <2>. QED
    BY <2>2, <2>3, <1>0, OneRequest
<1>11. ASSUME NEW r \in Requests, RevokeSaves(r)
      PROVE  RequestInv'
  BY <1>11, <1>0, RequestEnds DEF RevokeSaves
<1>12. ASSUME NEW r \in Requests, ChangePassword(r)
      PROVE  RequestInv'
  <2>1. req' = [req EXCEPT ![r] = [Free EXCEPT !.pc = "password", !.read = user]]
    BY <1>12 DEF ChangePassword, ReadsUser, Starts
  <2>2. \A q \in Requests \ {r} : req'[q] = req[q]
    BY <2>1
  <2>3. Holds(r)' /\ Stamped(r)'
    BY <1>12, <2>1 DEF ChangePassword, Holds, Stamped, Free, MayRestamp, User
  <2>. QED
    BY <2>2, <2>3, <1>0, OneRequest
<1>13. ASSUME NEW r \in Requests, ChangePasswordSaves(r)
      PROVE  RequestInv'
  BY <1>13, <1>0, RequestEnds DEF ChangePasswordSaves
<1>14. ASSUME NEW r \in Requests, Deactivate(r)
      PROVE  RequestInv'
  <2>1. req' = [req EXCEPT ![r] = [Free EXCEPT !.pc = "deactivate", !.read = user]]
    BY <1>14 DEF Deactivate, ReadsUser, Starts
  <2>2. \A q \in Requests \ {r} : req'[q] = req[q]
    BY <2>1
  <2>3. Holds(r)' /\ Stamped(r)'
    BY <1>14, <2>1 DEF Deactivate, Holds, Stamped, Free, MayRestamp, User
  <2>. QED
    BY <2>2, <2>3, <1>0, OneRequest
<1>15. ASSUME NEW r \in Requests, DeactivateLoadsSessions(r)
      PROVE  RequestInv'
  <2>1. req' = [req EXCEPT ![r] = [@ EXCEPT !.pc = "savingStatus", !.batch = Unrevoked]]
    BY <1>15 DEF DeactivateLoadsSessions
  <2>2. \A q \in Requests \ {r} : req'[q] = req[q]
    BY <2>1
  <2>3. req[r] \in Request /\ Stamped(r) /\ req[r].pc = "deactivate" /\ UNCHANGED <<sess, user>>
    BY <1>15 DEF RequestInv, DeactivateLoadsSessions
  <2>4. /\ req'[r].pc = "savingStatus" /\ req'[r].batch = Unrevoked
        /\ req'[r].read = req[r].read
    BY <2>1, <2>3 DEF Request
  <2>5. Holds(r)' /\ Stamped(r)'
    BY <2>3, <2>4 DEF Holds, Stamped, Unrevoked, Stored
  <2>. QED
    BY <2>2, <2>5, <1>0, OneRequest
<1>16. ASSUME NEW r \in Requests, DeactivateSaves(r)
      PROVE  RequestInv'
  BY <1>16, <1>0, RequestEnds DEF DeactivateSaves
<1>17. ASSUME NEW r \in Requests, Reactivate(r)
      PROVE  RequestInv'
  <2>1. req' = [req EXCEPT ![r] = [Free EXCEPT !.pc = "reactivate", !.read = user]]
    BY <1>17 DEF Reactivate, ReadsUser, Starts
  <2>2. \A q \in Requests \ {r} : req'[q] = req[q]
    BY <2>1
  <2>3. Holds(r)' /\ Stamped(r)'
    BY <1>17, <2>1 DEF Reactivate, Holds, Stamped, Free, MayRestamp, User
  <2>. QED
    BY <2>2, <2>3, <1>0, OneRequest
<1>18. ASSUME NEW r \in Requests, ReactivateSaves(r)
      PROVE  RequestInv'
  BY <1>18, <1>0, RequestEnds DEF ReactivateSaves
<1>19. ASSUME NEW r \in Requests, RequestDies(r)
      PROVE  RequestInv'
  BY <1>19, <1>0, RequestEnds DEF RequestDies
<1>20. ASSUME CleanupExpiredSessions
      PROVE  RequestInv'
  BY <1>20, <1>0, HoldsKept DEF CleanupExpiredSessions, RequestInv
<1>21. ASSUME Tick
      PROVE  RequestInv'
  BY <1>21, <1>0, HoldsKept DEF Tick, RequestInv
<1>22. CASE UNCHANGED vars
  BY <1>22, <1>0, HoldsKept DEF vars, RequestInv
<1>. QED
  BY <1>1, <1>2, <1>3, <1>4, <1>5, <1>6, <1>7, <1>8, <1>9, <1>10, <1>11, <1>12, <1>13,
     <1>14, <1>15, <1>16, <1>17, <1>18, <1>19, <1>20, <1>21, <1>22 DEF Next

\* Sessions that do not exist stay blank, and no session overtakes the user.
LEMMA RowStep ==
    ASSUME TypeOK, RequestInv, RowInv, [Next]_vars
    PROVE  RowInv'
<1>0. Grows /\ TypeOK'
  BY TypeStep, GrowsStep
<1> USE DEF RowInv
<1>a. \A s \in Sessions : sess[s].stamp \in Int /\ user.stamp \in Int /\ user'.stamp \in Int
  BY <1>0 DEF TypeOK, Row, User, Stamps
<1> USE <1>a
<1>1. ASSUME NEW r \in Requests, NEW s \in Sessions, CreateSession(r, s)
      PROVE  RowInv'
  <2>1. /\ sess[s].at = "none"
        /\ \A q \in Sessions \ {s} : sess'[q] = sess[q]
        /\ sess'[s].at = "stored" /\ sess'[s].stamp = req[r].stamp /\ sess'[s].hash = 1
        /\ UNCHANGED <<user, wins, late, ended>>
    BY <1>1 DEF CreateSession, TypeOK, seen
  <2>2. req[r].stamp <= user.stamp
    BY <1>1 DEF CreateSession, RequestInv, Stamped
  <2>. QED
    BY <2>1, <2>2
<1>2. ASSUME NEW r \in Requests, NEW s \in Sessions, RotateFindsCurrent(r, s)
      PROVE  RowInv'
  BY <1>2 DEF RotateFindsCurrent, seen
<1>3. ASSUME NEW r \in Requests, NEW s \in Sessions, RotateFindsSpent(r, s)
      PROVE  RowInv'
  BY <1>3 DEF RotateFindsSpent, seen
<1>4. ASSUME NEW r \in Requests, NEW s \in Sessions,
             NEW token \in Tokens, RevokeSessionByRefreshToken(r, s, token)
      PROVE  RowInv'
  BY <1>4 DEF RevokeSessionByRefreshToken, seen
<1>5. ASSUME NEW r \in Requests, SignIn(r)
      PROVE  RowInv'
  BY <1>5 DEF SignIn, seen
<1>6. ASSUME NEW r \in Requests, CreateSessionReadsStamp(r)
      PROVE  RowInv'
  BY <1>6 DEF CreateSessionReadsStamp, seen
<1>7. ASSUME NEW r \in Requests, RotateReadsStamp(r)
      PROVE  RowInv'
  BY <1>7 DEF RotateReadsStamp, seen
<1>8. ASSUME NEW r \in Requests, RotateSwaps(r)
      PROVE  RowInv'
  <2>1. CASE UNCHANGED <<sess, wins, late>>
    BY <1>8, <2>1 DEF RotateSwaps
  <2>2. CASE ~UNCHANGED <<sess, wins, late>>
    <3>1. PICK s \in Sessions : LET token == req[r].token IN
            /\ req[r].batch = {s} /\ token = sess[s].hash
            /\ token \in Tokens /\ token + 1 \in Tokens
            /\ sess[s].at = "stored" /\ ~sess[s].revoked
            /\ sess' = [sess EXCEPT ![s] = [@ EXCEPT !.prev = token, !.hash = token + 1,
                                                     !.left = Lifetime]]
            /\ wins' = [wins EXCEPT ![<<s, token>>] = Counted(@)]
            /\ late' = [late EXCEPT ![s] = IF sess[s].stamp # user.stamp
                                           THEN Counted(@) ELSE @]
      BY <1>8, <2>2, SwapEffect
    <3>2. \A q \in Sessions :
            /\ sess'[q].at = sess[q].at /\ sess'[q].stamp = sess[q].stamp
            /\ sess'[q].revoked = sess[q].revoked
            /\ sess'[q].hash = IF q = s THEN sess[s].hash + 1 ELSE sess[q].hash
      BY <3>1 DEF TypeOK, Row
    <3>3. \A q \in Sessions : sess[q].at = "none" => late'[q] = late[q]
      BY <3>1 DEF TypeOK
    <3>4. \A q \in Sessions, t \in Tokens :
            sess[q].at = "none" => wins'[<<q, t>>] = wins[<<q, t>>]
      BY <3>1 DEF TypeOK
    <3>. QED
      BY <1>8, <3>2, <3>3, <3>4 DEF RotateSwaps
  <2>. QED
    BY <2>1, <2>2
<1>9. ASSUME NEW r \in Requests, RevokeLoads(r)
      PROVE  RowInv'
  <2>1. \A s \in req[r].batch : sess[s].at # "none"
    BY DEF RequestInv, Holds
  <2>. QED
    BY <1>9, <2>1 DEF RevokeLoads
<1>10. ASSUME NEW r \in Requests, NEW batch \in SUBSET Sessions, RevokeSessions(r, batch)
      PROVE  RowInv'
  BY <1>10 DEF RevokeSessions, seen
<1>11. ASSUME NEW r \in Requests, RevokeSaves(r)
      PROVE  RowInv'
  BY <1>11, SaveEffect DEF RevokeSaves
<1>12. ASSUME NEW r \in Requests, ChangePassword(r)
      PROVE  RowInv'
  BY <1>12 DEF ChangePassword, ReadsUser, seen
<1>13. ASSUME NEW r \in Requests, ChangePasswordSaves(r)
      PROVE  RowInv'
  BY <1>13, <1>0 DEF ChangePasswordSaves, seen, Grows
<1>14. ASSUME NEW r \in Requests, Deactivate(r)
      PROVE  RowInv'
  BY <1>14 DEF Deactivate, ReadsUser, seen
<1>15. ASSUME NEW r \in Requests, DeactivateLoadsSessions(r)
      PROVE  RowInv'
  BY <1>15 DEF DeactivateLoadsSessions, seen
<1>16. ASSUME NEW r \in Requests, DeactivateSaves(r)
      PROVE  RowInv'
  <2>1. user.stamp <= user'.stamp
    BY <1>0 DEF Grows
  <2>. QED
    BY <1>16, <2>1, SaveEffect
<1>17. ASSUME NEW r \in Requests, Reactivate(r)
      PROVE  RowInv'
  BY <1>17 DEF Reactivate, ReadsUser, seen
<1>18. ASSUME NEW r \in Requests, ReactivateSaves(r)
      PROVE  RowInv'
  BY <1>18 DEF ReactivateSaves, User, TypeOK, seen
<1>19. ASSUME NEW r \in Requests, RequestDies(r)
      PROVE  RowInv'
  BY <1>19 DEF RequestDies, seen
<1>20. ASSUME CleanupExpiredSessions
      PROVE  RowInv'
  BY <1>20, CleanupEffect DEF CleanupExpiredSessions, seen
<1>21. ASSUME Tick
      PROVE  RowInv'
  BY <1>21, TickEffect DEF Tick, seen
<1>22. CASE UNCHANGED vars
  BY <1>22 DEF vars
<1>. QED
  BY <1>1, <1>2, <1>3, <1>4, <1>5, <1>6, <1>7, <1>8, <1>9, <1>10, <1>11, <1>12, <1>13,
     <1>14, <1>15, <1>16, <1>17, <1>18, <1>19, <1>20, <1>21, <1>22 DEF Next

\* A token wins once, and is then not the current one.
LEMMA WonStep ==
    ASSUME TypeOK, RequestInv, RowInv, WonInv, [Next]_vars
    PROVE  WonInv'
<1> USE DEF WonInv
<1>0. \A s \in Sessions : sess[s].hash \in Int
  BY DEF TypeOK, Row, Tokens
<1>a. \A t \in Tokens : t \in Int
  BY DEF Tokens
<1>b. \A s \in Sessions, t \in Tokens : wins[<<s, t>>] \in 0..2
  BY DEF TypeOK
<1> USE <1>0, <1>a, <1>b
<1>1. ASSUME NEW r \in Requests, NEW s \in Sessions, CreateSession(r, s)
      PROVE  WonInv'
  <2>1. /\ sess[s].at = "none"
        /\ \A q \in Sessions \ {s} : sess'[q] = sess[q]
        /\ sess'[s].at = "stored" /\ sess'[s].stamp = req[r].stamp /\ sess'[s].hash = 1
        /\ UNCHANGED <<user, wins, late, ended>>
    BY <1>1 DEF CreateSession, TypeOK, seen
  <2>2. \A t \in Tokens : wins[<<s, t>>] = 0
    BY <2>1 DEF RowInv
  <2>3. \A t \in Tokens : wins'[<<s, t>>] <= 1 /\ ~(wins'[<<s, t>>] > 0)
    BY <2>1, <2>2
  <2>4. \A q \in Sessions \ {s} : sess'[q].hash = sess[q].hash /\ wins' = wins
    BY <2>1
  <2>. QED
    BY <2>3, <2>4
<1>2. ASSUME NEW r \in Requests, NEW s \in Sessions, RotateFindsCurrent(r, s)
      PROVE  WonInv'
  BY <1>2 DEF RotateFindsCurrent, seen
<1>3. ASSUME NEW r \in Requests, NEW s \in Sessions, RotateFindsSpent(r, s)
      PROVE  WonInv'
  BY <1>3 DEF RotateFindsSpent, seen
<1>4. ASSUME NEW r \in Requests, NEW s \in Sessions,
             NEW token \in Tokens, RevokeSessionByRefreshToken(r, s, token)
      PROVE  WonInv'
  BY <1>4 DEF RevokeSessionByRefreshToken, seen
<1>5. ASSUME NEW r \in Requests, SignIn(r)
      PROVE  WonInv'
  BY <1>5 DEF SignIn, seen
<1>6. ASSUME NEW r \in Requests, CreateSessionReadsStamp(r)
      PROVE  WonInv'
  BY <1>6 DEF CreateSessionReadsStamp, seen
<1>7. ASSUME NEW r \in Requests, RotateReadsStamp(r)
      PROVE  WonInv'
  BY <1>7 DEF RotateReadsStamp, seen
<1>8. ASSUME NEW r \in Requests, RotateSwaps(r)
      PROVE  WonInv'
  <2>1. CASE UNCHANGED <<sess, wins, late>>
    BY <1>8, <2>1 DEF RotateSwaps
  <2>2. CASE ~UNCHANGED <<sess, wins, late>>
    <3>1. PICK s \in Sessions : LET token == req[r].token IN
            /\ req[r].batch = {s} /\ token = sess[s].hash
            /\ token \in Tokens /\ token + 1 \in Tokens
            /\ sess[s].at = "stored" /\ ~sess[s].revoked
            /\ sess' = [sess EXCEPT ![s] = [@ EXCEPT !.prev = token, !.hash = token + 1,
                                                     !.left = Lifetime]]
            /\ wins' = [wins EXCEPT ![<<s, token>>] = Counted(@)]
            /\ late' = [late EXCEPT ![s] = IF sess[s].stamp # user.stamp
                                           THEN Counted(@) ELSE @]
      BY <1>8, <2>2, SwapEffect
    <3>2. \A q \in Sessions :
            /\ sess'[q].at = sess[q].at /\ sess'[q].stamp = sess[q].stamp
            /\ sess'[q].revoked = sess[q].revoked
            /\ sess'[q].hash = IF q = s THEN sess[s].hash + 1 ELSE sess[q].hash
      BY <3>1 DEF TypeOK, Row
    <3>3. sess[s].hash \in Tokens /\ wins[<<s, sess[s].hash>>] = 0
      BY <3>1
    <3>4. wins' = [wins EXCEPT ![<<s, sess[s].hash>>] = 1]
      BY <3>1, <3>3 DEF Counted
    <3>5. wins \in [Sessions \X Tokens -> 0..2]
      BY DEF TypeOK
    <3>6. \A q \in Sessions, t \in Tokens :
            wins'[<<q, t>>] = IF q = s /\ t = sess[s].hash THEN 1 ELSE wins[<<q, t>>]
      BY <3>3, <3>4, <3>5
    <3>7. ASSUME NEW q \in Sessions, NEW t \in Tokens
          PROVE  wins'[<<q, t>>] <= 1 /\ (wins'[<<q, t>>] > 0 => t < sess'[q].hash)
      <4>1. CASE q = s /\ t = sess[s].hash
        BY <3>2, <3>6, <4>1
      <4>2. CASE ~(q = s /\ t = sess[s].hash)
        BY <3>2, <3>6, <4>2
      <4>. QED
        BY <4>1, <4>2
    <3>. QED
      BY <3>7
  <2>. QED
    BY <2>1, <2>2
<1>9. ASSUME NEW r \in Requests, RevokeLoads(r)
      PROVE  WonInv'
  BY <1>9 DEF RevokeLoads
<1>10. ASSUME NEW r \in Requests, NEW batch \in SUBSET Sessions, RevokeSessions(r, batch)
      PROVE  WonInv'
  BY <1>10 DEF RevokeSessions, seen
<1>11. ASSUME NEW r \in Requests, RevokeSaves(r)
      PROVE  WonInv'
  BY <1>11, SaveEffect
<1>12. ASSUME NEW r \in Requests, ChangePassword(r)
      PROVE  WonInv'
  BY <1>12 DEF ChangePassword, ReadsUser, seen
<1>13. ASSUME NEW r \in Requests, ChangePasswordSaves(r)
      PROVE  WonInv'
  BY <1>13 DEF ChangePasswordSaves, seen
<1>14. ASSUME NEW r \in Requests, Deactivate(r)
      PROVE  WonInv'
  BY <1>14 DEF Deactivate, ReadsUser, seen
<1>15. ASSUME NEW r \in Requests, DeactivateLoadsSessions(r)
      PROVE  WonInv'
  BY <1>15 DEF DeactivateLoadsSessions, seen
<1>16. ASSUME NEW r \in Requests, DeactivateSaves(r)
      PROVE  WonInv'
  BY <1>16, SaveEffect
<1>17. ASSUME NEW r \in Requests, Reactivate(r)
      PROVE  WonInv'
  BY <1>17 DEF Reactivate, ReadsUser, seen
<1>18. ASSUME NEW r \in Requests, ReactivateSaves(r)
      PROVE  WonInv'
  BY <1>18 DEF ReactivateSaves, seen
<1>19. ASSUME NEW r \in Requests, RequestDies(r)
      PROVE  WonInv'
  BY <1>19 DEF RequestDies, seen
<1>20. ASSUME CleanupExpiredSessions
      PROVE  WonInv'
  BY <1>20, CleanupEffect DEF CleanupExpiredSessions, seen
<1>21. ASSUME Tick
      PROVE  WonInv'
  BY <1>21, TickEffect DEF Tick, seen
<1>22. CASE UNCHANGED vars
  BY <1>22 DEF vars
<1>. QED
  BY <1>1, <1>2, <1>3, <1>4, <1>5, <1>6, <1>7, <1>8, <1>9, <1>10, <1>11, <1>12, <1>13,
     <1>14, <1>15, <1>16, <1>17, <1>18, <1>19, <1>20, <1>21, <1>22 DEF Next

\* What was reported ended stays ended.
LEMMA EndedStep ==
    ASSUME TypeOK, RequestInv, RowInv, EndedMeansEnded, [Next]_vars
    PROVE  EndedMeansEnded'
<1> USE DEF EndedMeansEnded
<1>0. ended \subseteq Sessions
  BY DEF TypeOK
<1> USE <1>0
<1>1. ASSUME NEW r \in Requests, NEW s \in Sessions, CreateSession(r, s)
      PROVE  EndedMeansEnded'
  BY <1>1 DEF CreateSession, RowInv, TypeOK, seen
<1>2. ASSUME NEW r \in Requests, NEW s \in Sessions, RotateFindsCurrent(r, s)
      PROVE  EndedMeansEnded'
  BY <1>2 DEF RotateFindsCurrent, seen
<1>3. ASSUME NEW r \in Requests, NEW s \in Sessions, RotateFindsSpent(r, s)
      PROVE  EndedMeansEnded'
  BY <1>3 DEF RotateFindsSpent, seen
<1>4. ASSUME NEW r \in Requests, NEW s \in Sessions,
             NEW token \in Tokens, RevokeSessionByRefreshToken(r, s, token)
      PROVE  EndedMeansEnded'
  BY <1>4 DEF RevokeSessionByRefreshToken, seen
<1>5. ASSUME NEW r \in Requests, SignIn(r)
      PROVE  EndedMeansEnded'
  BY <1>5 DEF SignIn, seen
<1>6. ASSUME NEW r \in Requests, CreateSessionReadsStamp(r)
      PROVE  EndedMeansEnded'
  BY <1>6 DEF CreateSessionReadsStamp, seen
<1>7. ASSUME NEW r \in Requests, RotateReadsStamp(r)
      PROVE  EndedMeansEnded'
  BY <1>7 DEF RotateReadsStamp, seen
<1>8. ASSUME NEW r \in Requests, RotateSwaps(r)
      PROVE  EndedMeansEnded'
  <2>1. CASE UNCHANGED <<sess, wins, late>>
    BY <1>8, <2>1 DEF RotateSwaps
  <2>2. CASE ~UNCHANGED <<sess, wins, late>>
    <3>1. PICK s \in Sessions : LET token == req[r].token IN
            /\ req[r].batch = {s} /\ token = sess[s].hash
            /\ token \in Tokens /\ token + 1 \in Tokens
            /\ sess[s].at = "stored" /\ ~sess[s].revoked
            /\ sess' = [sess EXCEPT ![s] = [@ EXCEPT !.prev = token, !.hash = token + 1,
                                                     !.left = Lifetime]]
            /\ wins' = [wins EXCEPT ![<<s, token>>] = Counted(@)]
            /\ late' = [late EXCEPT ![s] = IF sess[s].stamp # user.stamp
                                           THEN Counted(@) ELSE @]
      BY <1>8, <2>2, SwapEffect
    <3>2. \A q \in Sessions :
            /\ sess'[q].at = sess[q].at /\ sess'[q].stamp = sess[q].stamp
            /\ sess'[q].revoked = sess[q].revoked
            /\ sess'[q].hash = IF q = s THEN sess[s].hash + 1 ELSE sess[q].hash
      BY <3>1 DEF TypeOK, Row
    <3>. QED
      BY <1>8, <3>2 DEF RotateSwaps
  <2>. QED
    BY <2>1, <2>2
<1>9. ASSUME NEW r \in Requests, RevokeLoads(r)
      PROVE  EndedMeansEnded'
  <2>1. PICK s \in Sessions : req[r].batch = {s}
    BY <1>9 DEF RevokeLoads, RequestInv, Holds
  <2>2. sess[s].at # "none"
    BY <2>1 DEF RequestInv, Holds
  <2>3. sess[s].at \in {"none", "stored", "deleted"}
    BY DEF TypeOK, Row
  <2>4. s \notin Unrevoked => sess[s].revoked \/ sess[s].at = "deleted"
    BY <2>2, <2>3 DEF Unrevoked, Stored
  <2>. QED
    BY <1>9, <2>1, <2>4 DEF RevokeLoads
<1>10. ASSUME NEW r \in Requests, NEW batch \in SUBSET Sessions, RevokeSessions(r, batch)
      PROVE  EndedMeansEnded'
  BY <1>10 DEF RevokeSessions, seen
<1>11. ASSUME NEW r \in Requests, RevokeSaves(r)
      PROVE  EndedMeansEnded'
  <2>1. \A s \in Sessions :
          /\ sess'[s].at = sess[s].at
          /\ sess[s].revoked => sess'[s].revoked
          /\ s \in ended' => s \in ended \/ sess'[s].revoked
    BY <1>11, SaveEffect
  <2>2. ended' \subseteq Sessions
    BY <1>11, TypeStep DEF TypeOK
  <2>. QED
    BY <2>1, <2>2
<1>12. ASSUME NEW r \in Requests, ChangePassword(r)
      PROVE  EndedMeansEnded'
  BY <1>12 DEF ChangePassword, ReadsUser, seen
<1>13. ASSUME NEW r \in Requests, ChangePasswordSaves(r)
      PROVE  EndedMeansEnded'
  BY <1>13 DEF ChangePasswordSaves, seen
<1>14. ASSUME NEW r \in Requests, Deactivate(r)
      PROVE  EndedMeansEnded'
  BY <1>14 DEF Deactivate, ReadsUser, seen
<1>15. ASSUME NEW r \in Requests, DeactivateLoadsSessions(r)
      PROVE  EndedMeansEnded'
  BY <1>15 DEF DeactivateLoadsSessions, seen
<1>16. ASSUME NEW r \in Requests, DeactivateSaves(r)
      PROVE  EndedMeansEnded'
  <2>1. \A s \in Sessions :
          /\ sess'[s].at = sess[s].at
          /\ sess[s].revoked => sess'[s].revoked
          /\ s \in ended' => s \in ended \/ sess'[s].revoked
    BY <1>16, SaveEffect
  <2>2. ended' \subseteq Sessions
    BY <1>16, TypeStep DEF TypeOK
  <2>. QED
    BY <2>1, <2>2
<1>17. ASSUME NEW r \in Requests, Reactivate(r)
      PROVE  EndedMeansEnded'
  BY <1>17 DEF Reactivate, ReadsUser, seen
<1>18. ASSUME NEW r \in Requests, ReactivateSaves(r)
      PROVE  EndedMeansEnded'
  BY <1>18 DEF ReactivateSaves, seen
<1>19. ASSUME NEW r \in Requests, RequestDies(r)
      PROVE  EndedMeansEnded'
  BY <1>19 DEF RequestDies, seen
<1>20. ASSUME CleanupExpiredSessions
      PROVE  EndedMeansEnded'
  BY <1>20, CleanupEffect DEF CleanupExpiredSessions, seen
<1>21. ASSUME Tick
      PROVE  EndedMeansEnded'
  BY <1>21, TickEffect DEF Tick, seen
<1>22. CASE UNCHANGED vars
  BY <1>22 DEF vars
<1>. QED
  BY <1>1, <1>2, <1>3, <1>4, <1>5, <1>6, <1>7, <1>8, <1>9, <1>10, <1>11, <1>12, <1>13,
     <1>14, <1>15, <1>16, <1>17, <1>18, <1>19, <1>20, <1>21, <1>22 DEF Next

\* A session is rotated late once.
LEMMA LateStep ==
    ASSUME TypeOK, RequestInv, RowInv, LateInv, [Next]_vars
    PROVE  LateInv'
<1>0. Grows /\ TypeOK'
  BY TypeStep, GrowsStep
<1> USE DEF LateInv
<1>a. /\ \A s \in Sessions : /\ sess[s].stamp \in Int /\ sess[s].hash \in Int
                             /\ late[s] \in 0..2
      /\ user.stamp \in Int /\ user'.stamp \in Int
  BY <1>0 DEF TypeOK, Row, User, Stamps, Tokens
<1> USE <1>a
<1>1. ASSUME NEW r \in Requests, NEW s \in Sessions, CreateSession(r, s)
      PROVE  LateInv'
  <2>1. /\ sess[s].at = "none"
        /\ \A q \in Sessions \ {s} : sess'[q] = sess[q]
        /\ sess'[s].at = "stored" /\ sess'[s].stamp = req[r].stamp /\ sess'[s].hash = 1
        /\ UNCHANGED <<user, wins, late, ended>>
    BY <1>1 DEF CreateSession, TypeOK, seen
  <2>2. \A q \in Requests : req'[q].pc = "swap" => req'[q] = req[q]
    BY <1>1 DEF CreateSession, Ends, Free, TypeOK
  <2>3. late[s] = 0
    BY <2>1 DEF RowInv
  <2>. QED
    BY <2>1, <2>2, <2>3
<1>2. ASSUME NEW r \in Requests, NEW s \in Sessions, RotateFindsCurrent(r, s)
      PROVE  LateInv'
  <2>1. \A q \in Requests : req'[q].pc = "swap" /\ req'[q].batch # {} =>
          req[q].pc = "swap" /\ req'[q] = req[q]
    BY <1>2 DEF RotateFindsCurrent, TypeOK, Request, Free, Starts
  <2>. QED
    BY <1>2, <1>0, <2>1 DEF RotateFindsCurrent, seen
<1>3. ASSUME NEW r \in Requests, NEW s \in Sessions, RotateFindsSpent(r, s)
      PROVE  LateInv'
  <2>1. \A q \in Requests : req'[q].pc = "swap" /\ req'[q].batch # {} =>
          req[q].pc = "swap" /\ req'[q] = req[q]
    BY <1>3 DEF RotateFindsSpent, TypeOK, Request, Free, Starts
  <2>. QED
    BY <1>3, <1>0, <2>1 DEF RotateFindsSpent, seen
<1>4. ASSUME NEW r \in Requests, NEW s \in Sessions,
             NEW token \in Tokens, RevokeSessionByRefreshToken(r, s, token)
      PROVE  LateInv'
  <2>1. \A q \in Requests : req'[q].pc = "swap" /\ req'[q].batch # {} =>
          req[q].pc = "swap" /\ req'[q] = req[q]
    BY <1>4 DEF RevokeSessionByRefreshToken, TypeOK, Request, Free, Starts
  <2>. QED
    BY <1>4, <1>0, <2>1 DEF RevokeSessionByRefreshToken, seen
<1>5. ASSUME NEW r \in Requests, SignIn(r)
      PROVE  LateInv'
  <2>1. \A q \in Requests : req'[q].pc = "swap" /\ req'[q].batch # {} =>
          req[q].pc = "swap" /\ req'[q] = req[q]
    BY <1>5 DEF SignIn, TypeOK, Request, Free, Starts
  <2>. QED
    BY <1>5, <1>0, <2>1 DEF SignIn, seen
<1>6. ASSUME NEW r \in Requests, CreateSessionReadsStamp(r)
      PROVE  LateInv'
  <2>1. \A q \in Requests : req'[q].pc = "swap" /\ req'[q].batch # {} =>
          req[q].pc = "swap" /\ req'[q] = req[q]
    BY <1>6 DEF CreateSessionReadsStamp, TypeOK, Request, Free
  <2>. QED
    BY <1>6, <1>0, <2>1 DEF CreateSessionReadsStamp, seen
<1>7. ASSUME NEW r \in Requests, RotateReadsStamp(r)
      PROVE  LateInv'
  <2>1. UNCHANGED <<sess, user, late>> /\ req[r].pc = "stamp" /\ req[r] \in Request
    BY <1>7 DEF RotateReadsStamp, seen, TypeOK
  <2>2. \A q \in Requests \ {r} : req'[q] = req[q]
    BY <1>7 DEF RotateReadsStamp, Goes, TypeOK
  <2>3. req'[r].pc = "swap" => /\ user.stamp = req[r].stamp
                               /\ req'[r].batch = req[r].batch
    BY <1>7, <2>1 DEF RotateReadsStamp, Goes, TypeOK, Request
  <2>4. \A s \in req[r].batch : req[r].stamp = sess[s].stamp
    BY <2>1 DEF RequestInv, Holds
  <2>5. req'[r].pc = "swap" => \A s \in req'[r].batch \cap Sessions : late[s] = 0
    BY <2>3, <2>4, <1>a
  <2>. QED
    BY <2>1, <2>2, <2>5
<1>8. ASSUME NEW r \in Requests, RotateSwaps(r)
      PROVE  LateInv'
  <2>1. CASE UNCHANGED <<sess, wins, late>>
    <3>1. \A q \in Requests : req'[q].pc = "swap" => req'[q] = req[q]
      BY <1>8 DEF RotateSwaps, Ends, Free, TypeOK
    <3>. QED
      BY <1>8, <2>1, <3>1 DEF RotateSwaps
  <2>2. CASE ~UNCHANGED <<sess, wins, late>>
    <3>1. PICK s \in Sessions : LET token == req[r].token IN
            /\ req[r].batch = {s} /\ token = sess[s].hash
            /\ token \in Tokens /\ token + 1 \in Tokens
            /\ sess[s].at = "stored" /\ ~sess[s].revoked
            /\ sess' = [sess EXCEPT ![s] = [@ EXCEPT !.prev = token, !.hash = token + 1,
                                                     !.left = Lifetime]]
            /\ wins' = [wins EXCEPT ![<<s, token>>] = Counted(@)]
            /\ late' = [late EXCEPT ![s] = IF sess[s].stamp # user.stamp
                                           THEN Counted(@) ELSE @]
      BY <1>8, <2>2, SwapEffect
    <3>2. \A q \in Sessions :
            /\ sess'[q].at = sess[q].at /\ sess'[q].stamp = sess[q].stamp
            /\ sess'[q].revoked = sess[q].revoked
            /\ sess'[q].hash = IF q = s THEN sess[s].hash + 1 ELSE sess[q].hash
      BY <3>1 DEF TypeOK, Row
    <3>3. \A q \in Requests : req'[q].pc = "swap" => req'[q] = req[q]
      BY <1>8 DEF RotateSwaps, Ends, Free, TypeOK
    <3>4. late[s] = 0
      BY <1>8, <3>1 DEF RotateSwaps
    <3>5. sess[s].stamp <= user.stamp
      BY DEF RowInv
    <3>6. late' = [late EXCEPT ![s] = IF sess[s].stamp < user.stamp THEN 1 ELSE 0]
      <4>1. late' = [late EXCEPT ![s] = IF sess[s].stamp # user.stamp THEN Counted(0) ELSE 0]
        BY <3>1, <3>4
      <4>2. Counted(0) = 1
        BY DEF Counted
      <4>3. sess[s].stamp # user.stamp <=> sess[s].stamp < user.stamp
        BY <3>5, <1>a
      <4>4. CASE sess[s].stamp < user.stamp
        BY <4>1, <4>2, <4>3, <4>4
      <4>5. CASE ~(sess[s].stamp < user.stamp)
        BY <4>1, <4>3, <4>5
      <4>. QED
        BY <4>4, <4>5
    <3>7. \A q \in Sessions :
            late'[q] = IF q = s THEN (IF sess[s].stamp < user.stamp THEN 1 ELSE 0) ELSE late[q]
      BY <3>6 DEF TypeOK
    <3>8. \A q \in Requests : req[q].pc = "swap" /\ s \in req[q].batch =>
            req[q].token <= sess[s].hash /\ req[q].token \in Int
      BY DEF RequestInv, Holds, Tokens
    <3>9. user' = user
      BY <1>8 DEF RotateSwaps
    <3>. QED
      BY <3>2, <3>3, <3>7, <3>8, <3>9
  <2>. QED
    BY <2>1, <2>2
<1>9. ASSUME NEW r \in Requests, RevokeLoads(r)
      PROVE  LateInv'
  <2>1. \A q \in Requests : req'[q].pc = "swap" /\ req'[q].batch # {} =>
          req[q].pc = "swap" /\ req'[q] = req[q]
    BY <1>9 DEF RevokeLoads, Goes, Ends, Free, TypeOK, Request
  <2>. QED
    BY <1>9, <1>0, <2>1 DEF RevokeLoads
<1>10. ASSUME NEW r \in Requests, NEW batch \in SUBSET Sessions, RevokeSessions(r, batch)
      PROVE  LateInv'
  <2>1. \A q \in Requests : req'[q].pc = "swap" /\ req'[q].batch # {} =>
          req[q].pc = "swap" /\ req'[q] = req[q]
    BY <1>10 DEF RevokeSessions, TypeOK, Request, Free, Starts
  <2>. QED
    BY <1>10, <1>0, <2>1 DEF RevokeSessions, seen
<1>11. ASSUME NEW r \in Requests, RevokeSaves(r)
      PROVE  LateInv'
  <2>1. \A q \in Requests : req'[q].pc = "swap" => req'[q] = req[q]
    BY <1>11 DEF RevokeSaves, Ends, Free, TypeOK
  <2>. QED
    BY <1>11, <2>1, SaveEffect DEF RevokeSaves
<1>12. ASSUME NEW r \in Requests, ChangePassword(r)
      PROVE  LateInv'
  <2>1. \A q \in Requests : req'[q].pc = "swap" /\ req'[q].batch # {} =>
          req[q].pc = "swap" /\ req'[q] = req[q]
    BY <1>12 DEF ChangePassword, TypeOK, Request, Free, ReadsUser, Starts
  <2>. QED
    BY <1>12, <1>0, <2>1 DEF ChangePassword, ReadsUser, seen
<1>13. ASSUME NEW r \in Requests, ChangePasswordSaves(r)
      PROVE  LateInv'
  <2>1. \A q \in Requests : req'[q].pc = "swap" /\ req'[q].batch # {} =>
          req[q].pc = "swap" /\ req'[q] = req[q]
    BY <1>13 DEF ChangePasswordSaves, Ends, Free, TypeOK
  <2>. QED
    BY <1>13, <1>0, <2>1 DEF ChangePasswordSaves, seen, Grows
<1>14. ASSUME NEW r \in Requests, Deactivate(r)
      PROVE  LateInv'
  <2>1. \A q \in Requests : req'[q].pc = "swap" /\ req'[q].batch # {} =>
          req[q].pc = "swap" /\ req'[q] = req[q]
    BY <1>14 DEF Deactivate, TypeOK, Request, Free, ReadsUser, Starts
  <2>. QED
    BY <1>14, <1>0, <2>1 DEF Deactivate, ReadsUser, seen
<1>15. ASSUME NEW r \in Requests, DeactivateLoadsSessions(r)
      PROVE  LateInv'
  <2>1. \A q \in Requests : req'[q].pc = "swap" /\ req'[q].batch # {} =>
          req[q].pc = "swap" /\ req'[q] = req[q]
    BY <1>15 DEF DeactivateLoadsSessions, TypeOK, Request, Free
  <2>. QED
    BY <1>15, <1>0, <2>1 DEF DeactivateLoadsSessions, seen
<1>16. ASSUME NEW r \in Requests, DeactivateSaves(r)
      PROVE  LateInv'
  <2>1. \A q \in Requests : req'[q].pc = "swap" => req'[q] = req[q]
    BY <1>16 DEF DeactivateSaves, Ends, Free, TypeOK
  <2>2. user.stamp <= user'.stamp
    BY <1>0 DEF Grows
  <2>. QED
    BY <1>16, <2>1, <2>2, SaveEffect
<1>17. ASSUME NEW r \in Requests, Reactivate(r)
      PROVE  LateInv'
  <2>1. \A q \in Requests : req'[q].pc = "swap" /\ req'[q].batch # {} =>
          req[q].pc = "swap" /\ req'[q] = req[q]
    BY <1>17 DEF Reactivate, TypeOK, Request, Free, ReadsUser, Starts
  <2>. QED
    BY <1>17, <1>0, <2>1 DEF Reactivate, ReadsUser, seen
<1>18. ASSUME NEW r \in Requests, ReactivateSaves(r)
      PROVE  LateInv'
  <2>1. \A q \in Requests : req'[q].pc = "swap" /\ req'[q].batch # {} =>
          req[q].pc = "swap" /\ req'[q] = req[q]
    BY <1>18 DEF ReactivateSaves, Ends, Free, TypeOK
  <2>. QED
    BY <1>18, <1>0, <2>1 DEF ReactivateSaves, seen, Grows
<1>19. ASSUME NEW r \in Requests, RequestDies(r)
      PROVE  LateInv'
  <2>1. \A q \in Requests : req'[q].pc = "swap" /\ req'[q].batch # {} =>
          req[q].pc = "swap" /\ req'[q] = req[q]
    BY <1>19 DEF RequestDies, TypeOK, Request, Free, Ends
  <2>. QED
    BY <1>19, <1>0, <2>1 DEF RequestDies, seen
<1>20. ASSUME CleanupExpiredSessions
      PROVE  LateInv'
  BY <1>20, CleanupEffect DEF CleanupExpiredSessions, seen
<1>21. ASSUME Tick
      PROVE  LateInv'
  BY <1>21, TickEffect DEF Tick, seen
<1>22. CASE UNCHANGED vars
  BY <1>22 DEF vars
<1>. QED
  BY <1>1, <1>2, <1>3, <1>4, <1>5, <1>6, <1>7, <1>8, <1>9, <1>10, <1>11, <1>12, <1>13,
     <1>14, <1>15, <1>16, <1>17, <1>18, <1>19, <1>20, <1>21, <1>22 DEF Next

-----------------------------------------------------------------------------
(* The theorems. *)

\* The invariant holds in every state.
LEMMA Invariant == Spec => []IInv
<1>1. Init => IInv
  BY InitHolds
<1>2. IInv /\ [Next]_vars => IInv'
  BY TypeStep, RequestStep, RowStep, WonStep, LateStep, EndedStep DEF IInv
<1>. QED
  BY <1>1, <1>2, PTL DEF Spec

\* Rows, requests and the user's row stay what they are declared to be: in particular no
\* token and no stamp is issued beyond the bounds the guards give them.
THEOREM TypeHolds == Spec => []TypeOK
<1>1. IInv => TypeOK
  BY DEF IInv
<1>. QED
  BY <1>1, Invariant, PTL

\* RotateRefreshTokenAsync: of any number of requests with one token, one gets the next.
THEOREM OneWinnerHolds == Spec => []OneWinner
<1>1. IInv => OneWinner
  <2> SUFFICES ASSUME IInv, NEW t \in Sessions \X Tokens PROVE wins[t] <= 1
    BY DEF OneWinner
  <2>1. t = <<t[1], t[2]>> /\ t[1] \in Sessions /\ t[2] \in Tokens
    OBVIOUS
  <2>2. wins[<<t[1], t[2]>>] <= 1
    BY <2>1 DEF IInv, WonInv
  <2>. QED
    BY <2>1, <2>2
<1>. QED
  BY <1>1, Invariant, PTL

\* RevokeAsync, the logout, the revocation by id and the deactivation: what they report
\* ended is ended.
THEOREM EndedMeansEndedHolds == Spec => []EndedMeansEnded
<1>1. IInv => EndedMeansEnded
  BY DEF IInv
<1>. QED
  BY <1>1, Invariant, PTL

\* The gap between the read of the stamp and the update of the row lets one rotation of a
\* session through after a password change, never a second.
THEOREM AtMostOneLateRotationHolds == Spec => []AtMostOneLateRotation
<1>1. IInv => AtMostOneLateRotation
  BY DEF IInv, LateInv, AtMostOneLateRotation
<1>. QED
  BY <1>1, Invariant, PTL

\* What RevokedIsFinal says of one step.
Kept ==
    \A s \in Sessions : sess[s].revoked => sess'[s].revoked /\ sess'[s].hash = sess[s].hash

\* Every step keeps revoked sessions as they are.
LEMMA KeptStep ==
    ASSUME TypeOK, RequestInv, RowInv, [Next]_vars
    PROVE  Kept
<1> USE DEF Kept
<1>1. ASSUME NEW r \in Requests, NEW s \in Sessions, CreateSession(r, s)
      PROVE  Kept
  BY <1>1 DEF CreateSession, RowInv, TypeOK
<1>2. ASSUME NEW r \in Requests, NEW s \in Sessions, RotateFindsCurrent(r, s)
      PROVE  Kept
  BY <1>2 DEF RotateFindsCurrent
<1>3. ASSUME NEW r \in Requests, NEW s \in Sessions, RotateFindsSpent(r, s)
      PROVE  Kept
  BY <1>3 DEF RotateFindsSpent
<1>4. ASSUME NEW r \in Requests, NEW s \in Sessions,
             NEW token \in Tokens, RevokeSessionByRefreshToken(r, s, token)
      PROVE  Kept
  BY <1>4 DEF RevokeSessionByRefreshToken
<1>5. ASSUME NEW r \in Requests, SignIn(r)
      PROVE  Kept
  BY <1>5 DEF SignIn
<1>6. ASSUME NEW r \in Requests, CreateSessionReadsStamp(r)
      PROVE  Kept
  BY <1>6 DEF CreateSessionReadsStamp
<1>7. ASSUME NEW r \in Requests, RotateReadsStamp(r)
      PROVE  Kept
  BY <1>7 DEF RotateReadsStamp
<1>8. ASSUME NEW r \in Requests, RotateSwaps(r)
      PROVE  Kept
  <2>1. CASE UNCHANGED <<sess, wins, late>>
    BY <2>1
  <2>2. CASE ~UNCHANGED <<sess, wins, late>>
    <3>1. PICK s \in Sessions : LET token == req[r].token IN
            /\ req[r].batch = {s} /\ token = sess[s].hash
            /\ token \in Tokens /\ token + 1 \in Tokens
            /\ sess[s].at = "stored" /\ ~sess[s].revoked
            /\ sess' = [sess EXCEPT ![s] = [@ EXCEPT !.prev = token, !.hash = token + 1,
                                                     !.left = Lifetime]]
            /\ wins' = [wins EXCEPT ![<<s, token>>] = Counted(@)]
            /\ late' = [late EXCEPT ![s] = IF sess[s].stamp # user.stamp
                                           THEN Counted(@) ELSE @]
      BY <1>8, <2>2, SwapEffect
    <3>2. \A q \in Sessions :
            /\ sess'[q].at = sess[q].at /\ sess'[q].stamp = sess[q].stamp
            /\ sess'[q].revoked = sess[q].revoked
            /\ sess'[q].hash = IF q = s THEN sess[s].hash + 1 ELSE sess[q].hash
      BY <3>1 DEF TypeOK, Row
    <3>. QED
      BY <3>1, <3>2
  <2>. QED
    BY <2>1, <2>2
<1>9. ASSUME NEW r \in Requests, RevokeLoads(r)
      PROVE  Kept
  BY <1>9 DEF RevokeLoads
<1>10. ASSUME NEW r \in Requests, NEW batch \in SUBSET Sessions, RevokeSessions(r, batch)
      PROVE  Kept
  BY <1>10 DEF RevokeSessions
<1>11. ASSUME NEW r \in Requests, RevokeSaves(r)
      PROVE  Kept
  BY <1>11, SaveEffect
<1>12. ASSUME NEW r \in Requests, ChangePassword(r)
      PROVE  Kept
  BY <1>12 DEF ChangePassword, ReadsUser
<1>13. ASSUME NEW r \in Requests, ChangePasswordSaves(r)
      PROVE  Kept
  BY <1>13 DEF ChangePasswordSaves
<1>14. ASSUME NEW r \in Requests, Deactivate(r)
      PROVE  Kept
  BY <1>14 DEF Deactivate, ReadsUser
<1>15. ASSUME NEW r \in Requests, DeactivateLoadsSessions(r)
      PROVE  Kept
  BY <1>15 DEF DeactivateLoadsSessions
<1>16. ASSUME NEW r \in Requests, DeactivateSaves(r)
      PROVE  Kept
  BY <1>16, SaveEffect
<1>17. ASSUME NEW r \in Requests, Reactivate(r)
      PROVE  Kept
  BY <1>17 DEF Reactivate, ReadsUser
<1>18. ASSUME NEW r \in Requests, ReactivateSaves(r)
      PROVE  Kept
  BY <1>18 DEF ReactivateSaves
<1>19. ASSUME NEW r \in Requests, RequestDies(r)
      PROVE  Kept
  BY <1>19 DEF RequestDies
<1>20. ASSUME CleanupExpiredSessions
      PROVE  Kept
  BY <1>20, CleanupEffect
<1>21. ASSUME Tick
      PROVE  Kept
  BY <1>21, TickEffect
<1>22. CASE UNCHANGED vars
  BY <1>22 DEF vars
<1>. QED
  BY <1>1, <1>2, <1>3, <1>4, <1>5, <1>6, <1>7, <1>8, <1>9, <1>10, <1>11, <1>12, <1>13,
     <1>14, <1>15, <1>16, <1>17, <1>18, <1>19, <1>20, <1>21, <1>22 DEF Next

\* Nothing that overlaps a revocation undoes it or gives the session another token.
THEOREM RevokedIsFinalHolds == Spec => RevokedIsFinal
<1>1. IInv /\ [Next]_vars => [Kept]_vars
  BY KeptStep DEF IInv
<1>. QED
  BY <1>1, Invariant, PTL DEF Spec, RevokedIsFinal, Kept

-----------------------------------------------------------------------------
(* The check of every request against the cache of its instance. *)


InFlight(l) == lookup[l].at \in Instances

\* A cached answer was at most a latency old when it was stored: a revocation or a renewal
\* it does not know of is no older than that and the time it is cached.
Reached(i) == MaxLatency + CacheFor - cache[i].fresh

CacheFits(i) ==
    /\ cache[i].state.left <= row.left
    /\ Cached(i) /\ cache[i].state.revoked => row.revoked
    /\ Cached(i) /\ row.revoked /\ ~cache[i].state.revoked => since.revoked <= Reached(i)
    /\ Cached(i) /\ ~row.revoked /\ cache[i].state.left < row.left => since.renewed <= Reached(i)

\* What a lookup does not know of happened since it read the row.
LookupFits(l) ==
    /\ lookup[l].read.left <= row.left
    /\ InFlight(l) /\ lookup[l].read.revoked => row.revoked
    /\ InFlight(l) /\ row.revoked /\ ~lookup[l].read.revoked => since.revoked <= lookup[l].age
    /\ InFlight(l) /\ ~row.revoked /\ lookup[l].read.left < row.left =>
         since.renewed <= lookup[l].age

\* Where the revocation was marked, the marker outlives every lookup that read the row before.
MarkedFits(i) ==
    /\ Cached(i) => cache[i].state.revoked
    /\ \A l \in Lookups : lookup[l].at = i /\ ~lookup[l].read.revoked =>
                            cache[i].fresh + lookup[l].age > MaxLatency

RevokedInv ==
    /\ ~row.revoked => since.revoked = 0 /\ marking = {} /\ marked = {}
    /\ MaxLatency < CacheFor => \A i \in marked : MarkedFits(i)

CacheInv == \A i \in Instances : CacheFits(i)
LookupInv == \A l \in Lookups : LookupFits(l)

CheckInv == CheckTypeOK /\ CacheInv /\ LookupInv /\ RevokedInv

-----------------------------------------------------------------------------
(* Values. *)

\* What is cached or read when there is nothing.
LEMMA ConstantTypes ==
    ASSUME Parameters
    PROVE  /\ NoEntry \in [state : State, fresh : 0..CacheFor]
           /\ NoLookup \in [at : Instances \cup {"none"}, read : State, age : 0..MaxLatency]
           /\ RevokedMarker \in State
BY DEF Parameters, NoEntry, NoLookup, RevokedMarker, State

\* One tick less, and one tick more up to the bound.
LEMMA Ticks ==
    ASSUME Parameters
    PROVE  /\ \A n \in 0..RowLifetime : Less(n) \in 0..RowLifetime
           /\ \A m, n \in Nat : m <= n => Less(m) <= Less(n)
           /\ \A m, n \in Nat : Less(m) < Less(n) => m < n
           /\ \A n \in 0..Bound : More(n) \in 0..Bound /\ More(n) <= n + 1
BY DEF Parameters, Less, More, Bound

\* What the type says of an entry, of a lookup and of the counters.
LEMMA Typed ==
    ASSUME CheckTypeOK
    PROVE  /\ row = [revoked |-> row.revoked, left |-> row.left]
           /\ row.revoked \in BOOLEAN /\ row.left \in 0..RowLifetime
           /\ \A i \in Instances :
                /\ cache[i].state \in State /\ cache[i].fresh \in 0..CacheFor
                /\ cache[i].state.revoked \in BOOLEAN /\ cache[i].state.left \in 0..RowLifetime
           /\ \A l \in Lookups :
                /\ lookup[l].at \in Instances \cup {"none"} /\ lookup[l].read \in State
                /\ lookup[l].age \in 0..MaxLatency
                /\ lookup[l].read.revoked \in BOOLEAN /\ lookup[l].read.left \in 0..RowLifetime
           /\ since.revoked \in 0..Bound /\ since.renewed \in 0..Bound
BY DEF CheckTypeOK, State

-----------------------------------------------------------------------------
(* Steps. *)

\* The cache and the lookups are empty, the row is live.
LEMMA StartsIn ==
    ASSUME Parameters, CheckInit
    PROVE  CheckInv
<1>1. CheckTypeOK
  <2>1. row \in State /\ since \in [revoked : 0..Bound, renewed : 0..Bound]
    BY DEF Parameters, CheckInit, State, Bound
  <2>. QED
    BY <2>1, ConstantTypes DEF CheckInit, CheckTypeOK
<1>2. CacheInv /\ LookupInv
  BY DEF Parameters, CheckInit, CacheInv, CacheFits, LookupInv, LookupFits, InFlight, Cached, NoEntry,
         NoLookup, RevokedMarker
<1>3. RevokedInv
  BY DEF CheckInit, RevokedInv
<1>. QED
  BY <1>1, <1>2, <1>3 DEF CheckInv

\* A lookup reads the row as it is.
LEMMA ReadingKeepsIt ==
    ASSUME Parameters, CheckInv, NEW l \in Lookups, NEW i \in Instances, LookupReads(l, i)
    PROVE  CheckInv'
<1> DEFINE new == [at |-> i, read |-> row, age |-> 0]
<1>0. CheckTypeOK /\ CacheInv /\ LookupInv /\ RevokedInv
  BY DEF CheckInv
<1>1. /\ lookup' = [lookup EXCEPT ![l] = new] /\ ~Cached(i)
      /\ UNCHANGED row /\ UNCHANGED cache /\ UNCHANGED marking /\ UNCHANGED marked
      /\ UNCHANGED since
  BY DEF LookupReads
<1>2. /\ new \in [at : Instances \cup {"none"}, read : State, age : 0..MaxLatency]
      /\ new.at = i /\ new.read = row /\ new.age = 0
  BY <1>0 DEF Parameters, CheckTypeOK
<1> HIDE DEF new
<1>3. /\ lookup'[l] = new /\ \A m \in Lookups \ {l} : lookup'[m] = lookup[m]
      /\ lookup' \in [Lookups -> [at : Instances \cup {"none"}, read : State, age : 0..MaxLatency]]
  BY <1>0, <1>1, <1>2 DEF CheckTypeOK
<1>4. CheckTypeOK'
  BY <1>0, <1>1, <1>3 DEF CheckTypeOK
<1>5. CacheInv'
  BY <1>0, <1>1 DEF CacheInv, CacheFits, Cached, Reached
<1>6. LookupInv'
  <2>1. LookupFits(l)'
    BY <1>0, <1>1, <1>2, <1>3, Typed DEF LookupFits, RevokedInv, InFlight
  <2>2. \A m \in Lookups \ {l} : LookupFits(m)'
    BY <1>0, <1>1, <1>3 DEF LookupInv, LookupFits, InFlight
  <2>. QED
    BY <2>1, <2>2 DEF LookupInv
<1>7. RevokedInv'
  BY <1>0, <1>1, <1>2, <1>3 DEF RevokedInv, MarkedFits, Cached
<1>. QED
  BY <1>4, <1>5, <1>6, <1>7 DEF CheckInv

\* An answer is at most a latency old when it is stored; a marker wins over it.
LEMMA StoringKeepsIt ==
    ASSUME Parameters, CheckInv, NEW l \in Lookups, LookupStores(l)
    PROVE  CheckInv'
<1> DEFINE new == [state |-> lookup[l].read, fresh |-> CacheFor]
<1>i. PICK i \in Instances : i = lookup[l].at
  BY DEF LookupStores
<1>0. CheckTypeOK /\ CacheInv /\ LookupInv /\ RevokedInv
  BY DEF CheckInv
<1>1. /\ lookup' = [lookup EXCEPT ![l] = NoLookup]
      /\ IF Overruled(i) THEN UNCHANGED cache ELSE cache' = [cache EXCEPT ![i] = new]
      /\ UNCHANGED row /\ UNCHANGED marking /\ UNCHANGED marked /\ UNCHANGED since
  BY <1>i DEF LookupStores, Store
<1>2. /\ new \in [state : State, fresh : 0..CacheFor]
      /\ new.state = lookup[l].read /\ new.fresh = CacheFor
  BY <1>0, Typed DEF Parameters
<1>3. InFlight(l) /\ LookupFits(l)
  BY <1>0, <1>i DEF InFlight, LookupInv
<1> HIDE DEF new
<1>4. /\ lookup'[l] = NoLookup /\ \A m \in Lookups \ {l} : lookup'[m] = lookup[m]
      /\ lookup' \in [Lookups -> [at : Instances \cup {"none"}, read : State, age : 0..MaxLatency]]
  BY <1>0, <1>1, ConstantTypes DEF CheckTypeOK
<1>5. /\ cache' \in [Instances -> [state : State, fresh : 0..CacheFor]]
      /\ \A j \in Instances \ {i} : cache'[j] = cache[j]
      /\ cache'[i] = IF Overruled(i) THEN cache[i] ELSE new
  BY <1>0, <1>1, <1>2 DEF CheckTypeOK
<1>6. CheckTypeOK'
  BY <1>0, <1>1, <1>4, <1>5 DEF CheckTypeOK
<1>7. CacheInv'
  <2>1. \A j \in Instances \ {i} : CacheFits(j)'
    BY <1>0, <1>1, <1>5 DEF CacheInv, CacheFits, Cached, Reached
  <2>2. CASE Overruled(i)
    BY <1>0, <1>1, <2>2 DEF CacheInv, CacheFits, Cached, Reached
  <2>3. CASE ~Overruled(i)
    <3>1. /\ cache'[i].state = lookup[l].read /\ cache'[i].fresh = CacheFor
      BY <1>2, <1>5, <2>3
    <3>2. Reached(i)' = MaxLatency
      BY <3>1 DEF Parameters, Reached
    <3>3. /\ lookup[l].age \in 0..MaxLatency
          /\ since.revoked \in 0..Bound /\ since.renewed \in 0..Bound
      BY <1>0, Typed
    <3>4. CacheFits(i)'
      BY <1>1, <1>3, <3>1, <3>2, <3>3 DEF Parameters, CacheFits, LookupFits
    <3>. QED
      BY <2>1, <3>4 DEF CacheInv
  <2>. QED
    BY <2>2, <2>3
<1>8. LookupInv'
  <2>1. LookupFits(l)'
    BY <1>0, <1>1, <1>4, Typed DEF Parameters, LookupFits, InFlight, NoLookup, RevokedMarker
  <2>2. \A m \in Lookups \ {l} : LookupFits(m)'
    BY <1>0, <1>1, <1>4 DEF LookupInv, LookupFits, InFlight
  <2>. QED
    BY <2>1, <2>2 DEF LookupInv
<1>9. RevokedInv'
  <2> SUFFICES ASSUME MaxLatency < CacheFor, NEW j \in marked
               PROVE  MarkedFits(j)'
    BY <1>0, <1>1 DEF RevokedInv
  <2>1. MarkedFits(j) /\ j \in Instances
    BY <1>0 DEF RevokedInv, CheckTypeOK
  <2>2. CASE j # i \/ Overruled(i)
    BY <1>1, <1>4, <1>5, <2>1, <2>2 DEF MarkedFits, Cached, NoLookup, RevokedMarker
  <2>3. CASE j = i /\ ~Overruled(i)
    <3>1. cache[i].fresh = 0
      BY <1>0, <2>1, <2>3, Typed DEF MarkedFits, Overruled, Cached
    <3>2. lookup[l].read.revoked
      BY <1>0, <1>i, <2>1, <2>3, <3>1, Typed DEF MarkedFits, Parameters
    <3>3. cache'[i] = new
      BY <1>5, <2>3
    <3>4. \A m \in Lookups : lookup'[m].age \in 0..MaxLatency
      BY <1>6, Typed DEF CheckTypeOK
    <3>. QED
      BY <1>2, <2>3, <3>2, <3>3, <3>4 DEF MarkedFits, Cached, Parameters
  <2>. QED
    BY <2>2, <2>3
<1>. QED
  BY <1>6, <1>7, <1>8, <1>9 DEF CheckInv

\* A lookup gives up: what is in flight only becomes less.
LEMMA FailingKeepsIt ==
    ASSUME Parameters, CheckInv, NEW l \in Lookups, LookupFails(l)
    PROVE  CheckInv'
<1>0. CheckTypeOK /\ CacheInv /\ LookupInv /\ RevokedInv
  BY DEF CheckInv
<1>1. /\ lookup' = [lookup EXCEPT ![l] = NoLookup]
      /\ UNCHANGED row /\ UNCHANGED cache /\ UNCHANGED marking /\ UNCHANGED marked
      /\ UNCHANGED since
  BY DEF LookupFails
<1>2. /\ lookup'[l] = NoLookup /\ \A m \in Lookups \ {l} : lookup'[m] = lookup[m]
      /\ lookup' \in [Lookups -> [at : Instances \cup {"none"}, read : State, age : 0..MaxLatency]]
  BY <1>0, <1>1, ConstantTypes DEF CheckTypeOK
<1>3. CheckTypeOK'
  BY <1>0, <1>1, <1>2 DEF CheckTypeOK
<1>4. CacheInv'
  BY <1>0, <1>1 DEF CacheInv, CacheFits, Cached, Reached
<1>5. LookupInv'
  <2>1. LookupFits(l)'
    BY <1>0, <1>1, <1>2, Typed DEF Parameters, LookupFits, InFlight, NoLookup, RevokedMarker
  <2>2. \A m \in Lookups \ {l} : LookupFits(m)'
    BY <1>0, <1>1, <1>2 DEF LookupInv, LookupFits, InFlight
  <2>. QED
    BY <2>1, <2>2 DEF LookupInv
<1>6. RevokedInv'
  BY <1>0, <1>1, <1>2 DEF RevokedInv, MarkedFits, Cached, NoLookup, RevokedMarker
<1>. QED
  BY <1>3, <1>4, <1>5, <1>6 DEF CheckInv

\* The row is revoked, and no tick has passed since.
LEMMA RevokingKeepsIt ==
    ASSUME Parameters, CheckInv, NEW i \in Instances, NEW heard \in BOOLEAN, RevokeCommits(i, heard)
    PROVE  CheckInv'
<1>0. CheckTypeOK /\ CacheInv /\ LookupInv /\ RevokedInv
  BY DEF CheckInv
<1>1. /\ ~row.revoked /\ row' = [row EXCEPT !.revoked = TRUE]
      /\ marking' = IF heard THEN marking \cup {i} ELSE marking
      /\ UNCHANGED cache /\ UNCHANGED lookup /\ UNCHANGED marked /\ UNCHANGED since
  BY DEF RevokeCommits
<1>2. /\ row' \in State /\ row'.revoked /\ row'.left = row.left
      /\ since.revoked = 0 /\ marked = {}
  BY <1>0, <1>1 DEF CheckTypeOK, State, RevokedInv
<1>3. CheckTypeOK'
  BY <1>0, <1>1, <1>2 DEF CheckTypeOK
<1>4. CacheInv'
  <2> SUFFICES ASSUME NEW j \in Instances
               PROVE  CacheFits(j)'
    BY DEF CacheInv
  <2>1. CacheFits(j) /\ cache[j].fresh \in 0..CacheFor
    BY <1>0, Typed DEF CacheInv
  <2>2. 0 <= Reached(j)
    BY <2>1 DEF Parameters, Reached
  <2>. QED
    BY <1>1, <1>2, <2>1, <2>2 DEF CacheFits, Cached, Reached
<1>5. LookupInv'
  <2> SUFFICES ASSUME NEW l \in Lookups
               PROVE  LookupFits(l)'
    BY DEF LookupInv
  <2>1. LookupFits(l) /\ lookup[l].age \in 0..MaxLatency
    BY <1>0, Typed DEF LookupInv
  <2>. QED
    BY <1>1, <1>2, <2>1 DEF LookupFits, InFlight
<1>6. RevokedInv'
  BY <1>1, <1>2 DEF RevokedInv
<1>. QED
  BY <1>3, <1>4, <1>5, <1>6 DEF CheckInv

\* The marker replaces what was cached, and outlives what is in flight.
LEMMA MarkingKeepsIt ==
    ASSUME Parameters, CheckInv, NEW i \in Instances, MarkRevoked(i)
    PROVE  CheckInv'
<1> DEFINE new == [state |-> RevokedMarker, fresh |-> CacheFor]
<1>0. CheckTypeOK /\ CacheInv /\ LookupInv /\ RevokedInv
  BY DEF CheckInv
<1>1. /\ i \in marking /\ cache' = [cache EXCEPT ![i] = new]
      /\ marking' = marking \ {i} /\ marked' = marked \cup {i}
      /\ UNCHANGED row /\ UNCHANGED lookup /\ UNCHANGED since
  BY DEF MarkRevoked, Store
<1>2. /\ new \in [state : State, fresh : 0..CacheFor] /\ new.fresh = CacheFor
      /\ new.state.revoked /\ new.state.left = 0
  BY ConstantTypes DEF Parameters, RevokedMarker
<1> HIDE DEF new
<1>3. /\ cache' \in [Instances -> [state : State, fresh : 0..CacheFor]] /\ cache'[i] = new
      /\ \A j \in Instances \ {i} : cache'[j] = cache[j]
  BY <1>0, <1>1, <1>2 DEF CheckTypeOK
<1>4. row.revoked
  BY <1>0, <1>1, Typed DEF RevokedInv
<1>5. CheckTypeOK'
  BY <1>0, <1>1, <1>3 DEF CheckTypeOK
<1>6. CacheInv'
  <2>1. \A j \in Instances \ {i} : CacheFits(j)'
    BY <1>0, <1>1, <1>3 DEF CacheInv, CacheFits, Cached, Reached
  <2>2. CacheFits(i)'
    BY <1>0, <1>1, <1>2, <1>3, <1>4, Typed DEF CacheFits
  <2>. QED
    BY <2>1, <2>2 DEF CacheInv
<1>7. LookupInv'
  BY <1>0, <1>1 DEF LookupInv, LookupFits, InFlight
<1>8. RevokedInv'
  <2> SUFFICES ASSUME MaxLatency < CacheFor, NEW j \in marked'
               PROVE  MarkedFits(j)'
    BY <1>1, <1>4 DEF RevokedInv
  <2>1. CASE j = i
    <3>1. \A m \in Lookups : lookup[m].age \in 0..MaxLatency
      BY <1>0, Typed
    <3>. QED
      BY <1>1, <1>2, <1>3, <2>1, <3>1 DEF MarkedFits, Cached, Parameters
  <2>2. CASE j # i
    <3>1. MarkedFits(j) /\ j \in Instances
      BY <1>0, <1>1, <2>2 DEF RevokedInv, CheckTypeOK
    <3>. QED
      BY <1>1, <1>3, <2>2, <3>1 DEF MarkedFits, Cached
  <2>. QED
    BY <2>1, <2>2
<1>. QED
  BY <1>5, <1>6, <1>7, <1>8 DEF CheckInv

\* A renewed session is live for as long as can be.
LEMMA RenewingKeepsIt ==
    ASSUME Parameters, CheckInv, Renew
    PROVE  CheckInv'
<1>0. CheckTypeOK /\ CacheInv /\ LookupInv /\ RevokedInv
  BY DEF CheckInv
<1>1. /\ ~row.revoked /\ row' = [row EXCEPT !.left = RowLifetime]
      /\ since' = [since EXCEPT !.renewed = 0]
      /\ UNCHANGED cache /\ UNCHANGED lookup /\ UNCHANGED marking /\ UNCHANGED marked
  BY DEF Renew, Live
<1>2. /\ row' \in State /\ ~row'.revoked /\ row'.left = RowLifetime
      /\ since' \in [revoked : 0..Bound, renewed : 0..Bound]
      /\ since'.renewed = 0 /\ since'.revoked = since.revoked
  BY <1>0, <1>1 DEF CheckTypeOK, State, Parameters, Bound
<1>3. CheckTypeOK'
  BY <1>0, <1>1, <1>2 DEF CheckTypeOK
<1>4. CacheInv'
  <2> SUFFICES ASSUME NEW j \in Instances
               PROVE  CacheFits(j)'
    BY DEF CacheInv
  <2>1. /\ CacheFits(j) /\ cache[j].fresh \in 0..CacheFor /\ cache[j].state.left \in 0..RowLifetime
    BY <1>0, Typed DEF CacheInv
  <2>2. 0 <= Reached(j)
    BY <2>1 DEF Parameters, Reached
  <2>. QED
    BY <1>1, <1>2, <2>1, <2>2 DEF CacheFits, Cached, Reached
<1>5. LookupInv'
  <2> SUFFICES ASSUME NEW l \in Lookups
               PROVE  LookupFits(l)'
    BY DEF LookupInv
  <2>1. /\ LookupFits(l) /\ lookup[l].age \in 0..MaxLatency /\ lookup[l].read.left \in 0..RowLifetime
    BY <1>0, Typed DEF LookupInv
  <2>. QED
    BY <1>1, <1>2, <2>1 DEF LookupFits, InFlight
<1>6. RevokedInv'
  BY <1>0, <1>1, <1>2 DEF RevokedInv
<1>. QED
  BY <1>3, <1>4, <1>5, <1>6 DEF CheckInv

\* An instance comes back with nothing cached, in flight or left to mark.
LEMMA RestartingKeepsIt ==
    ASSUME Parameters, CheckInv, NEW i \in Instances, Restart(i)
    PROVE  CheckInv'
<1>0. CheckTypeOK /\ CacheInv /\ LookupInv /\ RevokedInv
  BY DEF CheckInv
<1>1. /\ cache' = [cache EXCEPT ![i] = NoEntry]
      /\ lookup' = [l \in Lookups |-> IF lookup[l].at = i THEN NoLookup ELSE lookup[l]]
      /\ marking' = marking \ {i}
      /\ UNCHANGED row /\ UNCHANGED marked /\ UNCHANGED since
  BY DEF Restart
<1>2. /\ cache' \in [Instances -> [state : State, fresh : 0..CacheFor]] /\ cache'[i] = NoEntry
      /\ \A j \in Instances \ {i} : cache'[j] = cache[j]
  BY <1>0, <1>1, ConstantTypes DEF CheckTypeOK
<1>3. /\ lookup' \in [Lookups -> [at : Instances \cup {"none"}, read : State, age : 0..MaxLatency]]
      /\ \A l \in Lookups : \/ lookup'[l] = NoLookup
                            \/ lookup[l].at # i /\ lookup'[l] = lookup[l]
  BY <1>0, <1>1, ConstantTypes DEF CheckTypeOK
<1>4. /\ NoEntry.fresh = 0 /\ NoEntry.state.left = 0
      /\ NoLookup.at \notin Instances /\ NoLookup.read.left = 0
  BY DEF Parameters, NoEntry, NoLookup, RevokedMarker
<1>5. CheckTypeOK'
  BY <1>0, <1>1, <1>2, <1>3 DEF CheckTypeOK
<1>6. CacheInv'
  <2>1. \A j \in Instances \ {i} : CacheFits(j)'
    BY <1>0, <1>1, <1>2 DEF CacheInv, CacheFits, Cached, Reached
  <2>2. CacheFits(i)'
    BY <1>0, <1>1, <1>2, <1>4, Typed DEF CacheFits, Cached
  <2>. QED
    BY <2>1, <2>2 DEF CacheInv
<1>7. LookupInv'
  <2> SUFFICES ASSUME NEW l \in Lookups
               PROVE  LookupFits(l)'
    BY DEF LookupInv
  <2>1. CASE lookup'[l] = NoLookup
    BY <1>0, <1>1, <1>4, <2>1, Typed DEF LookupFits, InFlight
  <2>2. CASE lookup'[l] = lookup[l]
    BY <1>0, <1>1, <2>2 DEF LookupInv, LookupFits, InFlight
  <2>. QED
    BY <1>3, <2>1, <2>2
<1>8. RevokedInv'
  <2>1. ~row.revoked => since.revoked = 0 /\ marking' = {} /\ marked = {}
    BY <1>0, <1>1 DEF RevokedInv
  <2>2. ASSUME MaxLatency < CacheFor, NEW j \in marked
        PROVE  MarkedFits(j)'
    <3>1. MarkedFits(j) /\ j \in Instances
      BY <1>0, <2>2 DEF RevokedInv, CheckTypeOK
    <3>2. CASE j = i
      BY <1>2, <1>3, <1>4, <3>1, <3>2 DEF MarkedFits, Cached
    <3>3. CASE j # i
      BY <1>2, <1>3, <1>4, <3>1, <3>3 DEF MarkedFits, Cached
    <3>. QED
      BY <3>2, <3>3
  <2>. QED
    BY <1>1, <2>1, <2>2 DEF RevokedInv
<1>. QED
  BY <1>5, <1>6, <1>7, <1>8 DEF CheckInv

\* A dropped marker counts no longer where a lookup is in flight.
LEMMA EvictingKeepsIt ==
    ASSUME Parameters, CheckInv, NEW i \in Instances, Evict(i)
    PROVE  CheckInv'
<1>0. CheckTypeOK /\ CacheInv /\ LookupInv /\ RevokedInv
  BY DEF CheckInv
<1>1. /\ cache' = [cache EXCEPT ![i] = NoEntry]
      /\ marked' = IF \E l \in Lookups : lookup[l].at = i THEN marked \ {i} ELSE marked
      /\ UNCHANGED row /\ UNCHANGED lookup /\ UNCHANGED marking /\ UNCHANGED since
  BY DEF Evict
<1>2. /\ cache' \in [Instances -> [state : State, fresh : 0..CacheFor]] /\ cache'[i] = NoEntry
      /\ \A j \in Instances \ {i} : cache'[j] = cache[j]
  BY <1>0, <1>1, ConstantTypes DEF CheckTypeOK
<1>3. NoEntry.fresh = 0 /\ NoEntry.state.left = 0
  BY DEF NoEntry
<1>4. CheckTypeOK'
  BY <1>0, <1>1, <1>2 DEF CheckTypeOK
<1>5. CacheInv'
  <2>1. \A j \in Instances \ {i} : CacheFits(j)'
    BY <1>0, <1>1, <1>2 DEF CacheInv, CacheFits, Cached, Reached
  <2>2. CacheFits(i)'
    BY <1>0, <1>1, <1>2, <1>3, Typed DEF CacheFits, Cached
  <2>. QED
    BY <2>1, <2>2 DEF CacheInv
<1>6. LookupInv'
  BY <1>0, <1>1 DEF LookupInv, LookupFits, InFlight
<1>7. RevokedInv'
  <2>1. ~row.revoked => since.revoked = 0 /\ marking = {} /\ marked' = {}
    BY <1>0, <1>1 DEF RevokedInv
  <2>2. ASSUME MaxLatency < CacheFor, NEW j \in marked'
        PROVE  MarkedFits(j)'
    <3>1. MarkedFits(j) /\ j \in Instances
      BY <1>0, <1>1, <2>2 DEF RevokedInv, CheckTypeOK
    <3>2. CASE j = i
      <4>1. \A l \in Lookups : lookup[l].at # i
        BY <1>1, <2>2, <3>2
      <4>. QED
        BY <1>1, <1>2, <1>3, <3>2, <4>1 DEF MarkedFits, Cached
    <3>3. CASE j # i
      BY <1>1, <1>2, <3>1, <3>3 DEF MarkedFits, Cached
    <3>. QED
      BY <3>2, <3>3
  <2>. QED
    BY <1>1, <2>1, <2>2 DEF RevokedInv
<1>. QED
  BY <1>4, <1>5, <1>6, <1>7 DEF CheckInv

\* A tick: what was read or stored before gets older with what happened since.
LEMMA TickingKeepsIt ==
    ASSUME Parameters, CheckInv, CheckTick
    PROVE  CheckInv'
<1>0. CheckTypeOK /\ CacheInv /\ LookupInv /\ RevokedInv
  BY DEF CheckInv
<1>1. /\ \A l \in Lookups : lookup[l].at = "none" \/ lookup[l].age < MaxLatency
      /\ marking = {} /\ row' = [row EXCEPT !.left = Less(@)]
      /\ UNCHANGED marking /\ UNCHANGED marked
  BY DEF CheckTick
<1>2. /\ row' \in State /\ row'.revoked = row.revoked /\ row'.left = Less(row.left)
  BY <1>0, <1>1, Ticks DEF CheckTypeOK, State
<1>3. ASSUME NEW i \in Instances
      PROVE  /\ cache'[i] \in [state : State, fresh : 0..CacheFor]
             /\ cache[i].fresh <= 1 => cache'[i].fresh = 0 /\ cache'[i].state.left = 0
             /\ cache[i].fresh > 1 => /\ cache'[i].fresh = cache[i].fresh - 1
                                      /\ cache'[i].state.revoked = cache[i].state.revoked
                                      /\ cache'[i].state.left = Less(cache[i].state.left)
  <2>1. cache'[i] = IF cache[i].fresh <= 1 THEN NoEntry
                    ELSE [state |-> [cache[i].state EXCEPT !.left = Less(@)],
                          fresh |-> cache[i].fresh - 1]
    BY DEF CheckTick
  <2>2. cache[i].state \in State /\ cache[i].fresh \in 0..CacheFor
    BY <1>0, Typed
  <2> DEFINE older == [cache[i].state EXCEPT !.left = Less(@)]
  <2>3. /\ older \in State /\ older.revoked = cache[i].state.revoked
        /\ older.left = Less(cache[i].state.left)
    BY <2>2, Ticks DEF State
  <2> HIDE DEF older
  <2>4. CASE cache[i].fresh <= 1
    BY <2>1, <2>2, <2>4, ConstantTypes DEF NoEntry
  <2>5. CASE cache[i].fresh > 1
    <3>1. cache'[i] = [state |-> older, fresh |-> cache[i].fresh - 1]
      BY <2>1, <2>2, <2>5 DEF older
    <3>2. cache[i].fresh - 1 \in 0..CacheFor
      BY <2>2, <2>5 DEF Parameters
    <3>. QED
      BY <2>2, <2>3, <2>5, <3>1, <3>2 DEF Parameters
  <2>. QED
    BY <2>2, <2>4, <2>5 DEF Parameters
<1>4. ASSUME NEW l \in Lookups
      PROVE  /\ lookup'[l] \in [at : Instances \cup {"none"}, read : State, age : 0..MaxLatency]
             /\ lookup'[l].at = lookup[l].at
             /\ lookup[l].at = "none" => lookup'[l].read.left = 0
             /\ lookup[l].at # "none" =>
                  /\ lookup'[l].read.revoked = lookup[l].read.revoked
                  /\ lookup'[l].read.left = Less(lookup[l].read.left)
                  /\ lookup'[l].age = lookup[l].age + 1
  <2>1. lookup'[l] = IF lookup[l].at = "none" THEN NoLookup
                     ELSE [at |-> lookup[l].at, read |-> [lookup[l].read EXCEPT !.left = Less(@)],
                           age |-> lookup[l].age + 1]
    BY DEF CheckTick
  <2>2. /\ lookup[l] \in [at : Instances \cup {"none"}, read : State, age : 0..MaxLatency]
        /\ lookup[l].read \in State /\ lookup[l].age \in 0..MaxLatency
        /\ lookup[l].at \in Instances \cup {"none"}
    BY <1>0, Typed DEF CheckTypeOK
  <2> DEFINE older == [lookup[l].read EXCEPT !.left = Less(@)]
  <2>3. /\ older \in State /\ older.revoked = lookup[l].read.revoked
        /\ older.left = Less(lookup[l].read.left)
    BY <2>2, Ticks DEF State
  <2> HIDE DEF older
  <2>5. CASE lookup[l].at = "none"
    BY <2>1, <2>5, ConstantTypes DEF NoLookup, RevokedMarker
  <2>6. CASE lookup[l].at # "none"
    <3>1. lookup[l].age + 1 \in 0..MaxLatency
      BY <1>1, <2>2, <2>6 DEF Parameters
    <3>2. lookup'[l] = [at |-> lookup[l].at, read |-> older, age |-> lookup[l].age + 1]
      BY <2>1, <2>6 DEF older
    <3>. QED
      BY <2>2, <2>3, <2>6, <3>1, <3>2
  <2>. QED
    BY <2>5, <2>6
<1>5. /\ since' \in [revoked : 0..Bound, renewed : 0..Bound]
      /\ since'.revoked <= since.revoked + 1 /\ since'.renewed <= since.renewed + 1
      /\ ~row.revoked => since'.revoked = 0
  <2>1. since' = [revoked |-> IF row.revoked THEN More(since.revoked) ELSE 0,
                  renewed |-> More(since.renewed)]
    BY DEF CheckTick
  <2>2. since.revoked \in 0..Bound /\ since.renewed \in 0..Bound /\ 0 \in 0..Bound
    BY <1>0, Typed DEF Bound, Parameters
  <2>. QED
    BY <2>1, <2>2, Ticks
<1>6. CheckTypeOK'
  <2>1. cache' \in [Instances -> [state : State, fresh : 0..CacheFor]]
    <3>1. cache' = [i \in Instances |-> cache'[i]]
      BY DEF CheckTick
    <3>. QED
      BY <1>3, <3>1
  <2>2. lookup' \in [Lookups -> [at : Instances \cup {"none"}, read : State, age : 0..MaxLatency]]
    <3>1. lookup' = [l \in Lookups |-> lookup'[l]]
      BY DEF CheckTick
    <3>. QED
      BY <1>4, <3>1
  <2>. QED
    BY <1>0, <1>1, <1>2, <1>5, <2>1, <2>2 DEF CheckTypeOK
<1>7. CacheInv'
  <2> SUFFICES ASSUME NEW i \in Instances
               PROVE  CacheFits(i)'
    BY DEF CacheInv
  <2>1. /\ CacheFits(i) /\ cache[i].fresh \in 0..CacheFor /\ cache[i].state.left \in 0..RowLifetime
        /\ row.left \in 0..RowLifetime /\ since.revoked \in 0..Bound /\ since.renewed \in 0..Bound
        /\ since'.revoked \in 0..Bound /\ since'.renewed \in 0..Bound
    BY <1>0, <1>6, Typed DEF CacheInv, CheckTypeOK
  <2>2. Less(row.left) \in 0..RowLifetime
    BY <2>1, Ticks
  <2>3. CASE cache[i].fresh <= 1
    BY <1>2, <1>3, <2>2, <2>3 DEF CacheFits, Cached
  <2>4. CASE cache[i].fresh > 1
    <3>1. /\ cache'[i].fresh = cache[i].fresh - 1
          /\ cache'[i].state.revoked = cache[i].state.revoked
          /\ cache'[i].state.left = Less(cache[i].state.left)
      BY <1>3, <2>4
    <3>2. Reached(i)' = Reached(i) + 1 /\ Reached(i) \in Int
      BY <2>1, <3>1 DEF Reached, Parameters
    <3>3. /\ Less(cache[i].state.left) <= Less(row.left)
          /\ Less(cache[i].state.left) < Less(row.left) => cache[i].state.left < row.left
      <4>1. cache[i].state.left \in Nat /\ row.left \in Nat /\ cache[i].state.left <= row.left
        BY <2>1 DEF CacheFits
      <4>. QED
        BY <4>1, Ticks
    <3>4. Cached(i)
      BY <2>1, <2>4 DEF Cached, Parameters
    <3>. QED
      BY <1>2, <1>5, <2>1, <3>1, <3>2, <3>3, <3>4 DEF CacheFits, Parameters
  <2>. QED
    BY <2>1, <2>3, <2>4 DEF Parameters
<1>8. LookupInv'
  <2> SUFFICES ASSUME NEW l \in Lookups
               PROVE  LookupFits(l)'
    BY DEF LookupInv
  <2>1. /\ LookupFits(l) /\ lookup[l].age \in 0..MaxLatency /\ lookup[l].read.left \in 0..RowLifetime
        /\ row.left \in 0..RowLifetime /\ since.revoked \in 0..Bound /\ since.renewed \in 0..Bound
        /\ since'.revoked \in 0..Bound /\ since'.renewed \in 0..Bound
    BY <1>0, <1>6, Typed DEF LookupInv, CheckTypeOK
  <2>2. Less(row.left) \in 0..RowLifetime
    BY <2>1, Ticks
  <2>3. CASE lookup[l].at = "none"
    <3>1. lookup'[l].at = "none" /\ lookup'[l].read.left = 0
      BY <1>4, <2>3
    <3>. QED
      BY <1>2, <2>2, <3>1 DEF LookupFits, InFlight, Parameters
  <2>4. CASE lookup[l].at # "none"
    <3>1. /\ lookup'[l].at = lookup[l].at /\ lookup'[l].age = lookup[l].age + 1
          /\ lookup'[l].read.revoked = lookup[l].read.revoked
          /\ lookup'[l].read.left = Less(lookup[l].read.left)
      BY <1>4, <2>4
    <3>2. /\ Less(lookup[l].read.left) <= Less(row.left)
          /\ Less(lookup[l].read.left) < Less(row.left) => lookup[l].read.left < row.left
      BY <2>1, Ticks DEF LookupFits, Parameters
    <3>. QED
      BY <1>2, <1>5, <2>1, <3>1, <3>2 DEF LookupFits, InFlight, Parameters
  <2>. QED
    BY <2>3, <2>4
<1>9. RevokedInv'
  <2>1. ~row.revoked => since'.revoked = 0 /\ marking = {} /\ marked = {}
    BY <1>0, <1>5 DEF RevokedInv
  <2>2. ASSUME MaxLatency < CacheFor, NEW i \in marked
        PROVE  MarkedFits(i)'
    <3>1. MarkedFits(i) /\ i \in Instances /\ cache[i].fresh \in 0..CacheFor
      BY <1>0, <2>2, Typed DEF RevokedInv, CheckTypeOK
    <3>2. Cached(i)' => cache'[i].state.revoked
      BY <1>3, <3>1 DEF MarkedFits, Cached, Parameters
    <3>3. ASSUME NEW l \in Lookups, lookup'[l].at = i, ~lookup'[l].read.revoked
          PROVE  cache'[i].fresh + lookup'[l].age > MaxLatency
      <4>1. lookup[l].at = i /\ i # "none"
        BY <1>4, <3>1, <3>3 DEF Parameters
      <4>2. ~lookup[l].read.revoked /\ lookup'[l].age = lookup[l].age + 1
        BY <1>4, <3>3, <4>1
      <4>3. /\ cache[i].fresh + lookup[l].age > MaxLatency /\ lookup[l].age < MaxLatency
            /\ lookup[l].age \in 0..MaxLatency
        BY <1>0, <1>1, <3>1, <4>1, <4>2, Typed DEF MarkedFits
      <4>4. cache[i].fresh > 1
        BY <3>1, <4>3 DEF Parameters
      <4>5. cache'[i].fresh = cache[i].fresh - 1
        BY <1>3, <3>1, <4>4
      <4>. QED
        BY <3>1, <4>2, <4>3, <4>5 DEF Parameters
    <3>. QED
      BY <3>2, <3>3 DEF MarkedFits
  <2>. QED
    BY <1>1, <1>2, <2>1, <2>2 DEF RevokedInv
<1>. QED
  BY <1>6, <1>7, <1>8, <1>9 DEF CheckInv

-----------------------------------------------------------------------------
(* The theorem. *)

\* Every step keeps the invariant.
LEMMA StaysIn ==
    ASSUME Parameters
    PROVE  CheckInv /\ [CheckNext]_checkVars => CheckInv'
<1> SUFFICES ASSUME CheckInv, [CheckNext]_checkVars
             PROVE  CheckInv'
  OBVIOUS
<1>1. ASSUME NEW l \in Lookups, NEW i \in Instances, LookupReads(l, i)
      PROVE  CheckInv'
  BY <1>1, ReadingKeepsIt
<1>2. ASSUME NEW l \in Lookups, LookupStores(l)
      PROVE  CheckInv'
  BY <1>2, StoringKeepsIt
<1>3. ASSUME NEW l \in Lookups, LookupFails(l)
      PROVE  CheckInv'
  BY <1>3, FailingKeepsIt
<1>4. ASSUME NEW i \in Instances, NEW heard \in BOOLEAN, RevokeCommits(i, heard)
      PROVE  CheckInv'
  BY <1>4, RevokingKeepsIt
<1>5. ASSUME NEW i \in Instances, MarkRevoked(i)
      PROVE  CheckInv'
  BY <1>5, MarkingKeepsIt
<1>6. ASSUME NEW i \in Instances, Restart(i)
      PROVE  CheckInv'
  BY <1>6, RestartingKeepsIt
<1>7. ASSUME NEW i \in Instances, Evict(i)
      PROVE  CheckInv'
  BY <1>7, EvictingKeepsIt
<1>8. CASE Renew
  BY <1>8, RenewingKeepsIt
<1>9. CASE CheckTick
  BY <1>9, TickingKeepsIt
<1>10. CASE UNCHANGED checkVars
  BY <1>10
     DEF checkVars, CheckInv, CheckTypeOK, CacheInv, CacheFits, LookupInv, LookupFits, RevokedInv, MarkedFits,
         Cached, Reached, InFlight
<1>. QED
  BY <1>1, <1>2, <1>3, <1>4, <1>5, <1>6, <1>7, <1>8, <1>9, <1>10 DEF CheckNext

\* SessionLiveness.cs: no instance admits a revoked session for longer than an answer is
\* cached and a lookup takes; where it was revoked nothing brings it back, as long as no
\* lookup outlasts a marker; no answer outlives the session, and a renewed one is not
\* refused for longer than that.  For every number of instances and lookups in flight.
THEOREM AdmissionIsBoundedHolds ==
    CheckSpec => []AdmissionIsBounded
<1>. Parameters
  BY CheckAssumption
<1>1. CheckInv => AdmissionIsBounded
  <2> SUFFICES ASSUME CheckInv
               PROVE  AdmissionIsBounded
    BY DEF CheckInv
  <2>0. CheckTypeOK /\ CacheInv /\ LookupInv /\ RevokedInv
    BY DEF CheckInv
  <2>1. ASSUME NEW i \in Instances, Cached(i)
        PROVE  /\ Reached(i) < CacheFor + MaxLatency /\ Reached(i) \in Int
               /\ since.revoked \in 0..Bound /\ since.renewed \in 0..Bound
               /\ cache[i].state.left \in 0..RowLifetime /\ row.left \in 0..RowLifetime
               /\ CacheFits(i)
    BY <2>0, <2>1, Typed DEF Cached, Reached, Parameters, CacheInv
  <2>2. RevocationReachesEveryone
    <3> SUFFICES ASSUME NEW i \in Instances, since.revoked >= CacheFor + MaxLatency, Cached(i),
                        Live(cache[i].state)
                 PROVE  FALSE
      BY DEF RevocationReachesEveryone, Admits
    <3>1. row.revoked
      BY <2>0 DEF RevokedInv, Parameters
    <3>2. since.revoked <= Reached(i)
      BY <2>1, <3>1 DEF CacheFits, Live
    <3>. QED
      BY <2>1, <3>2 DEF Parameters
  <2>3. RefusedWhereRevoked
    BY <2>0 DEF RefusedWhereRevoked, RevokedInv, MarkedFits, Admits, Live
  <2>4. ExpiredIsRefused
    BY <2>1 DEF ExpiredIsRefused, Admits, Live, CacheFits
  <2>5. RefusalLapses
    <3> SUFFICES ASSUME NEW i \in Instances, Live(row), Cached(i), ~Live(cache[i].state)
                 PROVE  since.renewed < CacheFor + MaxLatency
      BY DEF RefusalLapses
    <3>1. ~row.revoked /\ row.left > 0 /\ ~cache[i].state.revoked
      BY <2>1 DEF Live, CacheFits
    <3>2. cache[i].state.left < row.left
      BY <2>1, <3>1 DEF Live
    <3>3. since.renewed <= Reached(i)
      BY <2>1, <3>1, <3>2 DEF CacheFits
    <3>. QED
      BY <2>1, <3>3 DEF Parameters
  <2>. QED
    BY <2>0, <2>2, <2>3, <2>4, <2>5 DEF AdmissionIsBounded
<1>. QED
  BY <1>1, StartsIn, StaysIn, PTL DEF CheckSpec
================================================================================
