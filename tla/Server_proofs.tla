--------------------------- MODULE Server_proofs ---------------------------
(***************************************************************************)
(* Theorems about what a server does around its requests, for every value  *)
(* of the constants: the per-key lock and the replay filter of idempotent  *)
(* requests, the audit pipeline, and the provisioning of a tenant.         *)
(*                                                                         *)
(* The lock: an entry's Waiters is the number of its users, so the last    *)
(* one out, and nobody else, removes it.  The filter: a run that is not    *)
(* excused by a fault is one a stored answer or the holder stands for.     *)
(*                                                                         *)
(* The audit pipeline: each event that was not lost or written is in one   *)
(* place of one lane, and the places of a lane hold its events in the      *)
(* order they were published.                                              *)
(*                                                                         *)
(* Provisioning: a run's tracked row only claims what was done, and unless *)
(* a job was fetched twice it is the stored row, so that what the run      *)
(* writes next fits what is stored.                                        *)
(***************************************************************************)
EXTENDS Idempotency, MCServerWork, FiniteSetTheorems, SequenceTheorems, WellFoundedInduction, TLAPS

-----------------------------------------------------------------------------
(* The lock. *)

Users(i) == {r \in Requests : Home[r] = i /\ turn[r].pc # "out"}
Held(i) == \E r \in Requests : Home[r] = i /\ turn[r].pc = "holding"

OnlyUsersRefer == \A r \in Requests : turn[r].pc = "out" <=> turn[r].on = None
OwnEntries == \A i, j \in Instances : table[i] = table[j] /\ table[i] # None => i = j
WaitersCount == \A i \in Instances : table[i] # None => entry[table[i]].waiters = Cardinality(Users(i))
OnePermit == \A i \in Instances : table[i] # None => entry[table[i]].permits = IF Held(i) THEN 0 ELSE 1

LockInv == LockIsSound /\ OnlyUsersRefer /\ OwnEntries /\ WaitersCount /\ OnePermit


\* Users of a process are finitely many, and each is counted by a number.
LEMMA UsersAreFinite ==
    ASSUME NEW i
    PROVE  IsFiniteSet(Users(i)) /\ Cardinality(Users(i)) \in Nat
<1>1. Users(i) \in SUBSET Requests BY DEF Users
<1>2. QED BY <1>1, FinitelyMany, FS_Subset, FS_CardinalityType

\* While a request is out, the others cannot refer to every entry: Enters finds one.
LEMMA OneIsFree ==
    ASSUME LockInv, NEW r \in Requests, turn[r].pc = "out"
    PROVE  \E f \in Entries : ~Referenced(f)
<1> DEFINE S == Requests \ {r}
           T == {turn[q].on : q \in S}
           F == [q \in S |-> turn[q].on]
<1>1. IsFiniteSet(S) /\ Cardinality(S) = Cardinality(Requests) - 1 /\ Cardinality(Requests) \in Nat
  BY FinitelyMany, FS_RemoveElement, FS_CardinalityType
<1>2. F \in Surjection(S, T) BY DEF Surjection
<1>3. IsFiniteSet(T) /\ Cardinality(T) <= Cardinality(S)
  BY <1>1, <1>2, FS_Surjection
<1>4. ASSUME \A f \in Entries : Referenced(f) PROVE FALSE
  <2>1. ASSUME NEW f \in Entries PROVE f \in T
    <3>1. f # None BY EnoughEntries
    <3>2. turn[r].on = None BY DEF LockInv, OnlyUsersRefer
    <3>3. CASE \E i \in Instances : table[i] = f
      <4>1. PICK i \in Instances : table[i] = f BY <3>3
      <4>2. PICK q \in Requests : Home[q] = i /\ turn[q].pc # "out"
        BY <4>1, <3>1 DEF LockInv, LockIsSound, NoEntryLeaks
      <4>3. turn[q].on = f BY <4>1, <4>2 DEF LockInv, LockIsSound, LockInUseIsLive
      <4>4. q # r BY <4>2
      <4>5. QED BY <4>3, <4>4
    <3>4. CASE \E q \in Requests : turn[q].on = f
      <4>1. PICK q \in Requests : turn[q].on = f BY <3>4
      <4>2. q # r BY <4>1, <3>1, <3>2
      <4>3. QED BY <4>1, <4>2
    <3>5. QED BY <1>4, <3>3, <3>4 DEF Referenced
  <2>2. Entries \in SUBSET T BY <2>1
  <2>3. Cardinality(Entries) <= Cardinality(T) BY <1>3, <2>2, FS_Subset
  <2>4. Cardinality(T) \in Nat /\ Cardinality(Entries) \in Nat
    BY <1>3, FinitelyMany, FS_CardinalityType
  <2>5. QED BY <2>3, <2>4, <1>1, <1>3, EnoughEntries
<1>5. QED BY <1>4

\* TryAcquireAsync up to its wait, with an entry known or added.
LEMMA EntersKeepsLock ==
    ASSUME LockInv, NEW r \in Requests, Enters(r)
    PROVE  LockInv'
<1> DEFINE i == Home[r]
           known == table[i] # None
           e == IF known THEN table[i] ELSE CHOOSE f \in Entries : ~Referenced(f)
<1>0. /\ turn[r].pc = "out" /\ turn[r].on = None
      /\ table' = [table EXCEPT ![i] = e]
      /\ entry' = IF known THEN [entry EXCEPT ![e].waiters = @ + 1] ELSE [entry EXCEPT ![e] = FreshEntry]
      /\ turn' = [turn EXCEPT ![r] = [pc |-> "waiting", on |-> e]]
  BY DEF Enters, LockInv, OnlyUsersRefer
<1>1. LockTypeOK /\ i \in Instances BY HomeAssumption DEF LockInv, LockIsSound
<1>2. e \in Entries /\ (~known => ~Referenced(e))
  BY <1>0, <1>1, OneIsFree DEF LockTypeOK
<1>3. e # None BY <1>2, EnoughEntries
<1> HIDE DEF e
<1>4. \A q \in Requests : q # r => turn'[q] = turn[q]
  BY <1>0, <1>1 DEF LockTypeOK
<1>5. turn'[r] = [pc |-> "waiting", on |-> e] /\ table'[i] = e
  BY <1>0, <1>1 DEF LockTypeOK
<1>6. \A j \in Instances : j # i => table'[j] = table[j] /\ (table[j] # None => table[j] # e)
  BY <1>0, <1>1, <1>2 DEF LockTypeOK, LockInv, OwnEntries, Referenced, e
<1>7. Users(i)' = Users(i) \cup {r} /\ r \notin Users(i)
  BY <1>0, <1>4, <1>5 DEF Users
<1>8. \A j \in Instances : j # i => Users(j)' = Users(j)
  <2> SUFFICES ASSUME NEW j \in Instances, j # i PROVE Users(j)' = Users(j)
    OBVIOUS
  <2>1. \A q \in Requests : Home[q] = j => turn'[q] = turn[q]
    BY <1>4
  <2>2. QED BY <2>1 DEF Users
<1>9. \A j \in Instances : Held(j)' <=> Held(j)
  <2>1. turn[r].pc = "out" /\ turn'[r].pc = "waiting" BY <1>0, <1>5
  <2>2. \A q \in Requests : turn'[q].pc = "holding" <=> turn[q].pc = "holding"
    BY <2>1, <1>4
  <2>3. QED BY <2>2 DEF Held
<1>10. entry'[e] = IF known THEN [entry[e] EXCEPT !.waiters = @ + 1] ELSE FreshEntry
  <2>1. entry \in [Entries -> Entry] BY <1>1 DEF LockTypeOK
  <2>2. CASE known BY <2>1, <2>2, <1>0, <1>2
  <2>3. CASE ~known BY <2>1, <2>3, <1>0, <1>2
  <2>4. QED BY <2>2, <2>3
<1>11. \A f \in Entries : f # e => entry'[f] = entry[f]
  BY <1>0, <1>1 DEF LockTypeOK
<1>12. Cardinality(Users(i)') = Cardinality(Users(i)) + 1
  BY <1>7, UsersAreFinite, FS_AddElement
<1>13. Cardinality(Users(i)') <= Cardinality(Requests) /\ Cardinality(Users(i)') \in Nat
  <2>1. Users(i)' \in SUBSET Requests BY DEF Users
  <2>2. QED BY <2>1, FinitelyMany, FS_Subset, FS_CardinalityType
<1>14. known => entry[e].waiters = Cardinality(Users(i))
  BY <1>1 DEF e, LockInv, WaitersCount
<1>15. ~known => Cardinality(Users(i)) = 0
  <2>1. ~known => Users(i) = {}
    BY <1>1, EnoughEntries DEF Users, LockInv, LockIsSound, LockInUseIsLive, OnlyUsersRefer
  <2>2. QED BY <2>1, FS_EmptySet
<1>16. entry'[e].waiters = Cardinality(Users(i)')
  BY <1>10, <1>12, <1>14, <1>15, <1>1, <1>2 DEF FreshEntry, LockTypeOK, Entry
<1>17. LockTypeOK'
  <2>1. entry'[e] \in Entry
    BY <1>10, <1>16, <1>13, <1>1, <1>2 DEF FreshEntry, LockTypeOK, Entry
  <2>2. QED BY <2>1, <1>0, <1>1, <1>2, <1>11 DEF LockTypeOK, Turn
<1>18. LockInUseIsLive'
  <2> SUFFICES ASSUME NEW q \in Requests, turn'[q].pc # "out"
               PROVE  table'[Home[q]] = turn'[q].on /\ ~entry'[turn'[q].on].disposed
    BY DEF LockInUseIsLive
  <2>1. ~entry'[e].disposed
    <3>1. CASE ~known BY <3>1, <1>10 DEF FreshEntry
    <3>2. CASE known
      <4>1. \E q2 \in Requests : Home[q2] = i /\ turn[q2].pc # "out"
        BY <3>2, <1>1 DEF LockInv, LockIsSound, NoEntryLeaks
      <4>2. ~entry[e].disposed BY <3>2, <4>1 DEF e, LockInv, LockIsSound, LockInUseIsLive
      <4>3. QED BY <3>2, <4>2, <1>10, <1>1, <1>2 DEF LockTypeOK, Entry
    <3>3. QED BY <3>1, <3>2
  <2>2. CASE q = r BY <2>1, <2>2, <1>5
  <2>3. CASE q # r
    <3>1. table[Home[q]] = turn[q].on /\ ~entry[turn[q].on].disposed /\ turn'[q] = turn[q]
      BY <2>3, <1>4 DEF LockInv, LockIsSound, LockInUseIsLive
    <3>2. Home[q] \in Instances /\ turn[q].on \in Entries
      BY <3>1, <2>3, <1>1, <1>4, HomeAssumption, EnoughEntries DEF LockTypeOK, Turn, LockInv, OnlyUsersRefer
    <3>3. CASE Home[q] = i
      <4>1. known BY <3>1, <3>2, <3>3, EnoughEntries
      <4>2. QED BY <4>1, <3>1, <3>3, <1>5, <2>1 DEF e
    <3>4. CASE Home[q] # i BY <3>1, <3>2, <3>4, <1>6, <1>11, EnoughEntries
    <3>5. QED BY <3>3, <3>4
  <2>4. QED BY <2>2, <2>3
<1>19. NoEntryLeaks'
  BY <1>0, <1>4, <1>5, <1>6 DEF LockInv, LockIsSound, NoEntryLeaks
<1>20. OneHolder'
  BY <1>4, <1>5 DEF LockInv, LockIsSound, OneHolder
<1>21. OnlyUsersRefer'
  BY <1>3, <1>4, <1>5 DEF LockInv, OnlyUsersRefer
<1>22. OwnEntries'
  BY <1>5, <1>6 DEF LockInv, OwnEntries
<1>23. WaitersCount'
  BY <1>16, <1>5, <1>6, <1>8, <1>11, <1>1 DEF WaitersCount, LockInv, LockTypeOK
<1>24. OnePermit'
  <2> SUFFICES ASSUME NEW j \in Instances, table'[j] # None
               PROVE  entry'[table'[j]].permits = IF Held(j)' THEN 0 ELSE 1
    BY DEF OnePermit
  <2>1. CASE j # i
    BY <2>1, <1>6, <1>9, <1>11, <1>1 DEF LockInv, OnePermit, LockTypeOK
  <2>2. CASE j = i /\ known
    BY <2>2, <1>5, <1>9, <1>10, <1>1, <1>2 DEF LockInv, OnePermit, LockTypeOK, Entry, e
  <2>3. CASE j = i /\ ~known
    <3>1. ~Held(i)
      BY <2>3, <1>1, EnoughEntries DEF Held, LockInv, LockIsSound, LockInUseIsLive, OnlyUsersRefer
    <3>2. QED BY <2>3, <3>1, <1>5, <1>9, <1>10 DEF FreshEntry
  <2>4. QED BY <2>1, <2>2, <2>3
<1>25. QED
  BY <1>17, <1>18, <1>19, <1>20, <1>21, <1>22, <1>23, <1>24 DEF LockInv, LockIsSound

\* The semaphore lets the holder in.
LEMMA AcquiresKeepsLock ==
    ASSUME LockInv, NEW r \in Requests, Acquires(r)
    PROVE  LockInv'
<1> DEFINE i == Home[r]
           e == turn[r].on
<1>0. /\ turn[r].pc = "waiting" /\ entry[e].permits > 0
      /\ entry' = [entry EXCEPT ![e].permits = @ - 1]
      /\ turn' = [turn EXCEPT ![r].pc = "holding"]
      /\ table' = table
  BY DEF Acquires
<1>1. LockTypeOK /\ i \in Instances BY HomeAssumption DEF LockInv, LockIsSound
<1>2. e \in Entries /\ table[i] = e /\ e # None
  BY <1>0, <1>1, EnoughEntries DEF LockTypeOK, Turn, LockInv, LockIsSound, LockInUseIsLive, OnlyUsersRefer
<1>3. \A q \in Requests : q # r => turn'[q] = turn[q]
  BY <1>0, <1>1 DEF LockTypeOK
<1>4. turn'[r].pc = "holding" /\ turn'[r].on = e /\ turn'[r] \in Turn
  BY <1>0, <1>1 DEF LockTypeOK, Turn
<1>5. entry[e].permits = 1 /\ ~Held(i)
  BY <1>0, <1>1, <1>2 DEF LockInv, OnePermit, LockTypeOK, Entry
<1>6. /\ entry'[e].permits = 0 /\ entry'[e].waiters = entry[e].waiters
      /\ entry'[e].disposed = entry[e].disposed /\ entry'[e] \in Entry
  BY <1>0, <1>1, <1>2, <1>5 DEF LockTypeOK, Entry
<1>7. \A f \in Entries : f # e => entry'[f] = entry[f]
  BY <1>0, <1>1 DEF LockTypeOK
<1>8. \A q \in Requests : (turn'[q].pc = "out" <=> turn[q].pc = "out") /\ turn'[q].on = turn[q].on
  BY <1>0, <1>3, <1>4
<1>9. \A j \in Instances : Users(j)' = Users(j)
  BY <1>8 DEF Users
<1>10. LockTypeOK'
  BY <1>0, <1>1, <1>4, <1>6, <1>7 DEF LockTypeOK
<1>11. LockInUseIsLive'
  BY <1>0, <1>1, <1>6, <1>7, <1>8, EnoughEntries DEF LockInv, LockIsSound, LockInUseIsLive, LockTypeOK, Turn, OnlyUsersRefer
<1>12. NoEntryLeaks'
  BY <1>0, <1>8 DEF LockInv, LockIsSound, NoEntryLeaks
<1>13. OneHolder'
  BY <1>3, <1>4, <1>5 DEF LockInv, LockIsSound, OneHolder, Held
<1>14. OnlyUsersRefer'
  BY <1>8 DEF LockInv, OnlyUsersRefer
<1>15. OwnEntries'
  BY <1>0 DEF LockInv, OwnEntries
<1>16. WaitersCount'
  BY <1>0, <1>1, <1>6, <1>7, <1>9 DEF LockInv, WaitersCount, LockTypeOK
<1>17. OnePermit'
  <2> SUFFICES ASSUME NEW j \in Instances, table'[j] # None
               PROVE  entry'[table'[j]].permits = IF Held(j)' THEN 0 ELSE 1
    BY DEF OnePermit
  <2>1. CASE j = i
    <3>1. Held(j)' BY <2>1, <1>4 DEF Held
    <3>2. QED BY <2>1, <3>1, <1>0, <1>2, <1>6
  <2>2. CASE j # i
    <3>1. table[j] \in Entries /\ table[j] # e
      BY <2>2, <1>0, <1>1, <1>2 DEF LockInv, OwnEntries, LockTypeOK
    <3>2. Held(j)' = Held(j) BY <2>2, <1>3 DEF Held
    <3>3. QED BY <3>1, <3>2, <1>0, <1>7 DEF LockInv, OnePermit
  <2>3. QED BY <2>1, <2>2
<1>18. QED
  BY <1>10, <1>11, <1>12, <1>13, <1>14, <1>15, <1>16, <1>17 DEF LockInv, LockIsSound

\* A wait that ends without the semaphore: the reference is still counted.
LEMMA GivesUpKeepsLock ==
    ASSUME LockInv, NEW r \in Requests, GivesUp(r)
    PROVE  LockInv'
<1>0. /\ turn[r].pc = "waiting"
      /\ turn' = [turn EXCEPT ![r].pc = "leaving"]
      /\ table' = table /\ entry' = entry
  BY DEF GivesUp
<1>1. LockTypeOK BY DEF LockInv, LockIsSound
<1>2. \A q \in Requests : q # r => turn'[q] = turn[q]
  BY <1>0, <1>1 DEF LockTypeOK
<1>3. turn'[r].pc = "leaving" /\ turn'[r].on = turn[r].on /\ turn'[r] \in Turn
  BY <1>0, <1>1 DEF LockTypeOK, Turn
<1>4. \A q \in Requests : /\ turn'[q].pc = "out" <=> turn[q].pc = "out"
                          /\ turn'[q].pc = "holding" <=> turn[q].pc = "holding"
                          /\ turn'[q].on = turn[q].on
  BY <1>0, <1>2, <1>3
<1>5. \A j \in Instances : Users(j)' = Users(j) /\ (Held(j)' <=> Held(j))
  BY <1>4 DEF Users, Held
<1>6. LockTypeOK' BY <1>0, <1>1, <1>3 DEF LockTypeOK
<1>7. LockInUseIsLive' /\ NoEntryLeaks' /\ OneHolder'
  BY <1>0, <1>4 DEF LockInv, LockIsSound, LockInUseIsLive, NoEntryLeaks, OneHolder
<1>8. OnlyUsersRefer' /\ OwnEntries'
  BY <1>0, <1>4 DEF LockInv, OnlyUsersRefer, OwnEntries
<1>9. WaitersCount' /\ OnePermit'
  BY <1>0, <1>5 DEF LockInv, WaitersCount, OnePermit
<1>10. QED BY <1>6, <1>7, <1>8, <1>9 DEF LockInv, LockIsSound

\* The permit goes back: the one holder of the entry is no longer one.
LEMMA ReleasesKeepsLock ==
    ASSUME LockInv, NEW r \in Requests, ReleasesPermit(r)
    PROVE  LockInv'
<1> DEFINE i == Home[r]
           e == turn[r].on
<1>0. /\ turn[r].pc = "holding"
      /\ entry' = [entry EXCEPT ![e].permits = @ + 1]
      /\ turn' = [turn EXCEPT ![r].pc = "leaving"]
      /\ table' = table
  BY DEF ReleasesPermit
<1>1. LockTypeOK /\ i \in Instances BY HomeAssumption DEF LockInv, LockIsSound
<1>2. e \in Entries /\ table[i] = e /\ e # None
  BY <1>0, <1>1, EnoughEntries DEF LockTypeOK, Turn, LockInv, LockIsSound, LockInUseIsLive, OnlyUsersRefer
<1>3. \A q \in Requests : q # r => turn'[q] = turn[q]
  BY <1>0, <1>1 DEF LockTypeOK
<1>4. turn'[r].pc = "leaving" /\ turn'[r].on = e /\ turn'[r] \in Turn
  BY <1>0, <1>1 DEF LockTypeOK, Turn
<1>5. entry[e].permits = 0
  <2>1. Held(i) BY <1>0 DEF Held
  <2>2. QED BY <2>1, <1>1, <1>2 DEF LockInv, OnePermit
<1>6. /\ entry'[e].permits = 1 /\ entry'[e].waiters = entry[e].waiters
      /\ entry'[e].disposed = entry[e].disposed /\ entry'[e] \in Entry
  BY <1>0, <1>1, <1>2, <1>5 DEF LockTypeOK, Entry
<1>7. \A f \in Entries : f # e => entry'[f] = entry[f]
  BY <1>0, <1>1 DEF LockTypeOK
<1>8. \A q \in Requests : (turn'[q].pc = "out" <=> turn[q].pc = "out") /\ turn'[q].on = turn[q].on
  BY <1>0, <1>3, <1>4
<1>9. \A j \in Instances : Users(j)' = Users(j)
  BY <1>8 DEF Users
<1>10. LockTypeOK'
  BY <1>0, <1>1, <1>4, <1>6, <1>7 DEF LockTypeOK
<1>11. LockInUseIsLive'
  BY <1>0, <1>1, <1>6, <1>7, <1>8, EnoughEntries DEF LockInv, LockIsSound, LockInUseIsLive, LockTypeOK, Turn, OnlyUsersRefer
<1>12. NoEntryLeaks'
  BY <1>0, <1>8 DEF LockInv, LockIsSound, NoEntryLeaks
<1>13. OneHolder'
  BY <1>3, <1>4 DEF LockInv, LockIsSound, OneHolder
<1>14. OnlyUsersRefer'
  BY <1>8 DEF LockInv, OnlyUsersRefer
<1>15. OwnEntries'
  BY <1>0 DEF LockInv, OwnEntries
<1>16. WaitersCount'
  BY <1>0, <1>1, <1>6, <1>7, <1>9 DEF LockInv, WaitersCount, LockTypeOK
<1>17. OnePermit'
  <2> SUFFICES ASSUME NEW j \in Instances, table'[j] # None
               PROVE  entry'[table'[j]].permits = IF Held(j)' THEN 0 ELSE 1
    BY DEF OnePermit
  <2>1. CASE j = i
    <3>1. ~Held(j)' BY <2>1, <1>0, <1>3, <1>4 DEF Held, LockInv, LockIsSound, OneHolder
    <3>2. QED BY <2>1, <3>1, <1>0, <1>2, <1>6
  <2>2. CASE j # i
    <3>1. table[j] \in Entries /\ table[j] # e
      BY <2>2, <1>0, <1>1, <1>2 DEF LockInv, OwnEntries, LockTypeOK
    <3>2. Held(j)' = Held(j) BY <2>2, <1>3 DEF Held
    <3>3. QED BY <3>1, <3>2, <1>0, <1>7 DEF LockInv, OnePermit
  <2>3. QED BY <2>1, <2>2
<1>18. QED
  BY <1>10, <1>11, <1>12, <1>13, <1>14, <1>15, <1>16, <1>17 DEF LockInv, LockIsSound

\* The reference is dropped; the last user takes the entry with it.
LEMMA LeavesKeepsLock ==
    ASSUME LockInv, NEW r \in Requests, Leaves(r)
    PROVE  LockInv'
<1> DEFINE i == Home[r]
           e == turn[r].on
           last == entry[e].waiters = 1
<1>1. LockTypeOK /\ i \in Instances BY HomeAssumption DEF LockInv, LockIsSound
<1>2. e \in Entries /\ table[i] = e /\ e # None /\ ~entry[e].disposed
  BY <1>1, EnoughEntries DEF Leaves, LockTypeOK, Turn, LockInv, LockIsSound, LockInUseIsLive, OnlyUsersRefer
<1>0. /\ turn[r].pc = "leaving"
      /\ entry' = [entry EXCEPT ![e].waiters = @ - 1, ![e].disposed = last]
      /\ table' = IF last THEN [table EXCEPT ![i] = None] ELSE table
      /\ turn' = [turn EXCEPT ![r] = Out]
  BY <1>2 DEF Leaves, LastOut
<1>3. \A q \in Requests : q # r => turn'[q] = turn[q]
  BY <1>0, <1>1 DEF LockTypeOK
<1>4. turn'[r] = Out /\ turn'[r].pc = "out" /\ turn'[r].on = None /\ turn'[r] \in Turn
  BY <1>0, <1>1 DEF LockTypeOK, Turn, Out
<1>5. Users(i)' = Users(i) \ {r} /\ r \in Users(i)
  BY <1>0, <1>3, <1>4 DEF Users
<1>6. Cardinality(Users(i)') = Cardinality(Users(i)) - 1
  BY <1>5, UsersAreFinite, FS_RemoveElement
<1>7. entry[e].waiters = Cardinality(Users(i)) /\ entry[e].waiters \in Nat
  BY <1>1, <1>2, UsersAreFinite DEF LockInv, WaitersCount
<1>8. last <=> Users(i)' = {}
  <2>1. IsFiniteSet(Users(i)')
    BY <1>5, UsersAreFinite, FS_RemoveElement
  <2>2. Cardinality(Users(i)') = 0 <=> Users(i)' = {}
    BY <2>1, FS_EmptySet
  <2>3. QED BY <2>2, <1>6, <1>7
<1>9. /\ entry'[e].waiters = Cardinality(Users(i)') /\ entry'[e].permits = entry[e].permits
      /\ entry'[e].disposed = last /\ entry'[e] \in Entry
  <2>1. entry[e].waiters >= 1
    <3>1. Cardinality(Users(i)) # 0 BY <1>5, UsersAreFinite, FS_EmptySet
    <3>2. QED BY <3>1, <1>7
  <2>2. entry[e] \in Entry /\ entry'[e] = [entry[e] EXCEPT !.waiters = @ - 1, !.disposed = last]
    BY <1>0, <1>1, <1>2 DEF LockTypeOK
  <2>3. Cardinality(Requests) \in Nat BY FinitelyMany, FS_CardinalityType
  <2>4. last \in BOOLEAN OBVIOUS
  <2> HIDE DEF last
  <2>5. entry'[e].waiters = entry[e].waiters - 1 /\ entry'[e].disposed = last /\ entry'[e].permits = entry[e].permits
    BY <2>2 DEF Entry
  <2>6. entry'[e] \in Entry
    <3>1. entry'[e] = [permits |-> entry[e].permits, waiters |-> entry[e].waiters - 1, disposed |-> last]
      BY <2>2 DEF Entry
    <3>2. entry[e].waiters - 1 \in 0..Cardinality(Requests) /\ entry[e].permits \in 0..1
      BY <2>1, <2>2, <2>3 DEF Entry
    <3>3. QED BY <3>1, <3>2, <2>4 DEF Entry
  <2>7. QED BY <2>5, <2>6, <1>6, <1>7
<1>10. \A f \in Entries : f # e => entry'[f] = entry[f]
  BY <1>0, <1>1 DEF LockTypeOK
<1>11. \A j \in Instances : j # i =>
           Users(j)' = Users(j) /\ (Held(j)' <=> Held(j)) /\ table'[j] = table[j]
  <2> SUFFICES ASSUME NEW j \in Instances, j # i
               PROVE  Users(j)' = Users(j) /\ (Held(j)' <=> Held(j)) /\ table'[j] = table[j]
    OBVIOUS
  <2>1. \A q \in Requests : Home[q] = j => turn'[q] = turn[q] BY <1>3
  <2>2. QED BY <2>1, <1>0, <1>1 DEF Users, Held, LockTypeOK
<1>12. table'[i] = IF last THEN None ELSE e
  BY <1>0, <1>1, <1>2 DEF LockTypeOK
<1>13. Held(i)' <=> Held(i)
  <2>1. \A q \in Requests : turn'[q].pc = "holding" <=> turn[q].pc = "holding"
    BY <1>0, <1>3, <1>4
  <2>2. QED BY <2>1 DEF Held
<1>14. \A j \in Instances : j # i => table[j] # e
  BY <1>1, <1>2 DEF LockInv, OwnEntries
<1>15. LockTypeOK'
  BY <1>0, <1>1, <1>4, <1>9, <1>10 DEF LockTypeOK
<1>16. LockInUseIsLive'
  <2> SUFFICES ASSUME NEW q \in Requests, turn'[q].pc # "out"
               PROVE  table'[Home[q]] = turn'[q].on /\ ~entry'[turn'[q].on].disposed
    BY DEF LockInUseIsLive
  <2>1. q # r /\ turn'[q] = turn[q] /\ Home[q] \in Instances
    BY <1>3, <1>4, HomeAssumption
  <2>2. table[Home[q]] = turn[q].on /\ ~entry[turn[q].on].disposed /\ turn[q].on \in Entries
    BY <2>1, <1>1, EnoughEntries DEF LockTypeOK, Turn, LockInv, LockIsSound, LockInUseIsLive, OnlyUsersRefer
  <2>3. CASE Home[q] = i
    <3>1. q \in Users(i)' BY <2>3 DEF Users
    <3>2. ~last BY <3>1, <1>8
    <3>3. QED BY <3>2, <2>1, <2>2, <2>3, <1>2, <1>9, <1>12
  <2>4. CASE Home[q] # i
    BY <2>1, <2>2, <2>4, <1>10, <1>11, <1>14
  <2>5. QED BY <2>3, <2>4
<1>17. NoEntryLeaks'
  <2> SUFFICES ASSUME NEW j \in Instances, table'[j] # None
               PROVE  \E q \in Requests : Home[q] = j /\ turn'[q].pc # "out"
    BY DEF NoEntryLeaks
  <2>1. CASE j = i
    <3>1. Users(i)' # {} BY <2>1, <1>8, <1>12
    <3>2. QED BY <3>1, <2>1 DEF Users
  <2>2. CASE j # i
    <3>1. PICK q \in Requests : Home[q] = j /\ turn[q].pc # "out"
      BY <2>2, <1>11 DEF LockInv, LockIsSound, NoEntryLeaks
    <3>2. QED BY <3>1, <2>2, <1>3
  <2>3. QED BY <2>1, <2>2
<1>18. OneHolder'
  BY <1>3, <1>4 DEF LockInv, LockIsSound, OneHolder
<1>19. OnlyUsersRefer'
  BY <1>3, <1>4 DEF LockInv, OnlyUsersRefer
<1>20. OwnEntries'
  BY <1>11, <1>12, <1>14 DEF LockInv, OwnEntries
<1>21. WaitersCount'
  <2> SUFFICES ASSUME NEW j \in Instances, table'[j] # None
               PROVE  entry'[table'[j]].waiters = Cardinality(Users(j)')
    BY DEF WaitersCount
  <2>1. CASE j = i BY <2>1, <1>9, <1>12
  <2>2. CASE j # i
    BY <2>2, <1>1, <1>10, <1>11, <1>14 DEF LockInv, WaitersCount, LockTypeOK
  <2>3. QED BY <2>1, <2>2
<1>22. OnePermit'
  <2> SUFFICES ASSUME NEW j \in Instances, table'[j] # None
               PROVE  entry'[table'[j]].permits = IF Held(j)' THEN 0 ELSE 1
    BY DEF OnePermit
  <2>1. CASE j = i
    BY <2>1, <1>1, <1>2, <1>9, <1>12, <1>13 DEF LockInv, OnePermit
  <2>2. CASE j # i
    BY <2>2, <1>1, <1>10, <1>11, <1>14 DEF LockInv, OnePermit, LockTypeOK
  <2>3. QED BY <2>1, <2>2
<1>23. QED
  BY <1>15, <1>16, <1>17, <1>18, <1>19, <1>20, <1>21, <1>22 DEF LockInv, LockIsSound

\* A crash empties one dictionary and touches no other's entries.
LEMMA ForgetsKeepsLock ==
    ASSUME LockInv, NEW i \in Instances, LockForgets(i)
    PROVE  LockInv'
<1> DEFINE gone == {table[i]} \cup {turn[r].on : r \in {q \in Requests : Home[q] = i}}
<1>0. /\ table' = [table EXCEPT ![i] = None]
      /\ turn' = [r \in Requests |-> IF Home[r] = i THEN Out ELSE turn[r]]
      /\ entry' = [f \in Entries |-> IF f \in gone THEN Disposed ELSE entry[f]]
  BY DEF LockForgets
<1>1. LockTypeOK BY DEF LockInv, LockIsSound
<1>2. table'[i] = None /\ \A j \in Instances : j # i => table'[j] = table[j]
  BY <1>0, <1>1 DEF LockTypeOK
<1>3. \A q \in Requests : Home[q] = i => turn'[q] = Out /\ turn'[q].pc = "out" /\ turn'[q].on = None
  BY <1>0 DEF Out
<1>4. \A q \in Requests : Home[q] # i => turn'[q] = turn[q]
  BY <1>0
<1>5. \A j \in Instances : j # i => Users(j)' = Users(j) /\ (Held(j)' <=> Held(j))
  <2> SUFFICES ASSUME NEW j \in Instances, j # i
               PROVE  Users(j)' = Users(j) /\ (Held(j)' <=> Held(j))
    OBVIOUS
  <2>1. \A q \in Requests : Home[q] = j => turn'[q] = turn[q] BY <1>4
  <2>2. QED BY <2>1 DEF Users, Held
<1>6. ASSUME NEW j \in Instances, j # i, table[j] # None
      PROVE  table[j] \in Entries /\ entry'[table[j]] = entry[table[j]]
  <2>1. table[j] \in Entries BY <1>1, <1>6 DEF LockTypeOK
  <2>2. table[j] # table[i] BY <1>6 DEF LockInv, OwnEntries
  <2>3. ASSUME NEW q \in Requests, Home[q] = i PROVE turn[q].on # table[j]
    <3>1. CASE turn[q].pc = "out" BY <3>1, <1>6 DEF LockInv, OnlyUsersRefer
    <3>2. CASE turn[q].pc # "out"
      BY <3>2, <2>2, <2>3 DEF LockInv, LockIsSound, LockInUseIsLive
    <3>3. QED BY <3>1, <3>2
  <2>4. table[j] \notin gone BY <2>2, <2>3
  <2>5. QED BY <2>1, <2>4, <1>0
<1>7. LockTypeOK'
  <2>1. Disposed \in Entry
    BY FinitelyMany, FS_CardinalityType DEF Disposed, Entry
  <2>2. entry' \in [Entries -> Entry]
    BY <2>1, <1>0, <1>1 DEF LockTypeOK
  <2>3. turn' \in [Requests -> Turn]
    BY <1>0, <1>1 DEF LockTypeOK, Turn, Out
  <2>4. QED BY <2>2, <2>3, <1>0, <1>1 DEF LockTypeOK
<1>8. LockInUseIsLive'
  <2> SUFFICES ASSUME NEW q \in Requests, turn'[q].pc # "out"
               PROVE  table'[Home[q]] = turn'[q].on /\ ~entry'[turn'[q].on].disposed
    BY DEF LockInUseIsLive
  <2>1. Home[q] # i /\ turn'[q] = turn[q] /\ Home[q] \in Instances
    BY <1>3, <1>4, HomeAssumption
  <2>2. table[Home[q]] = turn[q].on /\ ~entry[turn[q].on].disposed /\ turn[q].on # None
    BY <2>1 DEF LockInv, LockIsSound, LockInUseIsLive, OnlyUsersRefer
  <2>3. QED BY <2>1, <2>2, <1>2, <1>6
<1>9. NoEntryLeaks'
  <2> SUFFICES ASSUME NEW j \in Instances, table'[j] # None
               PROVE  \E q \in Requests : Home[q] = j /\ turn'[q].pc # "out"
    BY DEF NoEntryLeaks
  <2>1. j # i /\ table[j] # None BY <1>2
  <2>2. PICK q \in Requests : Home[q] = j /\ turn[q].pc # "out"
    BY <2>1 DEF LockInv, LockIsSound, NoEntryLeaks
  <2>3. QED BY <2>1, <2>2, <1>4
<1>10. OneHolder'
  BY <1>3, <1>4 DEF LockInv, LockIsSound, OneHolder
<1>11. OnlyUsersRefer'
  BY <1>3, <1>4 DEF LockInv, OnlyUsersRefer
<1>12. OwnEntries'
  BY <1>2 DEF LockInv, OwnEntries
<1>13. WaitersCount' /\ OnePermit'
  BY <1>2, <1>5, <1>6 DEF LockInv, WaitersCount, OnePermit
<1>14. QED
  BY <1>7, <1>8, <1>9, <1>10, <1>11, <1>12, <1>13 DEF LockInv, LockIsSound

LEMMA LockStarts ==
    ASSUME LockInit
    PROVE  LockInv
<1>1. LockTypeOK
  <2>1. Disposed \in Entry
    BY FinitelyMany, FS_CardinalityType DEF Disposed, Entry
  <2>2. QED BY <2>1 DEF LockInit, LockTypeOK, Turn, Out
<1>2. \A r \in Requests : turn[r].pc = "out" /\ turn[r].on = None
  BY DEF LockInit, Out
<1>3. \A i \in Instances : table[i] = None BY DEF LockInit
<1>4. LockIsSound
  BY <1>1, <1>2, <1>3 DEF LockIsSound, LockInUseIsLive, NoEntryLeaks, OneHolder
<1>5. QED
  BY <1>2, <1>3, <1>4 DEF LockInv, OnlyUsersRefer, OwnEntries, WaitersCount, OnePermit

-----------------------------------------------------------------------------
(* The filter. *)

\* Where a request stands in the filter says where it stands with the lock.
PlaceOf(r) ==
    /\ pc[r] \in {"idle", "probe", "enter"} => turn[r].pc = "out"
    /\ pc[r] = "lock" => turn[r].pc = "waiting"
    /\ pc[r] = "reprobe" => turn[r].pc = "holding"
    /\ pc[r] = "timedOut" => turn[r].pc = "leaving"
    /\ pc[r] \in {"handler", "store"} => turn[r].pc \in {"holding", "out"}
    /\ pc[r] = "end" => turn[r].pc # "waiting"
PlaceInv == \A r \in Requests : PlaceOf(r)

\* Requests that timed out and have yet to run: each was counted as a fault.
IsLate(r) == pc[r] = "timedOut" \/ (pc[r] = "handler" /\ turn[r].pc = "out")
Late(i) == {r \in Requests : Home[r] = i /\ IsLate(r)}

\* The holder of a process runs its handler, or has run it and is about to store.
Runs(r) == turn[r].pc = "holding" /\ pc[r] = "handler"
Works(r) == turn[r].pc = "holding" /\ pc[r] \in {"handler", "store"}
Covered(i) == \E r \in Requests : Home[r] = i /\ Works(r)
Begun(i) == IF \E r \in Requests : Home[r] = i /\ Runs(r) THEN 1 ELSE 0
Answered(i) == IF stored \/ Covered(i) THEN 1 ELSE 0

\* Runs so far, runs to come from timeouts and the holder's run: one is answered
\* for, by the entry or by the holder, and each of the others by a fault.
RunsInv == faults < MaxFaults =>
    \A i \in Instances : runs[i] + Cardinality(Late(i)) + Begun(i) <= faults + Answered(i)

NothingCounted == MaxFaults = 0 => \A i \in Instances : runs[i] = 0

IInv == TypeOK /\ LockInv /\ PlaceInv /\ RunsInv /\ NothingCounted /\ CommittedIsReplayable

\* A step of one request leaves the others where they are.
OthersStay(r) == \A q \in Requests : q # r => pc'[q] = pc[q] /\ turn'[q] = turn[q]

LEMMA LateAreFinite ==
    ASSUME NEW i
    PROVE  /\ IsFiniteSet(Late(i)) /\ Cardinality(Late(i)) \in Nat
           /\ IsFiniteSet(Late(i)') /\ Cardinality(Late(i)') \in Nat
<1>1. Late(i) \in SUBSET Requests /\ Late(i)' \in SUBSET Requests BY DEF Late
<1>2. QED BY <1>1, FinitelyMany, FS_Subset, FS_CardinalityType

LEMMA LockRests ==
    ASSUME LockInv, UNCHANGED table, UNCHANGED entry, UNCHANGED turn
    PROVE  LockInv'
BY DEF LockInv, LockIsSound, LockTypeOK, LockInUseIsLive, NoEntryLeaks, OneHolder,
       OnlyUsersRefer, OwnEntries, WaitersCount, OnePermit, Users, Held

\* What a step of r does to the counts of its own process and of the others.
LEMMA OnlyOwnCountsMove ==
    ASSUME IInv, LockInv', NEW r \in Requests, OthersStay(r), NEW i \in Instances
    PROVE  /\ Home[r] # i => /\ Late(i)' = Late(i) /\ Begun(i)' = Begun(i)
                             /\ Covered(i)' <=> Covered(i)
           /\ Home[r] = i => Cardinality(Late(i)') + (IF IsLate(r) THEN 1 ELSE 0)
                               = Cardinality(Late(i)) + (IF IsLate(r)' THEN 1 ELSE 0)
           /\ Home[r] = i /\ turn[r].pc = "holding" =>
                /\ Begun(i) = IF pc[r] = "handler" THEN 1 ELSE 0
                /\ Covered(i) <=> pc[r] \in {"handler", "store"}
           /\ Home[r] = i /\ turn'[r].pc = "holding" =>
                /\ Begun(i)' = IF pc'[r] = "handler" THEN 1 ELSE 0
                /\ Covered(i)' <=> pc'[r] \in {"handler", "store"}
           /\ Home[r] = i /\ turn[r].pc # "holding" /\ turn'[r].pc # "holding" =>
                /\ Begun(i)' = Begun(i)
                /\ Covered(i)' <=> Covered(i)
<1>1. \A q \in Requests : q # r =>
           /\ IsLate(q)' <=> IsLate(q)
           /\ Runs(q)' <=> Runs(q)
           /\ Works(q)' <=> Works(q)
  BY DEF OthersStay, IsLate, Runs, Works
<1>2. CASE Home[r] # i
  <2>1. \A q \in Requests : Home[q] = i => q # r BY <1>2
  <2>2. Late(i)' = Late(i) BY <1>1, <2>1 DEF Late
  <2>3. Begun(i)' = Begun(i) BY <1>1, <2>1 DEF Begun
  <2>4. Covered(i)' <=> Covered(i)
    BY <1>1, <2>1 DEF Covered
  <2>5. QED BY <1>2, <2>2, <2>3, <2>4
<1>3. CASE Home[r] = i
  <2> DEFINE Rest == {q \in Requests : Home[q] = i /\ q # r /\ IsLate(q)}
  <2>1. Rest = Late(i) \ {r} /\ Rest = Late(i)' \ {r}
    BY <1>1 DEF Late
  <2>2. (r \in Late(i) <=> IsLate(r)) /\ (r \in Late(i)' <=> IsLate(r)')
    BY <1>3 DEF Late
  <2>3. IsFiniteSet(Late(i)) /\ IsFiniteSet(Late(i)') BY LateAreFinite
  <2>4. Cardinality(Rest) = IF IsLate(r) THEN Cardinality(Late(i)) - 1 ELSE Cardinality(Late(i))
    BY <2>1, <2>2, <2>3, FS_RemoveElement
  <2>5. Cardinality(Rest) = IF IsLate(r)' THEN Cardinality(Late(i)') - 1 ELSE Cardinality(Late(i)')
    BY <2>1, <2>2, <2>3, FS_RemoveElement
  <2>6. Cardinality(Late(i)) \in Nat /\ Cardinality(Late(i)') \in Nat
    BY <2>3, FS_CardinalityType
  <2>7. Cardinality(Late(i)') + (IF IsLate(r) THEN 1 ELSE 0)
          = Cardinality(Late(i)) + (IF IsLate(r)' THEN 1 ELSE 0)
    <3> HIDE DEF Rest, IsLate
    <3>1. QED BY <2>4, <2>5, <2>6
  <2>8. ASSUME turn[r].pc = "holding"
        PROVE  /\ Begun(i) = IF pc[r] = "handler" THEN 1 ELSE 0
               /\ Covered(i) <=> pc[r] \in {"handler", "store"}
    <3>1. \A q \in Requests : Home[q] = i /\ turn[q].pc = "holding" => q = r
      BY <1>3, <2>8 DEF IInv, LockInv, LockIsSound, OneHolder
    <3>2. QED BY <1>3, <2>8, <3>1 DEF Begun, Covered, Runs, Works
  <2>9. ASSUME turn'[r].pc = "holding"
        PROVE  /\ Begun(i)' = IF pc'[r] = "handler" THEN 1 ELSE 0
               /\ Covered(i)' <=> pc'[r] \in {"handler", "store"}
    <3>1. \A q \in Requests : Home[q] = i /\ turn'[q].pc = "holding" => q = r
      BY <1>3, <2>9 DEF LockInv, LockIsSound, OneHolder
    <3>2. QED BY <1>3, <2>9, <3>1 DEF Begun, Covered, Runs, Works
  <2>10. ASSUME turn[r].pc # "holding", turn'[r].pc # "holding"
         PROVE  /\ Begun(i)' = Begun(i)
                /\ Covered(i)' <=> Covered(i)
    <3>1. ~Runs(r) /\ ~Runs(r)' /\ ~Works(r) /\ ~Works(r)' BY <2>10 DEF Runs, Works
    <3>2. \A q \in Requests : (Runs(q)' <=> Runs(q)) /\ (Works(q)' <=> Works(q)) BY <3>1, <1>1
    <3>3. QED BY <3>2 DEF Begun, Covered
  <2>11. QED BY <1>3, <2>7, <2>8, <2>9, <2>10
<1>4. QED BY <1>2, <1>3

\* The step of a request that neither runs a handler nor loses or writes the entry.
LEMMA QuietStep ==
    ASSUME IInv, NEW r \in Requests, OthersStay(r), LockInv',
           pc' \in [Requests -> Positions], PlaceOf(r)',
           IsLate(r)' <=> IsLate(r), ~Works(r), ~Works(r)', pc[r] # "store",
           UNCHANGED stored, UNCHANGED runs, UNCHANGED faults
    PROVE  IInv'
<1>1. TypeOK' BY DEF IInv, TypeOK, LockInv, LockIsSound
<1>2. PlaceInv' BY DEF IInv, PlaceInv, PlaceOf, OthersStay
<1>3. \A q \in Requests : /\ IsLate(q)' <=> IsLate(q)
                          /\ Runs(q)' <=> Runs(q)
                          /\ Works(q)' <=> Works(q)
  <2>1. \A q \in Requests : q # r =>
             /\ IsLate(q)' <=> IsLate(q)
             /\ Runs(q)' <=> Runs(q)
             /\ Works(q)' <=> Works(q)
    BY DEF OthersStay, IsLate, Runs, Works
  <2>2. ~Runs(r) /\ ~Runs(r)' BY DEF Runs, Works
  <2>3. QED BY <2>1, <2>2
<1>4. \A i \in Instances : Late(i)' = Late(i) /\ Begun(i)' = Begun(i) /\ Answered(i)' = Answered(i)
  <2> SUFFICES ASSUME NEW i \in Instances
               PROVE  Late(i)' = Late(i) /\ Begun(i)' = Begun(i) /\ Answered(i)' = Answered(i)
    OBVIOUS
  <2>1. Late(i)' = Late(i) BY <1>3 DEF Late
  <2>2. Begun(i)' = Begun(i) BY <1>3 DEF Begun
  <2>3. Covered(i)' <=> Covered(i) BY <1>3 DEF Covered
  <2>4. QED BY <2>1, <2>2, <2>3 DEF Answered
<1>5. RunsInv' BY <1>4 DEF IInv, RunsInv
<1>6. NothingCounted' BY DEF IInv, NothingCounted
<1>7. CommittedIsReplayable'
  BY DEF IInv, CommittedIsReplayable, OthersStay
<1>8. QED BY <1>1, <1>2, <1>5, <1>6, <1>7 DEF IInv

\* A fault is counted, so that nothing is claimed of a run that has no excuse.
LEMMA FaultExcuses ==
    ASSUME IInv, Excused, UNCHANGED runs
    PROVE  /\ faults' \in 0..MaxFaults
           /\ faults' < MaxFaults => faults' = faults + 1 /\ faults < MaxFaults
           /\ CommittedIsReplayable' /\ NothingCounted'
<1>1. faults \in 0..MaxFaults /\ MaxFaults \in Nat /\ \A i \in Instances : runs[i] \in Nat
  BY MaxFaultsAssumption DEF IInv, TypeOK
<1>2. faults' = IF faults < MaxFaults THEN faults + 1 ELSE faults
  BY DEF Excused, UpTo
<1>3. NothingCounted' BY DEF IInv, NothingCounted
<1>4. faults' = 0 => MaxFaults = 0 BY <1>1, <1>2
<1>5. CommittedIsReplayable'
  <2>1. ASSUME faults' = 0 PROVE \A i \in Instances : runs'[i] = 0
    BY <2>1, <1>4 DEF IInv, NothingCounted
  <2>2. QED BY <2>1 DEF CommittedIsReplayable
<1>6. QED BY <1>1, <1>2, <1>3, <1>5

\* Where a request stands in the filter, and with the lock, moves by its own steps.
LEMMA GoesMoves ==
    ASSUME IInv, NEW r \in Requests, NEW from, NEW to \in Positions, Goes(r, from, to)
    PROVE  /\ pc[r] = from /\ pc'[r] = to /\ pc' \in [Requests -> Positions]
           /\ \A q \in Requests : q # r => pc'[q] = pc[q]
BY DEF Goes, IInv, TypeOK

LEMMA TurnMoves ==
    ASSUME LockInv, NEW r \in Requests
    PROVE  /\ Enters(r) => turn[r].pc = "out" /\ turn'[r].pc = "waiting"
           /\ Acquires(r) => turn[r].pc = "waiting" /\ turn'[r].pc = "holding"
           /\ GivesUp(r) => turn[r].pc = "waiting" /\ turn'[r].pc = "leaving"
           /\ ReleasesPermit(r) => turn[r].pc = "holding" /\ turn'[r].pc = "leaving"
           /\ Leaves(r) => turn[r].pc = "leaving" /\ turn'[r].pc = "out"
           /\ Enters(r) \/ Acquires(r) \/ GivesUp(r) \/ ReleasesPermit(r) \/ Leaves(r) =>
                \A q \in Requests : q # r => turn'[q] = turn[q]
<1>1. turn \in [Requests -> Turn] BY DEF LockInv, LockIsSound, LockTypeOK
<1>2. ASSUME Enters(r)
      PROVE  /\ turn[r].pc = "out" /\ turn'[r].pc = "waiting"
             /\ \A q \in Requests : q # r => turn'[q] = turn[q]
  <2>1. PICK e : turn' = [turn EXCEPT ![r] = [pc |-> "waiting", on |-> e]]
    BY <1>2 DEF Enters
  <2>2. turn[r].pc = "out" BY <1>2 DEF Enters
  <2>3. turn'[r] = [pc |-> "waiting", on |-> e] BY <2>1, <1>1
  <2>4. QED BY <2>1, <2>2, <2>3, <1>1
<1>3. ASSUME Acquires(r) \/ GivesUp(r) \/ ReleasesPermit(r) \/ Leaves(r)
      PROVE  /\ Acquires(r) => turn[r].pc = "waiting" /\ turn'[r].pc = "holding"
             /\ GivesUp(r) => turn[r].pc = "waiting" /\ turn'[r].pc = "leaving"
             /\ ReleasesPermit(r) => turn[r].pc = "holding" /\ turn'[r].pc = "leaving"
             /\ Leaves(r) => turn[r].pc = "leaving" /\ turn'[r].pc = "out"
             /\ \A q \in Requests : q # r => turn'[q] = turn[q]
  BY <1>1, <1>3 DEF Acquires, GivesUp, ReleasesPermit, Leaves, Turn, Out
<1>4. QED BY <1>2, <1>3

\* Steps outside the lock, and those that move within it.
LEMMA ProbingKeepsIt ==
    ASSUME IInv, NEW r \in Requests, Arrives(r) \/ Probes(r) \/ Returns(r)
    PROVE  IInv'
<1>1. UNCHANGED table /\ UNCHANGED entry /\ UNCHANGED turn
      /\ UNCHANGED stored /\ UNCHANGED runs /\ UNCHANGED faults
  BY DEF Arrives, Probes, Returns, lockVars
<1>2. LockInv' BY <1>1, LockRests DEF IInv
<1>3. PICK from, to \in Positions :
          /\ Goes(r, from, to)
          /\ \/ from = "idle" /\ to = "probe"
             \/ from = "probe" /\ to \in {"end", "enter"}
             \/ from = "end" /\ to = "idle" /\ turn[r].pc = "out"
  BY DEF Arrives, Probes, Returns, Positions
<1>4. /\ pc[r] = from /\ pc'[r] = to /\ pc' \in [Requests -> Positions]
      /\ \A q \in Requests : q # r => pc'[q] = pc[q]
  BY <1>3, GoesMoves
<1>5. OthersStay(r) BY <1>1, <1>4 DEF OthersStay
<1>6. turn'[r].pc = turn[r].pc /\ turn[r].pc = "out"
  BY <1>1, <1>3, <1>4 DEF IInv, PlaceInv, PlaceOf
<1>7. PlaceOf(r)' BY <1>3, <1>4, <1>6 DEF PlaceOf
<1>8. (IsLate(r)' <=> IsLate(r)) /\ ~Works(r) /\ ~Works(r)' /\ pc[r] # "store"
  BY <1>3, <1>4, <1>6 DEF IsLate, Works
<1>9. QED BY <1>1, <1>2, <1>4, <1>5, <1>7, <1>8, QuietStep

LEMMA LockingKeepsIt ==
    ASSUME IInv, NEW r \in Requests,
           EntersLock(r) \/ AcquiresLock(r) \/ LeavesTimedOut(r) \/ DisposesHandle(r) \/ LeavesLock(r)
    PROVE  IInv'
<1>1. UNCHANGED stored /\ UNCHANGED runs /\ UNCHANGED faults
  BY DEF EntersLock, AcquiresLock, LeavesTimedOut, DisposesHandle, LeavesLock
<1>2. LockInv'
  BY EntersKeepsLock, AcquiresKeepsLock, LeavesKeepsLock, ReleasesKeepsLock
  DEF IInv, EntersLock, AcquiresLock, LeavesTimedOut, DisposesHandle, LeavesLock
<1>3. pc \in [Requests -> Positions] /\ LockInv /\ PlaceOf(r)
  BY DEF IInv, TypeOK, PlaceInv
<1>4. /\ pc' \in [Requests -> Positions]
      /\ \A q \in Requests : q # r => pc'[q] = pc[q]
      /\ \/ Enters(r) /\ pc[r] = "enter" /\ pc'[r] = "lock"
         \/ Acquires(r) /\ pc[r] = "lock" /\ pc'[r] = "reprobe"
         \/ Leaves(r) /\ pc[r] = "timedOut" /\ pc'[r] = "handler"
         \/ ReleasesPermit(r) /\ pc[r] = "end" /\ pc'[r] = "end"
         \/ Leaves(r) /\ pc[r] = "end" /\ pc'[r] = "end"
  BY <1>3 DEF EntersLock, AcquiresLock, LeavesTimedOut, DisposesHandle, LeavesLock, Goes, Positions
<1>5. \A q \in Requests : q # r => turn'[q] = turn[q]
  BY <1>3, <1>4, TurnMoves
<1>6. \/ pc[r] = "enter" /\ pc'[r] = "lock" /\ turn[r].pc = "out" /\ turn'[r].pc = "waiting"
      \/ pc[r] = "lock" /\ pc'[r] = "reprobe" /\ turn[r].pc = "waiting" /\ turn'[r].pc = "holding"
      \/ pc[r] = "timedOut" /\ pc'[r] = "handler" /\ turn[r].pc = "leaving" /\ turn'[r].pc = "out"
      \/ pc[r] = "end" /\ pc'[r] = "end" /\ turn[r].pc = "holding" /\ turn'[r].pc = "leaving"
      \/ pc[r] = "end" /\ pc'[r] = "end" /\ turn[r].pc = "leaving" /\ turn'[r].pc = "out"
  BY <1>3, <1>4, TurnMoves
<1>7. OthersStay(r) BY <1>4, <1>5 DEF OthersStay
<1>8. PlaceOf(r)' BY <1>6 DEF PlaceOf
<1>9. (IsLate(r)' <=> IsLate(r)) /\ ~Works(r) /\ ~Works(r)' /\ pc[r] # "store"
  BY <1>6 DEF IsLate, Works
<1>10. QED BY <1>1, <1>2, <1>4, <1>7, <1>8, <1>9, QuietStep

LEMMA AbortingKeepsIt ==
    ASSUME IInv, NEW r \in Requests, ClientAborts(r)
    PROVE  IInv'
<1>1. UNCHANGED stored /\ UNCHANGED runs /\ UNCHANGED faults
  BY DEF ClientAborts
<1>2. LockInv /\ PlaceOf(r) BY DEF IInv, PlaceInv
<1>3. PICK from \in {"probe", "reprobe", "lock"} :
          /\ Goes(r, from, "end")
          /\ from # "lock" => UNCHANGED table /\ UNCHANGED entry /\ UNCHANGED turn
          /\ from = "lock" => GivesUp(r)
  BY DEF ClientAborts, lockVars
<1>4. /\ pc[r] = from /\ pc'[r] = "end" /\ pc' \in [Requests -> Positions]
      /\ \A q \in Requests : q # r => pc'[q] = pc[q]
  BY <1>3, GoesMoves DEF Positions
<1>5. LockInv' BY <1>2, <1>3, LockRests, GivesUpKeepsLock
<1>6. /\ \A q \in Requests : q # r => turn'[q] = turn[q]
      /\ from = "lock" => turn'[r].pc = "leaving"
      /\ from # "lock" => turn'[r].pc = turn[r].pc
  BY <1>2, <1>3, TurnMoves
<1>7. OthersStay(r) BY <1>4, <1>6 DEF OthersStay
<1>8. PlaceOf(r)' BY <1>2, <1>3, <1>4, <1>6 DEF PlaceOf
<1>9. (IsLate(r)' <=> IsLate(r)) /\ ~Works(r) /\ ~Works(r)' /\ pc[r] # "store"
  BY <1>3, <1>4, <1>6 DEF IsLate, Works
<1>10. QED BY <1>1, <1>4, <1>5, <1>7, <1>8, <1>9, QuietStep

\* Steps that begin, end, store or excuse a run.
LEMMA TimingOutKeepsIt ==
    ASSUME IInv, NEW r \in Requests, TimesOut(r)
    PROVE  IInv'
<1>1. UNCHANGED stored /\ UNCHANGED runs /\ Excused /\ GivesUp(r) /\ Goes(r, "lock", "timedOut")
  BY DEF TimesOut
<1>2. LockInv /\ PlaceInv /\ RunsInv /\ TypeOK BY DEF IInv
<1>3. LockInv' BY <1>1, <1>2, GivesUpKeepsLock
<1>4. /\ pc[r] = "lock" /\ pc'[r] = "timedOut" /\ pc' \in [Requests -> Positions]
      /\ \A q \in Requests : q # r => pc'[q] = pc[q]
  BY <1>1, GoesMoves DEF Positions
<1>5. /\ turn[r].pc = "waiting" /\ turn'[r].pc = "leaving"
      /\ \A q \in Requests : q # r => turn'[q] = turn[q]
  BY <1>1, <1>2, TurnMoves
<1>6. OthersStay(r) BY <1>4, <1>5 DEF OthersStay
<1>7. PlaceInv' BY <1>2, <1>4, <1>5 DEF PlaceInv, PlaceOf
<1>8. ~IsLate(r) /\ IsLate(r)' BY <1>4, <1>5 DEF IsLate
<1>9. /\ faults' \in 0..MaxFaults /\ CommittedIsReplayable' /\ NothingCounted'
      /\ faults' < MaxFaults => faults' = faults + 1 /\ faults < MaxFaults
  BY <1>1, FaultExcuses
<1>10. TypeOK' BY <1>1, <1>2, <1>3, <1>4, <1>9 DEF TypeOK, LockInv, LockIsSound
<1>11. RunsInv'
  <2> SUFFICES ASSUME faults' < MaxFaults, NEW i \in Instances
               PROVE  runs'[i] + Cardinality(Late(i)') + Begun(i)' <= faults' + Answered(i)'
    BY DEF RunsInv
  <2>1. runs[i] + Cardinality(Late(i)) + Begun(i) <= faults + Answered(i)
    BY <1>2, <1>9 DEF RunsInv
  <2>2. Begun(i)' = Begun(i) /\ Answered(i)' = Answered(i)
    BY <1>1, <1>3, <1>5, <1>6, OnlyOwnCountsMove DEF Answered
  <2>3. Cardinality(Late(i)') \in {Cardinality(Late(i)), Cardinality(Late(i)) + 1}
    BY <1>3, <1>6, <1>8, LateAreFinite, OnlyOwnCountsMove
  <2>4. runs[i] \in Nat /\ faults \in Nat /\ Cardinality(Late(i)) \in Nat /\ Begun(i) \in Nat /\ Answered(i) \in Nat
    BY <1>2, LateAreFinite, MaxFaultsAssumption DEF TypeOK, Begun, Answered
  <2>5. QED BY <2>1, <2>2, <2>3, <2>4, <1>1, <1>9
<1>12. QED BY <1>3, <1>7, <1>9, <1>10, <1>11 DEF IInv

LEMMA ReprobingKeepsIt ==
    ASSUME IInv, NEW r \in Requests, Reprobes(r) \/ ReprobeFails(r)
    PROVE  IInv'
<1>1. UNCHANGED table /\ UNCHANGED entry /\ UNCHANGED turn /\ UNCHANGED stored /\ UNCHANGED runs
  BY DEF Reprobes, ReprobeFails, lockVars
<1>2. LockInv /\ PlaceInv /\ RunsInv /\ TypeOK BY DEF IInv
<1>3. LockInv' BY <1>1, <1>2, LockRests
<1>4. PICK to \in {"end", "handler"} :
          /\ Goes(r, "reprobe", to)
          /\ \/ UNCHANGED faults /\ (to = "handler" <=> ~stored)
             \/ Excused /\ to = "handler"
  BY DEF Reprobes, ReprobeFails
<1>5. /\ pc[r] = "reprobe" /\ pc'[r] = to /\ pc' \in [Requests -> Positions]
      /\ \A q \in Requests : q # r => pc'[q] = pc[q]
  BY <1>4, GoesMoves DEF Positions
<1>6. turn[r].pc = "holding" /\ turn'[r].pc = "holding"
  BY <1>1, <1>2, <1>5 DEF PlaceInv, PlaceOf
<1>7. OthersStay(r) BY <1>1, <1>5 DEF OthersStay
<1>8. PlaceInv' BY <1>1, <1>2, <1>4, <1>5, <1>6 DEF PlaceInv, PlaceOf
<1>9. ~IsLate(r) /\ ~IsLate(r)' BY <1>4, <1>5, <1>6 DEF IsLate
<1>10. /\ faults' \in 0..MaxFaults /\ CommittedIsReplayable' /\ NothingCounted'
       /\ faults' < MaxFaults => faults < MaxFaults
       /\ faults' < MaxFaults => (faults' = faults /\ (to = "handler" <=> ~stored)) \/ faults' = faults + 1
  <2>1. CASE Excused BY <2>1, <1>1, FaultExcuses
  <2>2. CASE UNCHANGED faults /\ (to = "handler" <=> ~stored)
    <3>1. faults' \in 0..MaxFaults BY <2>2, <1>2 DEF TypeOK
    <3>2. NothingCounted' BY <1>1 DEF IInv, NothingCounted
    <3>3. CommittedIsReplayable'
      BY <2>2, <1>1, <1>5 DEF IInv, CommittedIsReplayable
    <3>4. QED BY <2>2, <3>1, <3>2, <3>3
  <2>3. QED BY <1>4, <2>1, <2>2
<1>11. TypeOK' BY <1>1, <1>2, <1>3, <1>5, <1>10 DEF TypeOK, LockInv, LockIsSound
<1>12. RunsInv'
  <2> SUFFICES ASSUME faults' < MaxFaults, NEW i \in Instances
               PROVE  runs'[i] + Cardinality(Late(i)') + Begun(i)' <= faults' + Answered(i)'
    BY DEF RunsInv
  <2>1. runs[i] + Cardinality(Late(i)) + Begun(i) <= faults + Answered(i)
    BY <1>2, <1>10 DEF RunsInv
  <2>2. runs[i] \in Nat /\ faults \in Nat /\ Cardinality(Late(i)) \in Nat
    BY <1>2, LateAreFinite, MaxFaultsAssumption DEF TypeOK
  <2>3. CASE Home[r] # i
    <3>1. Late(i)' = Late(i) /\ Begun(i)' = Begun(i) /\ Answered(i)' = Answered(i)
      BY <2>3, <1>1, <1>3, <1>7, OnlyOwnCountsMove DEF Answered
    <3>2. Begun(i) \in Nat /\ Answered(i) \in Nat BY DEF Begun, Answered
    <3>3. QED BY <2>1, <2>2, <3>1, <3>2, <1>1, <1>10
  <2>4. CASE Home[r] = i
    <3>1. Cardinality(Late(i)') = Cardinality(Late(i))
      BY <2>4, <1>3, <1>7, <1>9, LateAreFinite, OnlyOwnCountsMove
    <3>2. Begun(i) = 0 /\ Answered(i) = IF stored THEN 1 ELSE 0
      BY <2>4, <1>3, <1>5, <1>6, <1>7, OnlyOwnCountsMove DEF Answered
    <3>3. /\ Begun(i)' = IF to = "handler" THEN 1 ELSE 0
          /\ Answered(i)' = IF stored \/ to = "handler" THEN 1 ELSE 0
      BY <2>4, <1>1, <1>3, <1>4, <1>5, <1>6, <1>7, OnlyOwnCountsMove DEF Answered
    <3>4. CASE to = "handler" BY <3>4, <3>1, <3>2, <3>3, <2>1, <2>2, <1>1, <1>10
    <3>5. CASE to # "handler" BY <3>5, <3>1, <3>2, <3>3, <2>1, <2>2, <1>1, <1>10
    <3>6. QED BY <3>4, <3>5
  <2>5. QED BY <2>3, <2>4
<1>13. QED BY <1>3, <1>8, <1>10, <1>11, <1>12 DEF IInv

LEMMA RunningKeepsIt ==
    ASSUME IInv, NEW r \in Requests, HandlerSucceeds(r)
    PROVE  IInv'
<1>1. /\ UNCHANGED table /\ UNCHANGED entry /\ UNCHANGED turn /\ UNCHANGED stored /\ UNCHANGED faults
      /\ Goes(r, "handler", "store")
      /\ runs' = IF faults < MaxFaults THEN [runs EXCEPT ![Home[r]] = UpTo(@, MaxFaults + 1)] ELSE runs
  BY DEF HandlerSucceeds, lockVars
<1>2. LockInv /\ PlaceInv /\ RunsInv /\ TypeOK BY DEF IInv
<1>3. LockInv' BY <1>1, <1>2, LockRests
<1>4. /\ pc[r] = "handler" /\ pc'[r] = "store" /\ pc' \in [Requests -> Positions]
      /\ \A q \in Requests : q # r => pc'[q] = pc[q]
  BY <1>1, GoesMoves DEF Positions
<1>5. turn[r].pc \in {"holding", "out"} /\ turn'[r] = turn[r]
  BY <1>1, <1>2, <1>4 DEF PlaceInv, PlaceOf
<1>6. OthersStay(r) BY <1>1, <1>4 DEF OthersStay
<1>7. PlaceInv' BY <1>1, <1>2, <1>4, <1>5 DEF PlaceInv, PlaceOf
<1>8. (IsLate(r) <=> turn[r].pc = "out") /\ ~IsLate(r)' BY <1>4, <1>5 DEF IsLate
<1>9. runs \in [Instances -> 0..(MaxFaults + 1)] /\ faults \in 0..MaxFaults /\ MaxFaults \in Nat
      /\ Home[r] \in Instances
  BY <1>2, MaxFaultsAssumption, HomeAssumption DEF TypeOK
<1>10. \A i \in Instances : /\ i # Home[r] => runs'[i] = runs[i]
                            /\ runs'[i] \in 0..(MaxFaults + 1) /\ runs'[i] <= runs[i] + 1
  BY <1>1, <1>9 DEF UpTo
<1>11. TypeOK'
  <2>1. runs' \in [Instances -> 0..(MaxFaults + 1)] BY <1>1, <1>9 DEF UpTo
  <2>2. QED BY <2>1, <1>1, <1>2, <1>3, <1>4 DEF TypeOK, LockInv, LockIsSound
<1>12. NothingCounted'
  <2>1. MaxFaults = 0 => runs' = runs BY <1>1, <1>9
  <2>2. QED BY <2>1 DEF IInv, NothingCounted
<1>13. CommittedIsReplayable' BY <1>4 DEF CommittedIsReplayable
<1>14. RunsInv'
  <2> SUFFICES ASSUME faults' < MaxFaults, NEW i \in Instances
               PROVE  runs'[i] + Cardinality(Late(i)') + Begun(i)' <= faults' + Answered(i)'
    BY DEF RunsInv
  <2>1. runs[i] + Cardinality(Late(i)) + Begun(i) <= faults + Answered(i)
    BY <1>1, <1>2 DEF RunsInv
  <2>2. runs[i] \in Nat /\ faults \in Nat /\ Cardinality(Late(i)) \in Nat /\ runs'[i] \in Nat
        /\ Cardinality(Late(i)') \in Nat
    BY <1>9, <1>10, LateAreFinite
  <2>3. CASE Home[r] # i
    <3>1. Late(i)' = Late(i) /\ Begun(i)' = Begun(i) /\ Answered(i)' = Answered(i)
      BY <2>3, <1>1, <1>3, <1>6, OnlyOwnCountsMove DEF Answered
    <3>2. Begun(i) \in Nat /\ Answered(i) \in Nat BY DEF Begun, Answered
    <3>3. QED BY <2>1, <2>2, <2>3, <3>1, <3>2, <1>1, <1>10
  <2>4. CASE Home[r] = i /\ turn[r].pc = "holding"
    <3>1. Cardinality(Late(i)') = Cardinality(Late(i))
      BY <2>2, <2>4, <1>3, <1>6, <1>8, OnlyOwnCountsMove
    <3>2. Begun(i) = 1 /\ Answered(i) = 1
      BY <2>4, <1>3, <1>4, <1>6, OnlyOwnCountsMove DEF Answered
    <3>3. Begun(i)' = 0 /\ Answered(i)' = 1
      BY <2>4, <1>3, <1>4, <1>5, <1>6, OnlyOwnCountsMove DEF Answered
    <3>4. QED BY <3>1, <3>2, <3>3, <2>1, <2>2, <1>1, <1>10
  <2>5. CASE Home[r] = i /\ turn[r].pc = "out"
    <3>1. Cardinality(Late(i)') + 1 = Cardinality(Late(i))
      BY <2>2, <2>5, <1>3, <1>6, <1>8, OnlyOwnCountsMove
    <3>2. Begun(i)' = Begun(i) /\ Answered(i)' = Answered(i)
      BY <2>5, <1>1, <1>3, <1>5, <1>6, OnlyOwnCountsMove DEF Answered
    <3>3. Begun(i) \in Nat /\ Answered(i) \in Nat BY DEF Begun, Answered
    <3>4. QED BY <3>1, <3>2, <3>3, <2>1, <2>2, <1>1, <1>10
  <2>6. QED BY <2>3, <2>4, <2>5, <1>5
<1>15. QED BY <1>3, <1>7, <1>11, <1>12, <1>13, <1>14 DEF IInv

LEMMA EndingKeepsIt ==
    ASSUME IInv, NEW r \in Requests, HandlerFails(r) \/ Stores(r) \/ StoreFails(r)
    PROVE  IInv'
<1>1. UNCHANGED table /\ UNCHANGED entry /\ UNCHANGED turn /\ UNCHANGED runs
  BY DEF HandlerFails, Stores, StoreFails, lockVars
<1>2. LockInv /\ PlaceInv /\ RunsInv /\ TypeOK BY DEF IInv
<1>3. LockInv' BY <1>1, <1>2, LockRests
<1>4. PICK from \in {"handler", "store"} :
          /\ Goes(r, from, "end")
          /\ \/ from = "handler" /\ UNCHANGED stored /\ UNCHANGED faults
             \/ from = "store" /\ stored' = TRUE /\ UNCHANGED faults
             \/ from = "store" /\ UNCHANGED stored /\ Excused
  BY DEF HandlerFails, Stores, StoreFails
<1>5. /\ pc[r] = from /\ pc'[r] = "end" /\ pc' \in [Requests -> Positions]
      /\ \A q \in Requests : q # r => pc'[q] = pc[q]
  BY <1>4, GoesMoves DEF Positions
<1>6. turn[r].pc \in {"holding", "out"} /\ turn'[r] = turn[r]
  BY <1>1, <1>2, <1>5 DEF PlaceInv, PlaceOf
<1>7. OthersStay(r) BY <1>1, <1>5 DEF OthersStay
<1>8. PlaceInv' BY <1>1, <1>2, <1>5, <1>6 DEF PlaceInv, PlaceOf
<1>9. ~IsLate(r)' BY <1>5 DEF IsLate
<1>10. /\ faults' \in 0..MaxFaults /\ CommittedIsReplayable' /\ NothingCounted'
       /\ faults' < MaxFaults => faults < MaxFaults
       /\ faults' < MaxFaults => \/ faults' = faults + 1 /\ stored' = stored
                                 \/ faults' = faults /\ from = "handler" /\ stored' = stored
                                 \/ faults' = faults /\ stored'
  <2>1. CASE Excused /\ UNCHANGED stored BY <2>1, <1>1, FaultExcuses
  <2>2. CASE from = "handler" /\ UNCHANGED stored /\ UNCHANGED faults
    <3>1. faults' \in 0..MaxFaults BY <2>2, <1>2 DEF TypeOK
    <3>2. NothingCounted' BY <1>1 DEF IInv, NothingCounted
    <3>3. CommittedIsReplayable'
      BY <2>2, <1>1, <1>5 DEF IInv, CommittedIsReplayable
    <3>4. QED BY <2>2, <3>1, <3>2, <3>3
  <2>3. CASE stored' = TRUE /\ UNCHANGED faults
    <3>1. faults' \in 0..MaxFaults BY <2>3, <1>2 DEF TypeOK
    <3>2. NothingCounted' BY <1>1 DEF IInv, NothingCounted
    <3>3. CommittedIsReplayable' BY <2>3 DEF CommittedIsReplayable
    <3>4. QED BY <2>3, <3>1, <3>2, <3>3
  <2>4. QED BY <1>4, <2>1, <2>2, <2>3
<1>11. TypeOK' BY <1>1, <1>2, <1>3, <1>4, <1>5, <1>10 DEF TypeOK, LockInv, LockIsSound
<1>12. RunsInv'
  <2> SUFFICES ASSUME faults' < MaxFaults, NEW i \in Instances
               PROVE  runs'[i] + Cardinality(Late(i)') + Begun(i)' <= faults' + Answered(i)'
    BY DEF RunsInv
  <2>1. runs[i] + Cardinality(Late(i)) + Begun(i) <= faults + Answered(i)
    BY <1>2, <1>10 DEF RunsInv
  <2>2. runs[i] \in Nat /\ faults \in Nat /\ Cardinality(Late(i)) \in Nat /\ Cardinality(Late(i)') \in Nat
        /\ Begun(i) \in 0..1 /\ Begun(i)' \in 0..1 /\ Answered(i) \in 0..1 /\ Answered(i)' \in 0..1
    BY <1>2, LateAreFinite, MaxFaultsAssumption DEF TypeOK, Begun, Answered
  <2>3. CASE Home[r] # i
    <3>1. Late(i)' = Late(i) /\ Begun(i)' = Begun(i) /\ (stored' = stored => Answered(i)' = Answered(i))
      BY <2>3, <1>3, <1>7, OnlyOwnCountsMove DEF Answered
    <3>2. stored' => Answered(i)' = 1 BY DEF Answered
    <3>3. QED BY <2>1, <2>2, <3>1, <3>2, <1>1, <1>10
  <2>4. CASE Home[r] = i /\ turn[r].pc = "holding"
    <3>1. Cardinality(Late(i)') <= Cardinality(Late(i))
      BY <2>2, <2>4, <1>3, <1>7, <1>9, OnlyOwnCountsMove
    <3>2. Begun(i) = (IF from = "handler" THEN 1 ELSE 0) /\ Begun(i)' = 0
      BY <2>4, <1>3, <1>5, <1>6, <1>7, OnlyOwnCountsMove
    <3>3. stored' => Answered(i)' = 1 BY DEF Answered
    <3>4. QED BY <3>1, <3>2, <3>3, <2>1, <2>2, <1>1, <1>10
  <2>5. CASE Home[r] = i /\ turn[r].pc = "out"
    <3>1. Cardinality(Late(i)') <= Cardinality(Late(i))
      BY <2>2, <2>5, <1>3, <1>7, <1>9, OnlyOwnCountsMove
    <3>2. Begun(i)' = Begun(i) /\ (stored' = stored => Answered(i)' = Answered(i))
      BY <2>5, <1>3, <1>6, <1>7, OnlyOwnCountsMove DEF Answered
    <3>3. stored' => Answered(i)' = 1 BY DEF Answered
    <3>4. QED BY <3>1, <3>2, <3>3, <2>1, <2>2, <1>1, <1>10
  <2>6. QED BY <2>3, <2>4, <2>5, <1>6
<1>13. QED BY <1>3, <1>8, <1>10, <1>11, <1>12 DEF IInv

LEMMA ExpiringKeepsIt ==
    ASSUME IInv, Expires
    PROVE  IInv'
<1>1. UNCHANGED table /\ UNCHANGED entry /\ UNCHANGED turn /\ UNCHANGED pc /\ UNCHANGED runs
      /\ stored' = FALSE /\ Excused
  BY DEF Expires, lockVars
<1>2. LockInv /\ PlaceInv /\ RunsInv /\ TypeOK BY DEF IInv
<1>3. LockInv' BY <1>1, <1>2, LockRests
<1>4. PlaceInv' BY <1>1, <1>2 DEF PlaceInv, PlaceOf
<1>5. /\ faults' \in 0..MaxFaults /\ CommittedIsReplayable' /\ NothingCounted'
      /\ faults' < MaxFaults => faults' = faults + 1 /\ faults < MaxFaults
  BY <1>1, FaultExcuses
<1>6. TypeOK' BY <1>1, <1>2, <1>3, <1>5 DEF TypeOK, LockInv, LockIsSound
<1>7. RunsInv'
  <2> SUFFICES ASSUME faults' < MaxFaults, NEW i \in Instances
               PROVE  runs'[i] + Cardinality(Late(i)') + Begun(i)' <= faults' + Answered(i)'
    BY DEF RunsInv
  <2>1. runs[i] + Cardinality(Late(i)) + Begun(i) <= faults + Answered(i)
    BY <1>2, <1>5 DEF RunsInv
  <2>2. Late(i)' = Late(i) /\ Begun(i)' = Begun(i)
    BY <1>1 DEF Late, IsLate, Begun, Runs
  <2>3. runs[i] \in Nat /\ faults \in Nat /\ Cardinality(Late(i)) \in Nat
        /\ Begun(i) \in 0..1 /\ Answered(i) \in 0..1 /\ Answered(i)' \in 0..1
    BY <1>2, LateAreFinite, MaxFaultsAssumption DEF TypeOK, Begun, Answered
  <2>4. QED BY <2>1, <2>2, <2>3, <1>1, <1>5
<1>8. QED BY <1>3, <1>4, <1>5, <1>6, <1>7 DEF IInv

\* A crash of one process: its own runs and waits are gone, and a fault counted.
LEMMA CrashingKeepsIt ==
    ASSUME IInv, NEW c \in Instances, Crash(c)
    PROVE  IInv'
<1>1. /\ LockForgets(c) /\ Excused /\ UNCHANGED stored /\ UNCHANGED runs
      /\ pc' = [r \in Requests |-> IF Home[r] = c THEN "idle" ELSE pc[r]]
  BY DEF Crash
<1>2. LockInv /\ PlaceInv /\ RunsInv /\ TypeOK BY DEF IInv
<1>3. LockInv' BY <1>1, <1>2, ForgetsKeepsLock
<1>4. /\ \A r \in Requests : Home[r] = c => turn'[r].pc = "out" /\ pc'[r] = "idle"
      /\ \A r \in Requests : Home[r] # c => turn'[r] = turn[r] /\ pc'[r] = pc[r]
  BY <1>1 DEF LockForgets, Out
<1>5. PlaceInv'
  <2> SUFFICES ASSUME NEW r \in Requests PROVE PlaceOf(r)'
    BY DEF PlaceInv
  <2>1. CASE Home[r] = c BY <2>1, <1>4 DEF PlaceOf
  <2>2. CASE Home[r] # c BY <2>2, <1>2, <1>4 DEF PlaceInv, PlaceOf
  <2>3. QED BY <2>1, <2>2
<1>6. /\ faults' \in 0..MaxFaults /\ CommittedIsReplayable' /\ NothingCounted'
      /\ faults' < MaxFaults => faults' = faults + 1 /\ faults < MaxFaults
  BY <1>1, FaultExcuses
<1>7. TypeOK'
  <2>1. pc' \in [Requests -> Positions] BY <1>1, <1>2 DEF TypeOK, Positions
  <2>2. QED BY <2>1, <1>1, <1>2, <1>3, <1>6 DEF TypeOK, LockInv, LockIsSound
<1>8. RunsInv'
  <2> SUFFICES ASSUME faults' < MaxFaults, NEW i \in Instances
               PROVE  runs'[i] + Cardinality(Late(i)') + Begun(i)' <= faults' + Answered(i)'
    BY DEF RunsInv
  <2>1. runs[i] + Cardinality(Late(i)) + Begun(i) <= faults + Answered(i)
    BY <1>2, <1>6 DEF RunsInv
  <2>2. runs[i] \in Nat /\ faults \in Nat /\ Cardinality(Late(i)) \in Nat
        /\ Begun(i) \in 0..1 /\ Answered(i) \in 0..1 /\ Answered(i)' \in 0..1
    BY <1>2, LateAreFinite, MaxFaultsAssumption DEF TypeOK, Begun, Answered
  <2>3. CASE i = c
    <3>1. \A r \in Requests : Home[r] = i => ~IsLate(r)' /\ ~Runs(r)'
      BY <2>3, <1>4 DEF IsLate, Runs
    <3>2. Late(i)' = {} /\ Begun(i)' = 0 BY <3>1 DEF Late, Begun
    <3>3. QED BY <3>2, <2>1, <2>2, <1>1, <1>6, FS_EmptySet
  <2>4. CASE i # c
    <3>1. \A r \in Requests : Home[r] = i => (IsLate(r)' <=> IsLate(r)) /\ (Runs(r)' <=> Runs(r))
      BY <2>4, <1>4 DEF IsLate, Runs
    <3>2. Late(i)' = Late(i) /\ Begun(i)' = Begun(i) BY <3>1 DEF Late, Begun
    <3>3. QED BY <3>2, <2>1, <2>2, <1>1, <1>6
  <2>5. QED BY <2>3, <2>4
<1>9. QED BY <1>3, <1>5, <1>6, <1>7, <1>8 DEF IInv

-----------------------------------------------------------------------------

LEMMA StartsIn == ASSUME Init PROVE IInv
<1>1. LockInv BY LockStarts DEF Init
<1>2. \A r \in Requests : pc[r] = "idle" /\ turn[r].pc = "out"
  BY DEF Init, LockInit, Out
<1>3. TypeOK
  <2>1. pc \in [Requests -> Positions] /\ stored \in BOOLEAN BY DEF Init, Positions
  <2>2. 0 \in 0..(MaxFaults + 1) /\ 0 \in 0..MaxFaults BY MaxFaultsAssumption
  <2>3. runs \in [Instances -> 0..(MaxFaults + 1)] /\ faults \in 0..MaxFaults BY <2>2 DEF Init
  <2>4. QED BY <1>1, <2>1, <2>3 DEF TypeOK, LockInv, LockIsSound
<1>4. PlaceInv BY <1>2 DEF PlaceInv, PlaceOf
<1>5. \A i \in Instances : runs[i] = 0 BY DEF Init
<1>6. RunsInv
  <2> SUFFICES ASSUME NEW i \in Instances
               PROVE  runs[i] + Cardinality(Late(i)) + Begun(i) <= faults + Answered(i)
    BY DEF RunsInv
  <2>1. Late(i) = {} /\ Begun(i) = 0 BY <1>2 DEF Late, IsLate, Begun, Runs
  <2>2. QED BY <2>1, <1>5, FS_EmptySet DEF Init, Answered
<1>7. QED BY <1>1, <1>3, <1>4, <1>5, <1>6 DEF IInv, NothingCounted, CommittedIsReplayable

LEMMA StaysIn == ASSUME IInv, [Next]_vars PROVE IInv'
<1>1. ASSUME NEW r \in Requests,
             \/ Arrives(r) \/ Advances(r)
             \/ AcquiresLock(r) \/ TimesOut(r) \/ ReprobeFails(r) \/ ClientAborts(r) \/ StoreFails(r)
      PROVE  IInv'
  BY <1>1, ProbingKeepsIt, LockingKeepsIt, AbortingKeepsIt, TimingOutKeepsIt, ReprobingKeepsIt,
     RunningKeepsIt, EndingKeepsIt
  DEF Advances
<1>2. CASE Expires BY <1>2, ExpiringKeepsIt
<1>3. ASSUME NEW i \in Instances, Crash(i) PROVE IInv'
  BY <1>3, CrashingKeepsIt
<1>4. CASE UNCHANGED vars
  <2>1. UNCHANGED table /\ UNCHANGED entry /\ UNCHANGED turn /\ UNCHANGED pc
        /\ UNCHANGED stored /\ UNCHANGED runs /\ UNCHANGED faults
    BY <1>4 DEF vars
  <2>2. LockInv' BY <2>1, LockRests DEF IInv
  <2>3. QED
    BY <2>1, <2>2 DEF IInv, TypeOK, LockTypeOK, PlaceInv, PlaceOf, RunsInv, Late, IsLate, Begun, Runs,
       Answered, Covered, Works, NothingCounted, CommittedIsReplayable
<1>5. QED BY <1>1, <1>2, <1>3, <1>4 DEF Next

\* KeyedAsyncLock: whichever waits are given up and whichever process crashes, the
\* entry of a key in use is in the dictionary and live, its semaphore admits one
\* request, and an entry nobody uses is gone.
THEOREM LockIsSoundHolds == Spec => []LockIsSound
<1>1. Init => IInv BY StartsIn
<1>2. IInv /\ [Next]_vars => IInv' BY StaysIn
<1>3. IInv => LockIsSound BY DEF IInv, LockInv
<1>4. QED BY <1>1, <1>2, <1>3, PTL DEF Spec

\* IdempotencyEndpointFilter: per process the handler succeeds once for a key, and
\* once more for each fault; and while there was none, a retry of what has
\* succeeded finds the entry or the request that is about to store it.
THEOREM RunsOnceHolds == Spec => []RunsOnce
<1>1. Init => IInv BY StartsIn
<1>2. IInv /\ [Next]_vars => IInv' BY StaysIn
<1>3. ASSUME IInv PROVE OneRunPerProcess
  <2> SUFFICES ASSUME NEW i \in Instances PROVE runs[i] <= 1 + faults
    BY DEF OneRunPerProcess
  <2>1. runs[i] \in 0..(MaxFaults + 1) /\ faults \in 0..MaxFaults
    BY <1>3 DEF IInv, TypeOK
  <2>2. CASE faults < MaxFaults
    <3>1. runs[i] + Cardinality(Late(i)) + Begun(i) <= faults + Answered(i)
      BY <1>3, <2>2 DEF IInv, RunsInv
    <3>2. Begun(i) \in 0..1 /\ Answered(i) \in 0..1 BY DEF Begun, Answered
    <3>3. QED BY <3>1, <3>2, <2>1, LateAreFinite, MaxFaultsAssumption
  <2>3. CASE faults = MaxFaults BY <2>1, <2>3, MaxFaultsAssumption
  <2>4. QED BY <2>1, <2>2, <2>3, MaxFaultsAssumption
<1>4. IInv => RunsOnce BY <1>3 DEF IInv, RunsOnce
<1>5. QED BY <1>1, <1>2, <1>4, PTL DEF Spec

-----------------------------------------------------------------------------
(* Sequences of events in the order they were published. *)

Rising(s) == \A i, j \in DOMAIN s : i < j => s[i] < s[j]

LEMMA InRange ==
    ASSUME NEW s \in Seq(Nat)
    PROVE  /\ Len(s) \in Nat /\ DOMAIN s = 1..Len(s) /\ \A i \in 1..Len(s) : s[i] \in Nat
           /\ \A x : x \in Range(s) <=> \E i \in 1..Len(s) : x = s[i]
<1>1. Len(s) \in Nat /\ DOMAIN s = 1..Len(s) /\ \A i \in 1..Len(s) : s[i] \in Nat
  OBVIOUS
<1>. QED
  BY <1>1 DEF Range

LEMMA AppendRises ==
    ASSUME NEW s \in Seq(Nat), NEW x \in Nat
    PROVE  /\ Append(s, x) \in Seq(Nat) /\ Len(Append(s, x)) = Len(s) + 1
           /\ Range(Append(s, x)) = Range(s) \cup {x}
           /\ Rising(s) /\ (\A y \in Range(s) : y < x) => Rising(Append(s, x))
<1>1. /\ Append(s, x) \in Seq(Nat) /\ Len(Append(s, x)) = Len(s) + 1
      /\ \A i \in 1..Len(s) : Append(s, x)[i] = s[i]
      /\ Append(s, x)[Len(s) + 1] = x
  OBVIOUS
<1>2. Range(Append(s, x)) = Range(s) \cup {x}
  BY <1>1 DEF Range
<1>3. ASSUME Rising(s), \A y \in Range(s) : y < x
      PROVE  Rising(Append(s, x))
  <2>1. \A i \in 1..Len(s) : s[i] \in Nat /\ s[i] < x
    BY <1>3 DEF Range
  <2>. QED
    BY <1>1, <1>3, <2>1 DEF Rising
<1>. QED
  BY <1>1, <1>2, <1>3

LEMMA TailRises ==
    ASSUME NEW s \in Seq(Nat), s # <<>>
    PROVE  /\ Tail(s) \in Seq(Nat) /\ Len(Tail(s)) = Len(s) - 1 /\ Len(s) \in Nat \ {0}
           /\ Head(s) \in Range(s) /\ Range(s) = Range(Tail(s)) \cup {Head(s)}
           /\ Rising(s) => Rising(Tail(s)) /\ \A y \in Range(Tail(s)) : Head(s) < y
<1>. DEFINE t == Tail(s)
            n == Len(s)
<1>1. /\ t \in Seq(Nat) /\ Len(t) = n - 1 /\ n \in Nat \ {0}
      /\ \A i \in 1..(n - 1) : t[i] = s[i + 1] /\ i + 1 \in 1..n
      /\ Head(s) = s[1] /\ 1 \in 1..n
  <2>1. n \in Nat \ {0} /\ Head(s) = s[1]
    OBVIOUS
  <2>2. t \in Seq(Nat) /\ Len(t) = n - 1 /\ \A i \in 1..Len(t) : t[i] = s[i + 1]
    BY HeadTailProperties
  <2>. QED
    BY <2>1, <2>2
<1>. HIDE DEF t
<1>2. /\ DOMAIN s = 1..n /\ DOMAIN t = 1..(n - 1)
      /\ \A x : x \in Range(s) <=> \E i \in 1..n : x = s[i]
      /\ \A x : x \in Range(t) <=> \E i \in 1..(n - 1) : x = t[i]
      /\ \A i \in 1..n : s[i] \in Nat
  <2>1. /\ DOMAIN s = 1..n /\ \A i \in 1..n : s[i] \in Nat
        /\ \A x : x \in Range(s) <=> \E i \in 1..n : x = s[i]
    BY InRange
  <2>2. DOMAIN t = 1..Len(t) /\ \A x : x \in Range(t) <=> \E i \in 1..Len(t) : x = t[i]
    BY <1>1, InRange
  <2>. QED
    BY <1>1, <2>1, <2>2
<1>3. Head(s) \in Range(s)
  BY <1>1, <1>2
<1>4. \A x : x \in Range(t) => x \in Range(s)
  BY <1>1, <1>2
<1>5. ASSUME NEW x \in Range(s)
      PROVE  x \in Range(t) \/ x = Head(s)
  <2>1. PICK i \in 1..n : x = s[i]
    BY <1>2
  <2>2. CASE i # 1
    <3>1. i - 1 \in 1..(n - 1) /\ t[i - 1] = s[i]
      BY <2>2, <1>1
    <3>. QED
      BY <3>1, <2>1, <1>2
  <2>. QED
    BY <2>1, <2>2, <1>1
<1>6. ASSUME Rising(s)
      PROVE  Rising(t) /\ \A y \in Range(t) : Head(s) < y
  <2>1. \A i, j \in 1..n : i < j => s[i] < s[j]
    BY <1>6, <1>2 DEF Rising
  <2>2. ASSUME NEW y \in Range(t)
        PROVE  Head(s) < y
    <3>1. PICK i \in 1..(n - 1) : y = t[i]
      BY <1>2
    <3>2. y = s[i + 1] /\ i + 1 \in 1..n /\ 1 < i + 1
      BY <3>1, <1>1
    <3>. QED
      BY <3>2, <2>1, <1>1
  <2>3. ASSUME NEW i \in 1..(n - 1), NEW j \in 1..(n - 1), i < j
        PROVE  t[i] < t[j]
    <3>1. t[i] = s[i + 1] /\ t[j] = s[j + 1] /\ i + 1 \in 1..n /\ j + 1 \in 1..n /\ i + 1 < j + 1
      BY <2>3, <1>1
    <3>. QED
      BY <3>1, <2>1
  <2>. QED
    BY <2>2, <2>3, <1>2 DEF Rising
<1>. QED
  BY <1>1, <1>3, <1>4, <1>5, <1>6 DEF t

LEMMA RemoveRises ==
    ASSUME NEW s \in Seq(Nat), NEW i \in DOMAIN s
    PROVE  /\ RemoveAt(s, i) \in Seq(Nat)
           /\ Range(s) = Range(RemoveAt(s, i)) \cup {s[i]}
           /\ Rising(s) => Rising(RemoveAt(s, i))
<1>. DEFINE r == RemoveAt(s, i)
            n == Len(s)
            a == SubSeq(s, 1, i - 1)
            b == SubSeq(s, i + 1, n)
<1>1. n \in Nat /\ DOMAIN s = 1..n /\ i \in 1..n /\ \A k \in 1..n : s[k] \in Nat
  OBVIOUS
<1>2. /\ a \in Seq(Nat) /\ Len(a) = i - 1
      /\ \A k \in 1..(i - 1) : a[k] = s[k]
  <2>1. /\ a \in Seq(Nat) /\ Len(a) = IF 1 <= i - 1 THEN i - 1 - 1 + 1 ELSE 0
        /\ \A k \in 1..(i - 1 - 1 + 1) : a[k] = s[1 + k - 1]
    <3>1. 1 \in Int /\ i - 1 \in Int /\ \A k \in 1..(i - 1) : s[k] \in Nat
      BY <1>1
    <3>. QED
      BY <3>1, SubSeqProperties
  <2>. QED
    BY <2>1, <1>1
<1>3. /\ b \in Seq(Nat) /\ Len(b) = n - i
      /\ \A k \in 1..(n - i) : b[k] = s[i + k]
  <2>1. /\ b \in Seq(Nat) /\ Len(b) = IF i + 1 <= n THEN n - (i + 1) + 1 ELSE 0
        /\ \A k \in 1..(n - (i + 1) + 1) : b[k] = s[i + 1 + k - 1]
    <3>1. n \in Int /\ i + 1 \in Int /\ \A k \in (i + 1)..n : s[k] \in Nat
      BY <1>1
    <3>. QED
      BY <3>1, SubSeqProperties, SMTT(30)
  <2>2. /\ (IF i + 1 <= n THEN n - (i + 1) + 1 ELSE 0) = n - i /\ n - (i + 1) + 1 = n - i
        /\ \A k \in 1..(n - i) : i + 1 + k - 1 = i + k
    BY <1>1
  <2>. QED
    BY <2>1, <2>2
<1>4. r = a \o b
  BY DEF RemoveAt
<1>. HIDE DEF a, b, r
<1>5. /\ r \in Seq(Nat) /\ Len(r) = n - 1
      /\ \A k \in 1..(n - 1) : r[k] = IF k < i THEN s[k] ELSE s[k + 1]
  <2>1. /\ r \in Seq(Nat) /\ Len(r) = Len(a) + Len(b)
        /\ \A k \in 1..(Len(a) + Len(b)) : r[k] = IF k <= Len(a) THEN a[k] ELSE b[k - Len(a)]
    BY <1>2, <1>3, <1>4, ConcatProperties
  <2>2. Len(a) + Len(b) = n - 1
    BY <1>1, <1>2, <1>3
  <2>3. ASSUME NEW k \in 1..(n - 1)
        PROVE  r[k] = IF k < i THEN s[k] ELSE s[k + 1]
    <3>1. CASE k < i
      BY <3>1, <2>1, <2>2, <1>1, <1>2
    <3>2. CASE ~(k < i)
      <4>1. k - (i - 1) \in 1..(n - i) /\ i + (k - (i - 1)) = k + 1 /\ ~(k <= i - 1)
        BY <3>2, <1>1
      <4>2. b[k - (i - 1)] = s[k + 1]
        BY <4>1, <1>3
      <4>. QED
        BY <3>2, <4>1, <4>2, <2>1, <2>2, <1>2
    <3>. QED
      BY <3>1, <3>2
  <2>. QED
    BY <2>1, <2>2, <2>3
<1>6. /\ DOMAIN r = 1..(n - 1)
      /\ \A x : x \in Range(s) <=> \E k \in 1..n : x = s[k]
      /\ \A x : x \in Range(r) <=> \E k \in 1..(n - 1) : x = r[k]
  BY <1>1, <1>5, InRange, SMTT(30)
<1>7. s[i] \in Range(s)
  BY <1>1, <1>6
<1>8. ASSUME NEW x \in Range(s)
      PROVE  x \in Range(r) \/ x = s[i]
  <2>1. PICK k \in 1..n : x = s[k]
    BY <1>6
  <2>2. CASE k < i
    <3>1. k \in 1..(n - 1) /\ r[k] = s[k]
      BY <2>2, <1>1, <1>5
    <3>. QED
      BY <3>1, <2>1, <1>6
  <2>3. CASE k > i
    <3>1. k - 1 \in 1..(n - 1) /\ ~(k - 1 < i) /\ k - 1 + 1 = k
      BY <2>3, <1>1
    <3>2. r[k - 1] = s[k]
      BY <3>1, <1>5
    <3>. QED
      BY <3>1, <3>2, <2>1, <1>6
  <2>. QED
    BY <2>1, <2>2, <2>3, <1>1
<1>9. ASSUME NEW x \in Range(r)
      PROVE  x \in Range(s)
  <2>1. PICK k \in 1..(n - 1) : x = r[k]
    BY <1>6
  <2>2. k \in 1..n /\ k + 1 \in 1..n
    BY <1>1
  <2>. QED
    BY <2>1, <2>2, <1>5, <1>6
<1>10. ASSUME Rising(s)
      PROVE  Rising(r)
  <2>1. \A j, k \in 1..n : j < k => s[j] < s[k]
    BY <1>10, <1>1 DEF Rising
  <2>. SUFFICES ASSUME NEW j \in 1..(n - 1), NEW k \in 1..(n - 1), j < k
                PROVE  r[j] < r[k]
    BY <1>6 DEF Rising
  <2>2. /\ j \in 1..n /\ j + 1 \in 1..n /\ k \in 1..n /\ k + 1 \in 1..n
        /\ j < k + 1 /\ j + 1 < k + 1 /\ (~(j < i) => ~(k < i))
    BY <1>1
  <2>. QED
    BY <2>1, <2>2, <1>5
<1>. QED
  BY <1>5, <1>7, <1>8, <1>9, <1>10 DEF r

LEMMA EmptyRises == <<>> \in Seq(Nat) /\ Len(<<>>) = 0 /\ Range(<<>>) = {} /\ Rising(<<>>)
BY DEF Range, Rising

LEMMA LeastExists ==
    ASSUME NEW S \in SUBSET Nat, S # {}
    PROVE  Min(S) \in S
<1>1. PICK x \in S : \A y \in S : ~(<<y, x>> \in OpToRel(<, Nat))
  <2>. DEFINE R == OpToRel(<, Nat)
  <2>2. IsWellFoundedOn(R, Nat)
    BY NatLessThanWellFounded, Zenon
  <2>. HIDE DEF R
  <2>3. \E x \in S : \A y \in S : ~(<<y, x>> \in R)
    BY <2>2, WFMin
  <2>. QED
    BY <2>3 DEF R
<1>2. \A y \in S : x <= y
  <2>. SUFFICES ASSUME NEW y \in S, y < x
                PROVE  FALSE
    OBVIOUS
  <2>1. <<y, x>> \in Nat \X Nat /\ <<y, x>>[1] < <<y, x>>[2]
    OBVIOUS
  <2>2. <<y, x>> \in OpToRel(<, Nat)
    BY <2>1, Zenon DEF OpToRel
  <2>. QED
    BY <1>1, <2>2
<1>. QED
  BY <1>2 DEF Min

-----------------------------------------------------------------------------
(* The audit pipeline. *)

Lined == Range(lane["standard"]) \cup Range(lane["security"])
Queued == Lined \cup Range(blocked)
Drawn == Range(batch)

\* The variables have their types.
AuditShape ==
    /\ events \in Seq([lane : Lanes, tenant : Tenants])
    /\ lane \in [Lanes -> Seq(Nat)] /\ blocked \in Seq(Nat) /\ batch \in Seq(Nat)
    /\ worker \in [at : Lanes \cup {"wait", "flush", "dlq", "down"},
                   attempt : 1..AuditRetries, wrote : SUBSET Tenants]
    /\ troubles \in [failed : Nat, torn : BOOLEAN, all : Nat]
    /\ Queued \cup Drawn \cup Settled = Event

\* The lanes are in order and within their bounds, and publishers wait in line only for a
\* full security lane, behind what is in it.
LineInv ==
    /\ \A l \in Lanes : Rising(lane[l]) /\ Len(lane[l]) <= Room[l]
    /\ \A l \in Lanes : \A e \in Range(lane[l]) : events[e].lane = l
    /\ Rising(blocked) /\ (blocked # <<>> => Full("security"))
    /\ \A e \in Range(blocked) :
         events[e].lane = "security" /\ \A f \in Range(lane["security"]) : f < e
    /\ Len(batch) <= AuditBatch

\* An event overtakes no earlier one of its lane.
Behind(e) == {f \in Event : e < f /\ events[f].lane = events[e].lane}

OrderInv ==
    /\ Queued \cap (sql \cup dlq) = {} /\ Queued \cap Drawn = {}
    /\ \A e \in Queued : Behind(e) \subseteq Queued \cup excused
    /\ \A e \in Drawn : Behind(e) \subseteq Queued \cup Drawn \cup excused

\* Of a batch the database holds whole groups: those written in this attempt, and what a
\* failure tore off.
BatchInv ==
    /\ Drawn \cap dlq = {}
    /\ worker.at \notin {"flush", "dlq"} => Drawn \cap sql = {} 
    /\ \A e, f \in Drawn : TenantOf(e) = TenantOf(f) /\ f \in sql => e \in sql
    /\ worker.at = "flush" =>
         /\ \A e \in Drawn : TenantOf(e) \in worker.wrote => e \in sql \cup excused
         /\ \A e \in Drawn \cap sql : TenantOf(e) \in worker.wrote \/ troubles.torn
         /\ troubles.failed >= worker.attempt - 1 \/ troubles.torn
    /\ worker.at = "dlq" => troubles.failed >= AuditRetries \/ troubles.torn
    /\ DeadLettersAreDue

AuditInv == AuditShape /\ LineInv /\ OrderInv /\ BatchInv

LEMMA AuditConstants ==
    /\ Capacity \in Nat \ {0} /\ SecurityCapacity \in Nat \ {0}
    /\ AuditBatch \in Nat \ {0} /\ AuditRetries \in Nat \ {0}
    /\ Room["standard"] = Capacity /\ Room["security"] = SecurityCapacity
BY AuditAssumption DEF Room

\* What the shape says of single events.
LEMMA AuditFacts ==
    ASSUME AuditShape
    PROVE  /\ Len(events) \in Nat /\ Event \subseteq Nat
           /\ \A e \in Event : /\ events[e] \in [lane : Lanes, tenant : Tenants]
                               /\ events[e].lane \in Lanes /\ TenantOf(e) \in Tenants
           /\ lane["standard"] \in Seq(Nat) /\ lane["security"] \in Seq(Nat)
           /\ worker.at \in Lanes \cup {"wait", "flush", "dlq", "down"}
           /\ worker.attempt \in 1..AuditRetries /\ worker.wrote \in SUBSET Tenants
<1>1. Len(events) \in Nat /\ \A e \in 1..Len(events) : events[e] \in [lane : Lanes, tenant : Tenants]
  <2>1. events \in Seq([lane : Lanes, tenant : Tenants])
    BY DEF AuditShape
  <2>. QED
    BY <2>1, ElementOfSeq, LenProperties
<1>. QED
  BY <1>1 DEF AuditShape, Event, TenantOf, Lanes

LEMMA AuditStarts ==
    ASSUME NEW place \in {"security", "down"}, AuditInitAt(place)
    PROVE  AuditInv
<1>1. /\ lane["standard"] = <<>> /\ lane["security"] = <<>>
      /\ Lined = {} /\ Queued = {} /\ Drawn = {} /\ Settled = {} /\ Event = {}
  <2>1. lane["standard"] = <<>> /\ lane["security"] = <<>>
    BY DEF AuditInitAt, Lanes
  <2>2. Event = {}
    BY DEF AuditInitAt, Event
  <2>. QED
    BY <2>1, <2>2, EmptyRises DEF AuditInitAt, Lined, Queued, Drawn, Settled
<1>2. worker = [at |-> place, attempt |-> 1, wrote |-> {}] /\ 1 \in 1..AuditRetries
  BY AuditConstants DEF AuditInitAt, At
<1>3. AuditShape
  <2>1. lane \in [Lanes -> Seq(Nat)]
    BY EmptyRises DEF AuditInitAt
  <2>2. events \in Seq([lane : Lanes, tenant : Tenants])
    BY DEF AuditInitAt
  <2>3. worker \in [at : Lanes \cup {"wait", "flush", "dlq", "down"}, attempt : 1..AuditRetries, wrote : SUBSET Tenants]
    BY <1>2 DEF Lanes
  <2>. QED
    BY <1>1, <2>1, <2>2, <2>3, EmptyRises DEF AuditShape, AuditInitAt
<1>4. LineInv
  <2>1. \A l \in Lanes : lane[l] = <<>> /\ Room[l] \in Nat
    BY AuditConstants DEF AuditInitAt, Lanes
  <2>. QED
    BY <2>1, <1>1, EmptyRises, AuditConstants DEF LineInv, AuditInitAt
<1>5. OrderInv /\ BatchInv
  BY <1>1, <1>2, AuditConstants DEF OrderInv, BatchInv, AuditInitAt, DeadLettersAreDue
<1>. QED
  BY <1>3, <1>4, <1>5 DEF AuditInv

\* An event is published into a queue that may push others out for a reason.
LEMMA Published ==
    ASSUME AuditInv, NEW l \in Lanes, NEW t \in Tenants, NEW Q,
           events' = Append(events, [lane |-> l, tenant |-> t]),
           Q \subseteq Queued, Queued' = Q \cup {Len(events) + 1},
           excused' = excused \cup (Queued \ Q),
           UNCHANGED <<batch, worker, sql, dlq, troubles>>
    PROVE  /\ events' \in Seq([lane : Lanes, tenant : Tenants])
           /\ events'[Len(events) + 1].lane = l /\ \A e \in Event : events'[e] = events[e]
           /\ Queued' \cup Drawn' \cup Settled' = Event'
           /\ OrderInv' /\ BatchInv'
<1>. DEFINE x == [lane |-> l, tenant |-> t]
<1>0. PICK n : n = Len(events) + 1
  OBVIOUS
<1>1. /\ events' \in Seq([lane : Lanes, tenant : Tenants])
      /\ Len(events') = n /\ events'[n] = x /\ \A e \in Event : events'[e] = events[e]
  <2>1. events \in Seq([lane : Lanes, tenant : Tenants]) /\ x \in [lane : Lanes, tenant : Tenants]
    BY DEF AuditInv, AuditShape
  <2>. QED
    BY <1>0, <2>1, AppendProperties DEF Event
<1>2. /\ n \in Nat /\ n \notin Event /\ Event' = Event \cup {n} /\ \A e \in Event : e \in Nat /\ e < n
  BY <1>0, <1>1, AuditFacts DEF AuditInv, Event
<1>3. x.lane = l
  OBVIOUS
<1>. HIDE DEF x
<1>4. /\ Drawn' = Drawn /\ Settled \subseteq Settled' /\ Settled' = Settled \cup (Queued \ Q)
      /\ Queued \subseteq Event /\ Drawn \subseteq Event /\ Settled \subseteq Event
  BY DEF AuditInv, AuditShape, Settled, Drawn
<1>5. Queued' \cup Drawn' \cup Settled' = Event'
  <2>1. Queued' = Q \cup {n}
    BY <1>0
  <2>. QED
    BY <1>2, <1>4, <2>1 DEF AuditInv, AuditShape
<1>6. OrderInv'
  <2>0. Queued' = Q \cup {n} /\ n \notin sql \cup dlq
    BY <1>0, <1>2, <1>4 DEF Settled
  <2>1. Queued' \cap (sql' \cup dlq') = {} /\ Queued' \cap Drawn' = {}
    BY <2>0, <1>2, <1>4 DEF AuditInv, OrderInv
  <2>2. \A e \in Event : Behind(e)' \subseteq Behind(e) \cup {n}
    BY <1>1, <1>2 DEF Behind
  <2>3. Behind(n)' = {}
    BY <1>1, <1>2 DEF Behind
  <2>4. \A e \in Queued' : Behind(e)' \subseteq Queued' \cup excused'
    BY <2>0, <2>2, <2>3, <1>4 DEF AuditInv, OrderInv
  <2>5. \A e \in Drawn' : Behind(e)' \subseteq Queued' \cup Drawn' \cup excused'
    BY <2>0, <2>2, <1>4 DEF AuditInv, OrderInv
  <2>. QED
    BY <2>1, <2>4, <2>5 DEF OrderInv
<1>7. BatchInv'
  <2>1. \A e \in Drawn : TenantOf(e)' = TenantOf(e)
    BY <1>1, <1>4 DEF TenantOf
  <2>. QED
    BY <2>1, <1>4 DEF AuditInv, BatchInv, DeadLettersAreDue
<1>. QED
  BY <1>0, <1>1, <1>3, <1>5, <1>6, <1>7

LEMMA PublishStandardKeeps ==
    ASSUME AuditInv, NEW t \in Tenants, PublishStandard(t)
    PROVE  AuditInv'
<1>. DEFINE n == Len(events) + 1
            s == lane["standard"]
            kept == IF Full("standard") THEN Tail(s) ELSE s
<1>1. /\ s \in Seq(Nat) /\ n \in Nat /\ Rising(s) /\ Len(s) \in Nat
      /\ lane["security"] \in Seq(Nat) /\ Len(s) <= Capacity
      /\ lane \in [Lanes -> Seq(Nat)]
  <2>1. s \in Seq(Nat) /\ n \in Nat /\ lane["security"] \in Seq(Nat)
    BY AuditFacts DEF AuditInv
  <2>2. Rising(s) /\ Len(s) <= Capacity
    BY AuditConstants DEF AuditInv, LineInv, Lanes
  <2>3. Len(s) \in Nat
    BY <2>1, InRange
  <2>4. lane \in [Lanes -> Seq(Nat)]
    BY DEF AuditInv, AuditShape
  <2>. QED
    BY <2>1, <2>2, <2>3, <2>4
<1>2. /\ kept \in Seq(Nat) /\ Rising(kept) /\ Range(kept) \subseteq Range(s) /\ Len(kept) + 1 <= Capacity
      /\ excused' = excused \cup (Range(s) \ Range(kept))
      /\ Range(s) \ Range(kept) \subseteq IF Full("standard") THEN {Head(s)} ELSE {}
  <2>1. CASE Full("standard")
    <3>1. s # <<>>
      BY <2>1, AuditConstants, EmptyRises DEF Full
    <3>2. /\ kept \in Seq(Nat) /\ Rising(kept) /\ Range(s) = Range(kept) \cup {Head(s)}
          /\ Len(kept) = Len(s) - 1 /\ Head(s) \notin Range(kept) /\ Head(s) \in Range(s)
      <4>1. Tail(s) \in Seq(Nat) /\ \A y \in Range(Tail(s)) : Head(s) < y
        BY <3>1, <1>1, TailRises
      <4>2. Range(Tail(s)) \in SUBSET Nat /\ Range(s) \in SUBSET Nat /\ Head(s) \in Range(s)
        BY <3>1, <4>1, <1>1, TailRises, RangeOfSeq
      <4>. QED
        BY <2>1, <3>1, <4>1, <4>2, <1>1, TailRises
    <3>. QED
      BY <2>1, <3>2, <1>1 DEF PublishStandard
  <2>2. CASE ~Full("standard")
    BY <2>2, <1>1, AuditConstants DEF Full, PublishStandard
  <2>. QED
    BY <2>1, <2>2
<1>3. /\ lane' \in [Lanes -> Seq(Nat)]
      /\ lane'["standard"] = Append(kept, n) /\ lane'["security"] = lane["security"]
  <2>1. lane' = [lane EXCEPT !["standard"] = Append(kept, n)]
    BY DEF PublishStandard
  <2>2. Append(kept, n) \in Seq(Nat)
    BY <1>1, <1>2, AppendRises
  <2>. QED
    BY <1>1, <2>1, <2>2 DEF Lanes
<1>. HIDE DEF kept
<1>4. /\ \A y \in Range(kept) : y < n
      /\ Range(lane'["standard"]) = Range(kept) \cup {n} /\ Rising(lane'["standard"])
      /\ Len(lane'["standard"]) = Len(kept) + 1
  <2>1. \A y \in Range(s) : y < n
    BY AuditFacts DEF AuditInv, AuditShape, Queued, Lined, Event
  <2>. QED
    BY <2>1, <1>1, <1>2, <1>3, AppendRises
<1>. DEFINE Q == Range(kept) \cup Range(lane["security"]) \cup Range(blocked)
<1>5. Range(s) \cap (Range(lane["security"]) \cup Range(blocked)) = {}
  BY DEF AuditInv, LineInv, Lanes
<1>6. /\ Q \subseteq Queued /\ Queued' = Q \cup {n} /\ Queued \ Q = Range(s) \ Range(kept)
  BY <1>2, <1>3, <1>4, <1>5 DEF Queued, Lined, PublishStandard
<1>7. /\ events' \in Seq([lane : Lanes, tenant : Tenants])
      /\ events'[n].lane = "standard" /\ \A e \in Event : events'[e] = events[e]
      /\ Queued' \cup Drawn' \cup Settled' = Event'
      /\ OrderInv' /\ BatchInv'
  <2>1. /\ events' = Append(events, [lane |-> "standard", tenant |-> t])
        /\ excused' = excused \cup (Queued \ Q) /\ "standard" \in Lanes
        /\ UNCHANGED <<batch, worker, sql, dlq, troubles>>
    BY <1>2, <1>6 DEF PublishStandard, Lanes
  <2>. HIDE DEF Q
  <2>. QED
    BY <2>1, <1>6, Published
<1>8. AuditShape'
  BY <1>3, <1>7 DEF AuditInv, AuditShape, PublishStandard
<1>9. LineInv'
  <2>1. \A e \in Queued : events'[e] = events[e]
    BY <1>7 DEF AuditInv, AuditShape
  <2>2. \A l \in Lanes : Rising(lane'[l]) /\ Len(lane'[l]) <= Room[l]
    BY <1>2, <1>3, <1>4, AuditConstants DEF AuditInv, LineInv, Lanes
  <2>3. \A l \in Lanes : \A e \in Range(lane'[l]) : events'[e].lane = l
    <3>1. \A e \in Range(kept) : e \in Queued /\ events[e].lane = "standard"
      BY <1>2 DEF AuditInv, LineInv, Lanes, Queued, Lined
    <3>2. \A e \in Range(lane["security"]) : e \in Queued /\ events[e].lane = "security"
      BY DEF AuditInv, LineInv, Lanes, Queued, Lined
    <3>. QED
      BY <3>1, <3>2, <2>1, <1>3, <1>4, <1>7 DEF Lanes
  <2>4. Full("security")' <=> Full("security")
    BY <1>3 DEF Full, Room
  <2>. QED
    BY <2>1, <2>2, <2>3, <2>4, <1>3 DEF AuditInv, LineInv, PublishStandard, Queued
<1>. QED
  BY <1>7, <1>8, <1>9 DEF AuditInv

LEMMA PublishSecurityKeeps ==
    ASSUME AuditInv, NEW t \in Tenants, PublishSecurity(t)
    PROVE  AuditInv'
<1>. DEFINE n == Len(events) + 1
            s == lane["security"]
<1>1. /\ s \in Seq(Nat) /\ blocked \in Seq(Nat) /\ n \in Nat /\ Rising(s) /\ Rising(blocked)
      /\ lane \in [Lanes -> Seq(Nat)] /\ Len(s) <= SecurityCapacity /\ Len(s) \in Nat
  <2>1. s \in Seq(Nat) /\ blocked \in Seq(Nat) /\ n \in Nat
    BY AuditFacts DEF AuditInv, AuditShape
  <2>2. Rising(s) /\ Rising(blocked) /\ Len(s) <= SecurityCapacity
    BY AuditConstants DEF AuditInv, LineInv, Lanes
  <2>3. Len(s) \in Nat
    BY <2>1, InRange
  <2>4. lane \in [Lanes -> Seq(Nat)]
    BY DEF AuditInv, AuditShape
  <2>. QED
    BY <2>1, <2>2, <2>3, <2>4
<1>2. \A y \in Range(s) \cup Range(blocked) : y < n
  BY AuditFacts DEF AuditInv, AuditShape, Queued, Lined, Event
<1>3. /\ lane' \in [Lanes -> Seq(Nat)] /\ blocked' \in Seq(Nat)
      /\ lane'["standard"] = lane["standard"]
      /\ Rising(lane'["security"]) /\ Rising(blocked') /\ Len(lane'["security"]) <= SecurityCapacity
      /\ Range(s) \subseteq Range(lane'["security"]) /\ Range(blocked) \subseteq Range(blocked')
      /\ Range(lane'["security"]) \cup Range(blocked') = Range(s) \cup Range(blocked) \cup {n}
      /\ Range(lane'["security"]) \subseteq Range(s) \cup {n}
      /\ Range(blocked') \subseteq Range(blocked) \cup {n}
      /\ blocked' # <<>> => Len(lane'["security"]) >= SecurityCapacity
      /\ Range(blocked') # {} => n \notin Range(lane'["security"])
  <2>1. CASE Full("security")
    <3>1. blocked' = Append(blocked, n) /\ lane' = lane
      BY <2>1 DEF PublishSecurity
    <3>2. /\ blocked' \in Seq(Nat) /\ Range(blocked') = Range(blocked) \cup {n} /\ Rising(blocked')
      BY <3>1, <1>1, <1>2, AppendRises
    <3>3. n \notin Range(s)
      BY <1>1, <1>2
    <3>. QED
      BY <2>1, <3>1, <3>2, <3>3, <1>1, AuditConstants DEF Full
  <2>2. CASE ~Full("security")
    <3>1. lane' = [lane EXCEPT !["security"] = Append(s, n)] /\ blocked' = blocked
      BY <2>2 DEF PublishSecurity
    <3>2. /\ Append(s, n) \in Seq(Nat) /\ Range(Append(s, n)) = Range(s) \cup {n}
          /\ Rising(Append(s, n)) /\ Len(Append(s, n)) = Len(s) + 1
      BY <1>1, <1>2, AppendRises
    <3>3. blocked = <<>> /\ Range(blocked) = {}
      BY <2>2, EmptyRises DEF AuditInv, LineInv
    <3>4. lane'["security"] = Append(s, n) /\ lane'["standard"] = lane["standard"] /\ lane' \in [Lanes -> Seq(Nat)]
      BY <3>1, <3>2, <1>1 DEF Lanes
    <3>. QED
      BY <2>2, <3>1, <3>2, <3>3, <3>4, <1>1, AuditConstants DEF Full
  <2>. QED
    BY <2>1, <2>2
<1>4. Queued' = Queued \cup {n}
  BY <1>3 DEF Queued, Lined
<1>5. /\ events' \in Seq([lane : Lanes, tenant : Tenants])
      /\ events'[n].lane = "security" /\ \A e \in Event : events'[e] = events[e]
      /\ Queued' \cup Drawn' \cup Settled' = Event'
      /\ OrderInv' /\ BatchInv'
  <2>1. /\ events' = Append(events, [lane |-> "security", tenant |-> t])
        /\ excused' = excused \cup (Queued \ Queued) /\ "security" \in Lanes
        /\ UNCHANGED <<batch, worker, sql, dlq, troubles>>
    BY DEF PublishSecurity, Lanes
  <2>. QED
    BY <2>1, <1>4, Published
<1>6. AuditShape'
  BY <1>3, <1>5 DEF AuditInv, AuditShape, PublishSecurity
<1>7. LineInv'
  <2>1. \A e \in Queued : events'[e] = events[e]
    BY <1>5 DEF AuditInv, AuditShape
  <2>2. \A l \in Lanes : Rising(lane'[l]) /\ Len(lane'[l]) <= Room[l]
    BY <1>3, AuditConstants DEF AuditInv, LineInv, Lanes
  <2>3. \A l \in Lanes : \A e \in Range(lane'[l]) : events'[e].lane = l
    <3>1. \A e \in Range(lane["standard"]) : e \in Queued /\ events[e].lane = "standard"
      BY DEF AuditInv, LineInv, Lanes, Queued, Lined
    <3>2. \A e \in Range(s) : e \in Queued /\ events[e].lane = "security"
      BY DEF AuditInv, LineInv, Lanes, Queued, Lined
    <3>. QED
      BY <3>1, <3>2, <2>1, <1>3, <1>5 DEF Lanes
  <2>4. \A e \in Range(blocked') :
          events'[e].lane = "security" /\ \A f \in Range(lane'["security"]) : f < e
    <3>. SUFFICES ASSUME NEW e \in Range(blocked')
                  PROVE  events'[e].lane = "security" /\ \A f \in Range(lane'["security"]) : f < e
      OBVIOUS
    <3>1. Range(lane'["security"]) \subseteq Range(s)
      BY <1>3
    <3>2. CASE e = n
      BY <3>1, <3>2, <1>2, <1>5
    <3>3. CASE e \in Range(blocked)
      BY <3>1, <3>3, <2>1 DEF AuditInv, LineInv, Queued
    <3>. QED
      BY <3>2, <3>3, <1>3
  <2>. QED
    BY <2>2, <2>3, <2>4, <1>3, AuditConstants DEF AuditInv, LineInv, PublishSecurity, Full
<1>. QED
  BY <1>5, <1>6, <1>7 DEF AuditInv

\* The batch takes events out of the queues, or they leave for a reason, and what stays is
\* not overtaken.
LEMMA Leaving ==
    ASSUME AuditInv, Queued' \subseteq Queued,
           Queued \subseteq Queued' \cup Drawn' \cup excused',
           Drawn \subseteq Drawn', Drawn' \subseteq Queued \cup Drawn,
           excused \subseteq excused', excused' \subseteq Event,
           Queued' \cap Drawn' = {},
           \A e \in Queued' : Behind(e) \cap Queued \subseteq Queued' \cup excused',
           UNCHANGED <<events, sql, dlq>>
    PROVE  Queued' \cup Drawn' \cup Settled' = Event' /\ OrderInv'
<1>1. \A e : Behind(e)' = Behind(e)
  BY DEF Behind, Event
<1>2. Queued' \cup Drawn' \cup Settled' = Event'
  BY DEF AuditInv, AuditShape, Settled, Event
<1>3. \A e \in Queued' : Behind(e)' \subseteq Queued' \cup excused'
  BY <1>1 DEF AuditInv, OrderInv
<1>4. \A e \in Drawn' : Behind(e)' \subseteq Queued' \cup Drawn' \cup excused'
  BY <1>1 DEF AuditInv, OrderInv
<1>. QED
  BY <1>2, <1>3, <1>4 DEF AuditInv, OrderInv

LEMMA PublisherAbortsKeeps ==
    ASSUME AuditInv, NEW e \in Event, PublisherAborts(e)
    PROVE  AuditInv'
<1>1. PICK i \in DOMAIN blocked : blocked[i] = e /\ blocked' = RemoveAt(blocked, i)
  BY DEF PublisherAborts
<1>2. blocked \in Seq(Nat) /\ Rising(blocked)
  BY DEF AuditInv, AuditShape, LineInv
<1>3. blocked' \in Seq(Nat) /\ Rising(blocked') /\ Range(blocked) = Range(blocked') \cup {e}
  BY <1>1, <1>2, RemoveRises
<1>4. blocked # <<>>
  BY <1>1
<1>5. Queued' \subseteq Queued /\ Queued \subseteq Queued' \cup {e} /\ Drawn' = Drawn
  BY <1>3 DEF Queued, Lined, Drawn, PublisherAborts
<1>6. Queued' \cup Drawn' \cup Settled' = Event' /\ OrderInv'
  <2>1. /\ excused' = excused \cup {e} /\ UNCHANGED <<events, sql, dlq>>
        /\ excused' \subseteq Event
    BY DEF PublisherAborts, AuditInv, AuditShape, Settled
  <2>. QED
    BY <1>5, <2>1, Leaving DEF AuditInv, OrderInv
<1>7. BatchInv'
  BY <1>5 DEF AuditInv, BatchInv, PublisherAborts, TenantOf, DeadLettersAreDue
<1>8. LineInv'
  BY <1>3, <1>4 DEF AuditInv, LineInv, PublisherAborts, Full
<1>9. AuditShape'
  BY <1>3, <1>6 DEF AuditInv, AuditShape, PublisherAborts
<1>. QED
  BY <1>6, <1>7, <1>8, <1>9 DEF AuditInv

LEMMA DrainKeeps ==
    ASSUME AuditInv, NEW l \in Lanes, DrainAvailableItem(l)
    PROVE  AuditInv'
<1>. DEFINE s == lane[l]
            h == Head(s)
<1>1. /\ s \in Seq(Nat) /\ s # <<>> /\ Rising(s) /\ Len(s) \in Nat /\ Len(s) <= Room[l] /\ Room[l] \in Nat
      /\ lane \in [Lanes -> Seq(Nat)] /\ blocked \in Seq(Nat) /\ Rising(blocked) /\ batch \in Seq(Nat)
      /\ Len(batch) \in Nat /\ Len(batch) < AuditBatch
  <2>1. /\ lane \in [Lanes -> Seq(Nat)] /\ blocked \in Seq(Nat) /\ batch \in Seq(Nat)
    BY DEF AuditInv, AuditShape
  <2>2. s # <<>> /\ Rising(s) /\ Len(s) <= Room[l] /\ Rising(blocked) /\ Len(batch) < AuditBatch
    BY DEF AuditInv, LineInv, DrainAvailableItem
  <2>3. s \in Seq(Nat) /\ Room[l] \in Nat
    BY <2>1, AuditConstants DEF Lanes
  <2>. QED
    BY <2>1, <2>2, <2>3, LenProperties
<1>2. /\ Tail(s) \in Seq(Nat) /\ Rising(Tail(s)) /\ Len(Tail(s)) = Len(s) - 1
      /\ h \in Range(s) /\ Range(s) = Range(Tail(s)) \cup {h}
      /\ \A y \in Range(Tail(s)) : h < y
  BY <1>1, TailRises
<1>3. Range(s) \subseteq Queued /\ h \in Event /\ h \in Nat /\ Queued \subseteq Nat
  BY <1>2, AuditFacts DEF AuditInv, AuditShape, Queued, Lined, Lanes
<1>4. /\ lane' \in [Lanes -> Seq(Nat)] /\ blocked' \in Seq(Nat)
      /\ \A k \in Lanes \ {l} : lane'[k] = lane[k]
      /\ Rising(lane'[l]) /\ Rising(blocked') /\ Len(lane'[l]) <= Room[l]
      /\ Range(lane'[l]) \subseteq Range(Tail(s)) \cup Range(blocked)
      /\ Range(blocked') \subseteq Range(blocked)
      /\ Range(Tail(s)) \cup Range(blocked) = Range(lane'[l]) \cup Range(blocked')
      /\ l = "standard" => Range(lane'[l]) = Range(Tail(s)) /\ blocked' = blocked
      /\ blocked' # <<>> => l = "standard" \/ Len(lane'[l]) >= SecurityCapacity
      /\ l = "security" => \A e \in Range(blocked') : \A f \in Range(lane'[l]) : f < e
  <2>1. CASE Admits(l)
    <3>. DEFINE b == Head(blocked)
    <3>1. l = "security" /\ blocked # <<>> /\ Full(l)
      BY <2>1 DEF Admits, AuditInv, LineInv
    <3>2. /\ blocked' = Tail(blocked) /\ lane' = [lane EXCEPT ![l] = Append(Tail(s), b)]
      BY <2>1 DEF DrainAvailableItem
    <3>3. /\ blocked' \in Seq(Nat) /\ Rising(blocked') /\ b \in Range(blocked)
          /\ Range(blocked) = Range(blocked') \cup {b} /\ \A y \in Range(blocked') : b < y
      BY <3>1, <3>2, <1>1, TailRises
    <3>4. \A e \in Range(blocked) : \A f \in Range(s) : f < e
      BY <3>1 DEF AuditInv, LineInv
    <3>5. b \in Nat /\ \A y \in Range(Tail(s)) : y < b
      BY <3>3, <3>4, <1>2, <1>3 DEF Queued
    <3>6. /\ Append(Tail(s), b) \in Seq(Nat) /\ Rising(Append(Tail(s), b))
          /\ Range(Append(Tail(s), b)) = Range(Tail(s)) \cup {b} /\ Len(Append(Tail(s), b)) = Len(s)
      <4>1. \A q \in Seq(Nat) : Rising(q) /\ (\A y \in Range(q) : y < b) =>
              /\ Append(q, b) \in Seq(Nat) /\ Rising(Append(q, b))
              /\ Range(Append(q, b)) = Range(q) \cup {b} /\ Len(Append(q, b)) = Len(q) + 1
        BY <3>5, AppendRises
      <4>2. Len(Tail(s)) + 1 = Len(s)
        BY <1>1, <1>2
      <4>. QED
        BY <4>1, <4>2, <3>5, <1>2
    <3>7. lane'[l] = Append(Tail(s), b) /\ lane' \in [Lanes -> Seq(Nat)] /\ \A k \in Lanes \ {l} : lane'[k] = lane[k]
      BY <3>2, <3>6, <1>1
    <3>8. \A e \in Range(blocked') : \A f \in Range(lane'[l]) : f < e
      BY <3>3, <3>4, <3>6, <3>7, <1>2
    <3>9. Len(s) >= SecurityCapacity
      BY <3>1, AuditConstants DEF Full
    <3>. QED
      BY <3>1, <3>3, <3>6, <3>7, <3>8, <3>9, <1>1
  <2>2. CASE ~Admits(l)
    <3>1. blocked' = blocked /\ lane' = [lane EXCEPT ![l] = Tail(s)] /\ (l = "standard" \/ blocked = <<>>)
      BY <2>2 DEF Admits, DrainAvailableItem, Lanes
    <3>2. lane'[l] = Tail(s) /\ lane' \in [Lanes -> Seq(Nat)] /\ \A k \in Lanes \ {l} : lane'[k] = lane[k]
      BY <3>1, <1>1, <1>2
    <3>3. l = "security" => Range(blocked) = {}
      BY <3>1, EmptyRises
    <3>4. Len(Tail(s)) <= Room[l]
      BY <1>1, <1>2
    <3>. QED
      BY <3>1, <3>2, <3>3, <3>4, <1>1, <1>2
  <2>. QED
    BY <2>1, <2>2
<1>5. batch' \in Seq(Nat) /\ Drawn' = Drawn \cup {h} /\ Len(batch') <= AuditBatch
  <2>1. batch' = Append(batch, h)
    BY DEF DrainAvailableItem
  <2>. QED
    BY <2>1, <1>1, <1>3, AppendRises, AuditConstants DEF Drawn
<1>6. Queued' \subseteq Queued /\ Queued \subseteq Queued' \cup {h}
  <2>1. CASE l = "standard"
    BY <2>1, <1>2, <1>4 DEF Queued, Lined, Lanes
  <2>2. CASE l = "security"
    BY <2>2, <1>2, <1>4 DEF Queued, Lined, Lanes
  <2>. QED
    BY <2>1, <2>2 DEF Lanes
<1>7. \A e \in Queued : h \notin Behind(e)
  <2>. SUFFICES ASSUME NEW e \in Queued, events[e].lane = l, e < h
                PROVE  FALSE
    BY <1>2 DEF Behind, AuditInv, LineInv
  <2>1. e \in Range(s) \/ (l = "security" /\ e \in Range(blocked))
    BY DEF Queued, Lined, AuditInv, LineInv, Lanes
  <2>2. h <= e
    <3>1. CASE e \in Range(s)
      BY <3>1, <1>2, <1>3
    <3>2. CASE l = "security" /\ e \in Range(blocked)
      BY <3>2, <1>2, <1>3 DEF AuditInv, LineInv
    <3>. QED
      BY <2>1, <3>1, <3>2
  <2>. QED
    BY <2>2, <1>3
<1>8. UNCHANGED <<events, worker, sql, dlq, excused, troubles>>
  BY DEF DrainAvailableItem
<1>13. h \notin Queued'
  <2>1. h \notin Range(Tail(s))
    BY <1>1, <1>2, <1>3, RangeOfSeq
  <2>2. h \notin Range(blocked)
    <3>1. CASE l = "standard"
      BY <3>1, <1>2 DEF AuditInv, LineInv
    <3>2. CASE l = "security"
      <4>1. h \in Range(blocked) => h < h
        BY <3>2, <1>2 DEF AuditInv, LineInv
      <4>. QED
        BY <4>1, <1>3
    <3>. QED
      BY <3>1, <3>2 DEF Lanes
  <2>3. \A k \in Lanes \ {l} : h \notin Range(lane[k])
    BY <1>2 DEF AuditInv, LineInv
  <2>. QED
    BY <2>1, <2>2, <2>3, <1>4 DEF Queued, Lined, Lanes
<1>9. Queued' \cup Drawn' \cup Settled' = Event' /\ OrderInv'
  <2>1. excused' \subseteq Event
    BY <1>8 DEF AuditInv, AuditShape, Settled
  <2>. QED
    <3>1. Queued' \cap Drawn' = {}
      BY <1>5, <1>6, <1>13 DEF AuditInv, OrderInv
    <3>2. \A e \in Queued' : Behind(e) \cap Queued \subseteq Queued' \cup excused'
      BY <1>6, <1>7
    <3>. QED
      BY <2>1, <3>1, <3>2, <1>2, <1>3, <1>5, <1>6, <1>8, Leaving
<1>10. BatchInv'
  <2>1. worker.at \in Lanes /\ worker.at \notin {"flush", "dlq"}
    BY DEF DrainAvailableItem, Lanes
  <2>2. h \notin sql \cup dlq
    BY <1>2, <1>3 DEF AuditInv, OrderInv
  <2>. QED
    BY <2>1, <2>2, <1>5, <1>8 DEF AuditInv, BatchInv, TenantOf, DeadLettersAreDue
<1>11. LineInv'
  <2>1. \A k \in Lanes : Rising(lane'[k]) /\ Len(lane'[k]) <= Room[k]
    BY <1>4 DEF AuditInv, LineInv
  <2>2. \A k \in Lanes : \A e \in Range(lane'[k]) : events'[e].lane = k
    <3>1. \A e \in Range(lane'[l]) : events[e].lane = l
      <4>1. CASE l = "standard"
        BY <4>1, <1>2, <1>4 DEF AuditInv, LineInv
      <4>2. CASE l = "security"
        BY <4>2, <1>2, <1>4 DEF AuditInv, LineInv
      <4>. QED
        BY <4>1, <4>2 DEF Lanes
    <3>. QED
      BY <3>1, <1>4, <1>8 DEF AuditInv, LineInv
  <2>3. \A e \in Range(blocked') :
          events'[e].lane = "security" /\ \A f \in Range(lane'["security"]) : f < e
    <3>1. CASE l = "standard"
      BY <3>1, <1>4, <1>8 DEF AuditInv, LineInv, Lanes
    <3>2. CASE l = "security"
      BY <3>2, <1>4, <1>8 DEF AuditInv, LineInv
    <3>. QED
      BY <3>1, <3>2 DEF Lanes
  <2>4. blocked' # <<>> => Full("security")'
    <3>1. CASE l = "standard"
      BY <3>1, <1>4, AuditConstants DEF AuditInv, LineInv, Lanes, Full
    <3>2. CASE l = "security"
      BY <3>2, <1>4, AuditConstants DEF Full
    <3>. QED
      BY <3>1, <3>2 DEF Lanes
  <2>. QED
    BY <2>1, <2>2, <2>3, <2>4, <1>4, <1>5 DEF LineInv
<1>12. AuditShape'
  BY <1>4, <1>5, <1>8, <1>9 DEF AuditInv, AuditShape
<1>. QED
  BY <1>9, <1>10, <1>11, <1>12 DEF AuditInv

\* The worker moves on, and the sinks only grow by what it holds.
LEMMA QueuesStand ==
    ASSUME AuditInv, UNCHANGED <<events, lane, blocked>>, batch' \in {batch, <<>>},
           worker' \in [at : Lanes \cup {"wait", "flush", "dlq", "down"},
                        attempt : 1..AuditRetries, wrote : SUBSET Tenants],
           troubles' \in [failed : Nat, torn : BOOLEAN, all : Nat],
           sql \subseteq sql', sql' \subseteq sql \cup Drawn,
           dlq \subseteq dlq', dlq' \subseteq dlq \cup Drawn,
           excused \subseteq excused', excused' \subseteq Event,
           Drawn \subseteq Drawn' \cup Settled'
    PROVE  AuditShape' /\ LineInv' /\ OrderInv'
<1>1. Queued' = Queued /\ Event' = Event /\ \A e : Behind(e)' = Behind(e)
  BY DEF Queued, Lined, Event, Behind
<1>2. Drawn' \in {Drawn, {}} /\ batch' \in Seq(Nat) /\ Len(batch') <= AuditBatch
  <2>1. CASE batch' = batch
    BY <2>1 DEF Drawn, AuditInv, AuditShape, LineInv
  <2>2. CASE batch' = <<>>
    BY <2>2, EmptyRises, AuditConstants DEF Drawn
  <2>. QED
    BY <2>1, <2>2
<1>3. Queued' \cup Drawn' \cup Settled' = Event'
  BY <1>1, <1>2 DEF AuditInv, AuditShape, Settled
<1>4. AuditShape'
  BY <1>2, <1>3 DEF AuditInv, AuditShape
<1>5. LineInv'
  BY <1>2 DEF AuditInv, LineInv, Full
<1>6. OrderInv'
  <2>1. Queued' \cap (sql' \cup dlq') = {} /\ Queued' \cap Drawn' = {}
    BY <1>1, <1>2 DEF AuditInv, OrderInv
  <2>2. \A e \in Queued' : Behind(e)' \subseteq Queued' \cup excused'
    BY <1>1 DEF AuditInv, OrderInv
  <2>3. \A e \in Drawn' : Behind(e)' \subseteq Queued' \cup Drawn' \cup excused'
    BY <1>1, <1>2 DEF AuditInv, OrderInv
  <2>. QED
    BY <2>1, <2>2, <2>3 DEF OrderInv
<1>. QED
  BY <1>4, <1>5, <1>6

\* The worker goes to a place where it holds nothing that is under way.
LEMMA MovesKeep ==
    ASSUME AuditInv, NEW place \in Lanes \cup {"wait", "flush"}, worker' = At(place),
           UNCHANGED <<events, lane, blocked, batch, sql, dlq, excused, troubles>>,
           worker.at \notin {"flush", "dlq"}
    PROVE  AuditInv'
<1>1. /\ worker' = [at |-> place, attempt |-> 1, wrote |-> {}] /\ 1 \in 1..AuditRetries
      /\ worker'.at = place /\ worker'.wrote = {} /\ worker'.attempt = 1
  BY AuditConstants DEF At
<1>2. worker' \in [at : Lanes \cup {"wait", "flush", "dlq", "down"}, attempt : 1..AuditRetries, wrote : SUBSET Tenants]
  BY <1>1 DEF Lanes
<1>3. AuditShape' /\ LineInv' /\ OrderInv'
  BY <1>2, QueuesStand DEF AuditInv, AuditShape, Settled, Drawn
<1>4. BatchInv'
  BY <1>1 DEF AuditInv, AuditShape, BatchInv, TenantOf, Drawn, DeadLettersAreDue, Lanes
<1>. QED
  BY <1>3, <1>4 DEF AuditInv

LEMMA IdleKeeps ==
    ASSUME AuditInv, (\E l \in Lanes : Drained(l)) \/ DataReady \/ IntervalElapses
    PROVE  AuditInv'
<1>1. PICK place \in Lanes \cup {"wait", "flush"} : worker' = At(place)
  <2>1. ASSUME NEW l \in Lanes, Drained(l)
        PROVE  \E place \in Lanes \cup {"wait", "flush"} : worker' = At(place)
    BY <2>1 DEF Drained, Lanes
  <2>2. CASE DataReady
    BY <2>2 DEF DataReady, Lanes
  <2>3. CASE IntervalElapses
    BY <2>3 DEF IntervalElapses, Lanes
  <2>. QED
    BY <2>1, <2>2, <2>3
<1>2. /\ worker.at \in Lanes \cup {"wait"} /\ worker.at \notin {"flush", "dlq"}
      /\ UNCHANGED <<events, lane, blocked, batch, sql, dlq, excused, troubles>>
  BY DEF Drained, DataReady, IntervalElapses, Lanes
<1>. QED
  BY <1>1, <1>2, MovesKeep

\* The batch is given up to the sinks, or to a reason.
LEMMA ClearsKeep ==
    ASSUME AuditInv, batch' = <<>>, worker' = At("security"), worker.at \in {"flush", "dlq"},
           UNCHANGED <<events, lane, blocked, sql>>,
           dlq' \in {dlq, dlq \cup Drawn}, excused' \in {excused, excused \cup Drawn},
           Drawn \subseteq sql \cup dlq' \cup excused',
           dlq' = dlq \/ worker.at = "dlq",
           troubles' \in [failed : Nat, torn : BOOLEAN, all : Nat],
           troubles'.failed = troubles.failed, troubles'.torn = troubles.torn
    PROVE  AuditInv'
<1>1. /\ worker' = [at |-> "security", attempt |-> 1, wrote |-> {}] /\ 1 \in 1..AuditRetries
      /\ worker'.at = "security"
  BY AuditConstants DEF At
<1>2. worker' \in [at : Lanes \cup {"wait", "flush", "dlq", "down"}, attempt : 1..AuditRetries, wrote : SUBSET Tenants]
  BY <1>1 DEF Lanes
<1>3. Drawn' = {} /\ Drawn \subseteq Event /\ excused \subseteq Event
  BY EmptyRises DEF Drawn, AuditInv, AuditShape, Settled
<1>4. AuditShape' /\ LineInv' /\ OrderInv'
  <2>1. excused' \subseteq Event /\ dlq \subseteq dlq' /\ dlq' \subseteq dlq \cup Drawn /\ excused \subseteq excused'
        /\ Drawn \subseteq Drawn' \cup Settled'
    BY <1>3 DEF Settled
  <2>. QED
    BY <1>2, <2>1, QueuesStand
<1>5. DeadLettersAreDue'
  BY DEF AuditInv, BatchInv, DeadLettersAreDue
<1>6. BatchInv'
  BY <1>1, <1>3, <1>5 DEF BatchInv
<1>. QED
  BY <1>4, <1>6 DEF AuditInv

LEMMA FlushedKeeps ==
    ASSUME AuditInv, Flushed
    PROVE  AuditInv'
<1>1. \A e \in Drawn : TenantOf(e) \in worker.wrote
  BY DEF Flushed, Unwritten, Drawn, Range
<1>2. Drawn \subseteq sql \cup excused
  BY <1>1 DEF Flushed, AuditInv, BatchInv
<1>. QED
  BY <1>2, ClearsKeep DEF Flushed, AuditInv, AuditShape

LEMMA DeadLettersKeeps ==
    ASSUME AuditInv, DeadLetters
    PROVE  AuditInv'
<1>1. CASE dlq' = dlq \cup Range(batch) /\ UNCHANGED <<excused, troubles>>
  BY <1>1, ClearsKeep DEF DeadLetters, AuditInv, AuditShape, Drawn
<1>2. CASE excused' = excused \cup Range(batch) /\ troubles' = [troubles EXCEPT !.all = @ + 1] /\ UNCHANGED dlq
  <2>1. /\ troubles' \in [failed : Nat, torn : BOOLEAN, all : Nat]
        /\ troubles'.failed = troubles.failed /\ troubles'.torn = troubles.torn
    <3>1. troubles \in [failed : Nat, torn : BOOLEAN, all : Nat]
      BY DEF AuditInv, AuditShape
    <3>. QED
      BY <1>2, <3>1
  <2>. QED
    BY <1>2, <2>1, ClearsKeep DEF DeadLetters, Drawn
<1>. QED
  BY <1>1, <1>2 DEF DeadLetters

LEMMA StopsKeeps ==
    ASSUME AuditInv, Stops
    PROVE  AuditInv'
<1>1. /\ worker' = [at |-> "security", attempt |-> 1, wrote |-> {}] /\ 1 \in 1..AuditRetries
      /\ worker'.at = "security"
  BY AuditConstants DEF At, Stops
<1>2. worker' \in [at : Lanes \cup {"wait", "flush", "dlq", "down"}, attempt : 1..AuditRetries, wrote : SUBSET Tenants]
  BY <1>1 DEF Lanes
<1>3. /\ \A l \in Lanes : lane'[l] = <<>>
      /\ lane' \in [Lanes -> Seq(Nat)] /\ blocked' = <<>> /\ batch' = <<>>
  BY EmptyRises DEF Stops
<1>4. /\ lane'["standard"] = <<>> /\ lane'["security"] = <<>>
      /\ Queued' = {} /\ Drawn' = {} /\ Event' = Event
  <2>1. lane'["standard"] = <<>> /\ lane'["security"] = <<>>
    BY <1>3 DEF Lanes
  <2>. QED
    BY <2>1, <1>3, EmptyRises DEF Queued, Lined, Drawn, Event, Stops
<1>5. /\ troubles' \in [failed : Nat, torn : BOOLEAN, all : Nat]
      /\ troubles'.failed = troubles.failed /\ troubles'.torn = troubles.torn
  <2>1. troubles \in [failed : Nat, torn : BOOLEAN, all : Nat] /\ troubles' = [troubles EXCEPT !.all = @ + 1]
    BY DEF AuditInv, AuditShape, Stops
  <2>. QED
    BY <2>1
<1>6. AuditShape'
  <2>1. Queued' \cup Drawn' \cup Settled' = Event'
    BY <1>4 DEF AuditInv, AuditShape, Settled, Stops
  <2>. QED
    BY <2>1, <1>2, <1>3, <1>5, EmptyRises DEF AuditInv, AuditShape, Stops
<1>7. LineInv'
  BY <1>3, <1>4, EmptyRises, AuditConstants DEF LineInv, Room, Lanes
<1>8. OrderInv' /\ BatchInv'
  BY <1>1, <1>4, <1>5 DEF OrderInv, BatchInv, AuditInv, DeadLettersAreDue, Stops
<1>. QED
  BY <1>6, <1>7, <1>8 DEF AuditInv

\* The group that is written next is one the attempt has not written.
LEMMA GroupFits ==
    ASSUME AuditInv, Unwritten # {}
    PROVE  /\ Current \in Tenants /\ Current \notin worker.wrote
           /\ Group \subseteq Drawn /\ Group # {}
           /\ \A e \in Drawn : e \in Group <=> TenantOf(e) = Current
<1>1. batch \in Seq(Nat) /\ DOMAIN batch \subseteq Nat
  BY DEF AuditInv, AuditShape
<1>2. Min(Unwritten) \in Unwritten
  BY <1>1, LeastExists DEF Unwritten
<1>3. /\ Min(Unwritten) \in DOMAIN batch /\ Current \notin worker.wrote
  BY <1>2 DEF Unwritten, Current
<1>4. batch[Min(Unwritten)] \in Drawn
  BY <1>3 DEF Drawn, Range
<1>5. Current \in Tenants
  BY <1>4, AuditFacts DEF Current, AuditInv, AuditShape
<1>. QED
  BY <1>3, <1>4, <1>5 DEF Group, Drawn, Current

\* An attempt that failed has left a part of the batch behind, or is one of the failures.
LEMMA AttemptFailsKeeps ==
    ASSUME AuditInv, worker.at = "flush", AttemptFails, Unwritten # {},
           sql' \in {sql, sql \cup Group}, excused' = excused,
           UNCHANGED <<events, lane, blocked, batch, dlq>>,
           troubles' \in [failed : Nat, torn : BOOLEAN, all : Nat],
           troubles.torn => troubles'.torn, troubles'.failed >= troubles.failed,
           troubles'.torn \/ troubles'.failed >= troubles.failed + 1,
           Drawn \cap sql' # {} => troubles'.torn
    PROVE  AuditInv'
<1>1. /\ worker \in [at : Lanes \cup {"wait", "flush", "dlq", "down"}, attempt : 1..AuditRetries, wrote : SUBSET Tenants]
      /\ troubles \in [failed : Nat, torn : BOOLEAN, all : Nat] /\ AuditRetries \in Nat \ {0}
  BY AuditConstants DEF AuditInv, AuditShape
<1>2. /\ worker' \in [at : Lanes \cup {"wait", "flush", "dlq", "down"}, attempt : 1..AuditRetries, wrote : SUBSET Tenants]
      /\ worker'.wrote = {}
      /\ \/ worker'.at = "flush" /\ worker'.attempt = worker.attempt + 1
         \/ worker'.at = "dlq" /\ worker.attempt >= AuditRetries
  <2>1. CASE worker.attempt < AuditRetries
    <3>1. worker' = [worker EXCEPT !.attempt = @ + 1, !.wrote = {}]
      BY <2>1 DEF AttemptFails
    <3>2. worker.attempt + 1 \in 1..AuditRetries
      BY <2>1, <1>1
    <3>. QED
      BY <3>1, <3>2, <1>1
  <2>2. CASE ~(worker.attempt < AuditRetries)
    <3>1. worker' = [at |-> "dlq", attempt |-> 1, wrote |-> {}]
      BY <2>2 DEF AttemptFails, At
    <3>. QED
      BY <2>2, <3>1, <1>1
  <2>. QED
    BY <2>1, <2>2
<1>3. Drawn' = Drawn /\ \A e : TenantOf(e)' = TenantOf(e)
  BY DEF Drawn, TenantOf
<1>4. AuditShape' /\ LineInv' /\ OrderInv'
  <2>1. sql \subseteq sql' /\ sql' \subseteq sql \cup Drawn /\ excused' \subseteq Event
    BY GroupFits DEF AuditInv, AuditShape, Settled
  <2>. QED
    BY <2>1, <1>2, <1>3, QueuesStand
<1>5. \A e, f \in Drawn : TenantOf(e) = TenantOf(f) /\ f \in sql' => e \in sql'
  BY GroupFits DEF AuditInv, BatchInv
<1>6. troubles.failed >= worker.attempt - 1 \/ troubles.torn
  BY DEF AuditInv, BatchInv
<1>7. /\ worker'.at = "flush" => troubles'.failed >= worker'.attempt - 1 \/ troubles'.torn
      /\ worker'.at = "dlq" => troubles'.failed >= AuditRetries \/ troubles'.torn
  BY <1>1, <1>2, <1>6
<1>8. DeadLettersAreDue'
  BY <1>1 DEF AuditInv, BatchInv, DeadLettersAreDue
<1>9. BatchInv'
  BY <1>2, <1>3, <1>5, <1>7, <1>8 DEF AuditInv, BatchInv
<1>. QED
  BY <1>4, <1>9 DEF AuditInv

\* A group is written, or skipped.
LEMMA WritesKeep ==
    ASSUME AuditInv, worker.at = "flush", Unwritten # {},
           worker' = [worker EXCEPT !.wrote = @ \cup {Current}],
           \/ sql' = sql \cup Group /\ excused' = excused
           \/ sql' = sql /\ excused' = excused \cup (Group \ sql),
           UNCHANGED <<events, lane, blocked, batch, dlq>>,
           troubles' \in [failed : Nat, torn : BOOLEAN, all : Nat],
           troubles'.failed = troubles.failed, troubles'.torn = troubles.torn
    PROVE  AuditInv'
<1>1. worker \in [at : Lanes \cup {"wait", "flush", "dlq", "down"}, attempt : 1..AuditRetries, wrote : SUBSET Tenants]
  BY DEF AuditInv, AuditShape
<1>2. /\ worker' \in [at : Lanes \cup {"wait", "flush", "dlq", "down"}, attempt : 1..AuditRetries, wrote : SUBSET Tenants]
      /\ worker'.at = "flush" /\ worker'.attempt = worker.attempt
      /\ worker'.wrote = worker.wrote \cup {Current}
  BY <1>1, GroupFits
<1>3. Drawn' = Drawn /\ \A e : TenantOf(e)' = TenantOf(e)
  BY DEF Drawn, TenantOf
<1>4. AuditShape' /\ LineInv' /\ OrderInv'
  <2>1. /\ sql \subseteq sql' /\ sql' \subseteq sql \cup Drawn
        /\ excused \subseteq excused' /\ excused' \subseteq Event
    BY GroupFits DEF AuditInv, AuditShape, Settled
  <2>. QED
    BY <2>1, <1>2, <1>3, QueuesStand
<1>5. \A e, f \in Drawn : TenantOf(e) = TenantOf(f) /\ f \in sql' => e \in sql'
  BY GroupFits DEF AuditInv, BatchInv
<1>6. \A e \in Drawn : TenantOf(e) \in worker'.wrote => e \in sql' \cup excused'
  BY <1>2, GroupFits DEF AuditInv, BatchInv
<1>7. \A e \in Drawn \cap sql' : TenantOf(e) \in worker'.wrote \/ troubles'.torn
  BY <1>2, GroupFits DEF AuditInv, BatchInv
<1>8. BatchInv'
  BY <1>2, <1>3, <1>5, <1>6, <1>7 DEF AuditInv, BatchInv, DeadLettersAreDue
<1>. QED
  BY <1>4, <1>8 DEF AuditInv

LEMMA SavesGroupKeeps ==
    ASSUME AuditInv, SavesGroup
    PROVE  AuditInv'
<1>1. /\ worker.at = "flush" /\ Unwritten # {}
      /\ UNCHANGED <<events, lane, blocked, batch, dlq, excused, troubles>>
      /\ troubles' \in [failed : Nat, torn : BOOLEAN, all : Nat]
  BY DEF SavesGroup, AuditInv, AuditShape
<1>2. CASE Group \cap sql = {}
  BY <1>1, <1>2, WritesKeep DEF SavesGroup
<1>3. CASE Group \cap sql # {}
  <2>1. troubles.torn
    BY <1>1, <1>3, GroupFits DEF AuditInv, BatchInv
  <2>2. AttemptFails /\ sql' = sql
    BY <1>3 DEF SavesGroup
  <2>3. troubles.failed >= troubles.failed
    BY DEF AuditInv, AuditShape
  <2>. QED
    BY <1>1, <2>1, <2>2, <2>3, AttemptFailsKeeps
<1>. QED
  BY <1>2, <1>3

LEMMA SaveFailsKeeps ==
    ASSUME AuditInv, SaveFails
    PROVE  AuditInv'
<1>1. troubles \in [failed : Nat, torn : BOOLEAN, all : Nat]
  BY DEF AuditInv, AuditShape
<1>2. /\ worker.at = "flush" /\ Unwritten # {} /\ AttemptFails /\ sql' \in {sql, sql \cup Group}
      /\ UNCHANGED <<events, lane, blocked, batch, dlq, excused>>
      /\ troubles' = [failed |-> troubles.failed + 1, all |-> troubles.all + 1,
                      torn |-> troubles.torn \/ Drawn \cap sql' # {}]
  BY DEF SaveFails, Drawn
<1>3. /\ troubles'.failed = troubles.failed + 1 /\ troubles' \in [failed : Nat, torn : BOOLEAN, all : Nat]
      /\ troubles'.torn <=> troubles.torn \/ Drawn \cap sql' # {}
  <2>1. PICK b \in BOOLEAN : b = (troubles.torn \/ Drawn \cap sql' # {})
    BY <1>1, Zenon
  <2>2. troubles' = [failed |-> troubles.failed + 1, all |-> troubles.all + 1, torn |-> b]
    BY <1>2, <2>1, Zenon
  <2>3. troubles'.failed = troubles.failed + 1 /\ troubles' \in [failed : Nat, torn : BOOLEAN, all : Nat]
        /\ troubles'.torn = b
    BY <1>1, <2>2
  <2>. QED
    BY <2>1, <2>3
<1>4. troubles'.failed >= troubles.failed /\ troubles'.failed >= troubles.failed + 1
  BY <1>1, <1>3
<1>. QED
  BY <1>2, <1>3, <1>4, AttemptFailsKeeps

LEMMA UnknownTenantKeeps ==
    ASSUME AuditInv, UnknownTenant
    PROVE  AuditInv'
<1>1. troubles \in [failed : Nat, torn : BOOLEAN, all : Nat] /\ troubles' = [troubles EXCEPT !.all = @ + 1]
  BY DEF AuditInv, AuditShape, UnknownTenant
<1>2. /\ troubles' \in [failed : Nat, torn : BOOLEAN, all : Nat]
      /\ troubles'.failed = troubles.failed /\ troubles'.torn = troubles.torn
  BY <1>1
<1>. QED
  BY <1>2, WritesKeep DEF UnknownTenant

LEMMA AuditStep ==
    ASSUME AuditInv, AuditNext
    PROVE  AuditInv'
<1>1. CASE \E t \in Tenants : PublishStandard(t) \/ PublishSecurity(t)
  BY <1>1, PublishStandardKeeps, PublishSecurityKeeps
<1>2. CASE \E e \in Event : PublisherAborts(e)
  BY <1>2, PublisherAbortsKeeps
<1>3. CASE WorkerStep
  <2>1. CASE \E l \in Lanes : DrainAvailableItem(l)
    BY <2>1, DrainKeeps
  <2>2. CASE (\E l \in Lanes : Drained(l)) \/ DataReady \/ IntervalElapses
    BY <2>2, IdleKeeps
  <2>. QED
    BY <1>3, <2>1, <2>2, SavesGroupKeeps, FlushedKeeps, DeadLettersKeeps DEF WorkerStep
<1>. QED
  BY <1>1, <1>2, <1>3, SaveFailsKeeps, UnknownTenantKeeps, StopsKeeps DEF AuditNext

LEMMA AuditHolds == AuditInv => AuditTells
<1>. SUFFICES ASSUME AuditInv
              PROVE  AuditTells
  OBVIOUS
<1>1. InLanes = Lined
  BY DEF InLanes, Lined, Lanes
<1>2. AuditTypeOK
  <2>1. \A e \in Event : events[e].lane \in Lanes /\ events[e].tenant \in Tenants
    BY AuditFacts DEF AuditInv, TenantOf
  <2>2. /\ worker.at \in Lanes \cup {"wait", "flush", "dlq", "down"}
        /\ worker.attempt \in 1..AuditRetries /\ worker.wrote \subseteq Tenants
    BY AuditFacts DEF AuditInv
  <2>. QED
    BY <2>1, <2>2 DEF AuditTypeOK, AuditInv, LineInv
<1>3. EventsKept
  BY <1>1 DEF EventsKept, InMemory, Queued, Drawn, AuditInv, AuditShape
<1>4. TrailInOrder
  <2>. SUFFICES ASSUME NEW e \in Event, NEW f \in Event, e < f, events[e] = events[f],
                       f \in sql \cup dlq, f \notin excused
                PROVE  e \in Settled
    BY DEF TrailInOrder
  <2>1. f \in Behind(e) /\ f \notin Queued /\ TenantOf(e) = TenantOf(f)
    BY DEF Behind, TenantOf, AuditInv, OrderInv
  <2>2. e \notin Queued
    BY <2>1 DEF AuditInv, OrderInv
  <2>3. CASE e \in Drawn
    <3>1. f \in Drawn
      BY <2>1, <2>3 DEF AuditInv, OrderInv
    <3>. QED
      BY <3>1, <2>1, <2>3 DEF AuditInv, BatchInv, Settled
  <2>. QED
    BY <2>2, <2>3 DEF AuditInv, AuditShape
<1>. QED
  BY <1>2, <1>3, <1>4 DEF AuditTells, AuditInv, BatchInv

-----------------------------------------------------------------------------
(* The provisioning of a tenant. *)

Job == [state : {"none", "queued", "fetched", "succeeded", "failed"}, runs : 0..JobAttempts]
Command == [at : {"idle", "store", "start", "insert", "enqueue", "deactivate", "ensure", "activate"},
            host : Hosts \cup {Nowhere}, prov : Nat, seen : {"nothing", "never", "completed"}]
Run == [at : {"idle", "step", "seed", "create", "done", "finish", "fail"}, of : Nat, step : Step,
        row : Row \cup {<<>>}, password : {"none", "asked", "default"}]

\* The variables have their types, and nothing goes wrong without being counted.
ProvShape ==
    /\ tenant \in {"none", "active", "inactive"} /\ admin \in {"none", "asked", "default"}
    /\ buffered \subseteq Hosts
    /\ provs \in Seq(Row) /\ job \in Seq(Job) /\ Len(job) = Len(provs)
    /\ command \in [Operators -> Command] /\ run \in [Hosts -> Run]
    /\ mishaps \in [all : Nat, twice : BOOLEAN, unmarked : BOOLEAN, relapsed : BOOLEAN]
    /\ mishaps.twice \/ mishaps.unmarked \/ mishaps.relapsed => mishaps.all > 0

\* A row is one, and where it says that the seed was done, it was.
RowFits(row) ==
    /\ row \in Row
    /\ row.status = "Completed" => admin # "none"
    /\ \A s \in Step : IsSeeding(s) /\ row.steps[s] = "Completed" => admin # "none"

\* A request that has inserted a row is the only one to enqueue its job.
CommandInv ==
    /\ \A o \in Operators :
         /\ command[o].at = "store" => command[o].host \in Hosts
         /\ command[o].at # "enqueue" => command[o].prov = 0
         /\ command[o].at = "enqueue" =>
              command[o].prov \in DOMAIN provs /\ job[command[o].prov].state = "none"
         /\ command[o].at = "activate" /\ command[o].seen = "completed" => admin # "none"
    /\ \A o, q \in Operators :
         command[o].at = "enqueue" /\ command[q].at = "enqueue" /\ o # q =>
           command[o].prov # command[q].prov

Busy(h) == run[h].at # "idle"

\* What the place of a run says of the row that it tracks.
RunFits(r) ==
    /\ r.of \in DOMAIN provs /\ job[r.of].state # "none"
    /\ RowFits(r.row)
    /\ \A t \in Step : t < r.step => r.row.steps[t] = "Completed"
    /\ r.at \in {"seed", "create", "done"} => r.row.steps[r.step] = "Running"
    /\ r.at = "create" => r.password # "none"
    /\ r.at = "done" /\ IsSeeding(r.step) => admin # "none"
    /\ r.at = "finish" => r.step = Len(Steps) /\ \A t \in Step : r.row.steps[t] = "Completed"

\* Unless a job was fetched twice, the row that a run tracks is the one that is stored.
Owned ==
    \A h \in Hosts : Busy(h) =>
        /\ job[run[h].of].state = "fetched" /\ run[h].row = provs[run[h].of]
        /\ \A k \in Hosts : Busy(k) /\ k # h => run[k].of # run[h].of

RowTells(row) ==
    /\ \A s \in Step : row.steps[s] # "Pending" => \A t \in Step : t < s => row.steps[t] = "Completed"
    /\ row.status = "Completed" => \A s \in Step : row.steps[s] = "Completed"
    /\ row.status = "Failed" => \E s \in Step : row.steps[s] = "Failed"

\* What fails is the step that the rows have come to.
Told ==
    /\ \A p \in DOMAIN provs : RowTells(provs[p])
    /\ \A h \in Hosts : run[h].at = "fail" =>
         run[h].step = Len(Steps) \/ run[h].row.steps[run[h].step] # "Completed"

ProvInv ==
    /\ ProvShape /\ CommandInv
    /\ \A p \in DOMAIN provs : RowFits(provs[p])
    /\ \A h \in Hosts : Busy(h) => RunFits(run[h])
    /\ ~mishaps.twice => Owned
    /\ ~mishaps.twice /\ ~mishaps.relapsed => Told
    /\ NobodyForgetsIt

LEMMA StepFacts ==
    /\ Len(Steps) \in Nat \ {0} /\ Step = 1..Len(Steps) /\ 1 \in Step /\ Len(Steps) \in Step
    /\ \A s \in Step : Next1(s) \in Step
    /\ JobAttempts \in Nat \ {0} /\ \E s \in Step : IsSeeding(s)
<1>1. /\ Steps \in Seq({"Database", "Migrations", "Seeding", "CacheWarm"})
      /\ JobAttempts \in Nat \ {0} /\ \E s \in DOMAIN Steps : Steps[s] = "Seeding"
  BY ProvisioningAssumption
<1>2. Len(Steps) \in Nat /\ Step = 1..Len(Steps)
  BY <1>1, LenProperties DEF Step
<1>3. Len(Steps) # 0
  BY <1>1, <1>2 DEF Step
<1>. QED
  BY <1>1, <1>2, <1>3 DEF Step, Next1, IsSeeding

\* Saving the changes between two tracked rows: each column is the new or the stored one, and
\* nothing but the new row where the tracked one was stored.
LEMMA MergedFits ==
    ASSUME NEW old \in Row, NEW new \in Row, NEW held \in Row
    PROVE  /\ Merged(old, new, held) \in Row
           /\ Merged(old, new, held).status \in {new.status, held.status}
           /\ \A s \in Step : Merged(old, new, held).steps[s] \in {new.steps[s], held.steps[s]}
           /\ old = held => Merged(old, new, held) = new
<1>. DEFINE m == Merged(old, new, held)
            steps == [s \in Step |-> IF new.steps[s] # old.steps[s] THEN new.steps[s] ELSE held.steps[s]]
            status == IF new.status # old.status THEN new.status ELSE held.status
<1>1. m = [status |-> status, steps |-> steps]
  BY DEF Merged
<1>2. /\ new.status \in Statuses /\ held.status \in Statuses
      /\ new.steps \in [Step -> Statuses] /\ held.steps \in [Step -> Statuses]
  BY DEF Row
<1>3. /\ status \in Statuses /\ steps \in [Step -> Statuses]
      /\ status \in {new.status, held.status}
      /\ \A s \in Step : steps[s] \in {new.steps[s], held.steps[s]}
  BY <1>2
<1>4. ASSUME old = held
      PROVE  m = new
  <2>1. status = new.status
    BY <1>4
  <2>2. steps = new.steps
    <3>1. \A s \in Step : steps[s] = new.steps[s]
      BY <1>4
    <3>. QED
      BY <3>1, <1>2
  <2>3. new = [status |-> new.status, steps |-> new.steps]
    BY DEF Row
  <2>. QED
    BY <1>1, <2>1, <2>2, <2>3
<1>. HIDE DEF status, steps
<1>. QED
  BY <1>1, <1>3, <1>4 DEF Row

LEMMA RunChanges ==
    ASSUME ProvShape, NEW h \in Hosts, NEW r \in Run, run' = [run EXCEPT ![h] = r]
    PROVE  run' \in [Hosts -> Run] /\ run'[h] = r /\ \A k \in Hosts \ {h} : run'[k] = run[k]
BY DEF ProvShape

LEMMA ProvStarts == ProvInit => ProvInv
<1>. SUFFICES ASSUME ProvInit
              PROVE  ProvInv
  OBVIOUS
<1>1. Idle \in Command /\ NoRun \in Run
  BY StepFacts DEF Idle, Command, NoRun, Run, Nowhere
<1>2. provs \in Seq(Row) /\ job \in Seq(Job) /\ DOMAIN provs = {} /\ Len(job) = Len(provs)
  BY DEF ProvInit
<1>3. command \in [Operators -> Command] /\ run \in [Hosts -> Run]
  BY <1>1 DEF ProvInit
<1>4. /\ mishaps \in [all : Nat, twice : BOOLEAN, unmarked : BOOLEAN, relapsed : BOOLEAN]
      /\ ~mishaps.twice /\ ~mishaps.unmarked /\ ~mishaps.relapsed
  BY DEF ProvInit
<1>5. ProvShape
  BY <1>2, <1>3, <1>4 DEF ProvShape, ProvInit
<1>6. \A o \in Operators : command[o].at = "idle" /\ command[o].prov = 0
  BY DEF ProvInit, Idle
<1>7. \A h \in Hosts : run[h].at = "idle"
  BY DEF ProvInit, NoRun
<1>. QED
  BY <1>2, <1>5, <1>6, <1>7 DEF ProvInv, CommandInv, Busy, Owned, Told, NobodyForgetsIt

LEMMA ProvFacts ==
    ASSUME ProvShape
    PROVE  /\ Len(provs) \in Nat /\ DOMAIN provs = 1..Len(provs) /\ DOMAIN job = DOMAIN provs
           /\ \A p \in DOMAIN provs : provs[p] \in Row /\ job[p] \in Job /\ p # 0
           /\ \A h \in Hosts : run[h] \in Run
           /\ \A o \in Operators : command[o] \in Command
<1>1. provs \in Seq(Row) /\ job \in Seq(Job) /\ Len(job) = Len(provs)
  BY DEF ProvShape
<1>2. DOMAIN provs = 1..Len(provs) /\ DOMAIN job = 1..Len(job) /\ Len(provs) \in Nat
  BY <1>1, LenProperties
<1>3. \A p \in 1..Len(provs) : provs[p] \in Row /\ job[p] \in Job
  BY <1>1, ElementOfSeq
<1>. QED
  BY <1>1, <1>2, <1>3 DEF ProvShape

\* A request of one operator moves on, and neither rows nor jobs change.
LEMMA RequestKeeps ==
    ASSUME ProvInv, NEW o \in Operators, NEW c \in Command,
           command' = [command EXCEPT ![o] = c],
           command[o].at # "enqueue", c.at # "enqueue", c.prov = 0,
           c.at = "store" => c.host \in Hosts,
           c.at = "activate" /\ c.seen = "completed" => admin # "none",
           tenant' \in {"none", "active", "inactive"}, buffered' \subseteq Hosts,
           UNCHANGED <<admin, provs, job, run, mishaps>>
    PROVE  ProvInv'
<1>1. /\ command' \in [Operators -> Command] /\ command'[o] = c
      /\ \A q \in Operators \ {o} : command'[q] = command[q]
  BY DEF ProvInv, ProvShape
<1>2. ProvShape'
  BY <1>1 DEF ProvInv, ProvShape
<1>3. CommandInv'
  BY <1>1 DEF ProvInv, CommandInv
<1>4. NobodyForgetsIt'
  <2>1. \A p \in DOMAIN provs : command[o].prov # p
    BY ProvFacts DEF ProvInv, CommandInv
  <2>. QED
    BY <2>1, <1>1 DEF ProvInv, NobodyForgetsIt
<1>. QED
  BY <1>2, <1>3, <1>4 DEF ProvInv, RowFits, Busy, RunFits, Owned, Told

LEMMA ComesKeeps ==
    ASSUME ProvInv, NEW o \in Operators, NEW h \in Hosts \cup {Nowhere},
           NEW place \in {"store", "start", "deactivate", "ensure"}, Comes(o, place, h),
           place = "store" => h \in Hosts,
           tenant' \in {"none", "active", "inactive"}, UNCHANGED <<admin, buffered, provs, job, run, mishaps>>
    PROVE  ProvInv'
<1>. DEFINE c == [Idle EXCEPT !.at = place, !.host = h]
<1>1. c \in Command /\ c.at = place /\ c.prov = 0 /\ c.host = h
  BY DEF Idle, Command
<1>2. command' = [command EXCEPT ![o] = c] /\ command[o].at = "idle"
  BY DEF Comes
<1>. HIDE DEF c
<1>3. c.at # "enqueue" /\ c.at # "activate"
  BY <1>1
<1>. QED
  BY <1>1, <1>2, <1>3, RequestKeeps DEF ProvInv, ProvShape

\* A request moves to a place or ends.
LEMMA GoesKeeps ==
    ASSUME ProvInv, NEW o \in Operators, command[o].at # "enqueue",
           \/ \E place \in {"start", "insert"} : RequestGoes(o, place)
           \/ Ends(o),
           tenant' \in {"none", "active", "inactive"}, buffered' \subseteq Hosts,
           UNCHANGED <<admin, provs, job, run, mishaps>>
    PROVE  ProvInv'
<1>1. command[o] \in Command /\ command[o].prov = 0
  BY ProvFacts DEF ProvInv, CommandInv
<1>2. CASE Ends(o)
  <2>1. Idle \in Command /\ Idle.at = "idle" /\ Idle.prov = 0
    BY DEF Idle, Command
  <2>2. command' = [command EXCEPT ![o] = Idle] /\ Idle.at # "enqueue" /\ Idle.at # "activate"
    BY <1>2, <2>1 DEF Ends
  <2>. QED
    BY <2>1, <2>2, RequestKeeps
<1>3. ASSUME NEW place \in {"start", "insert"}, RequestGoes(o, place)
      PROVE  ProvInv'
  <2>. DEFINE c == [command[o] EXCEPT !.at = place]
  <2>1. c \in Command /\ c.at = place /\ c.prov = 0
    BY <1>1 DEF Command
  <2>2. command' = [command EXCEPT ![o] = c]
    BY <1>3 DEF RequestGoes
  <2>. HIDE DEF c
  <2>3. c.at # "enqueue" /\ c.at # "activate"
    BY <2>1
  <2>. QED
    BY <2>1, <2>2, <2>3, RequestKeeps
<1>. QED
  BY <1>2, <1>3

LEMMA EnsuresKeeps ==
    ASSUME ProvInv, NEW o \in Operators, EnsuresCanActivate(o)
    PROVE  ProvInv'
<1>1. CASE ~MayActivate
  BY <1>1, GoesKeeps DEF EnsuresCanActivate, ProvInv, ProvShape
<1>2. CASE MayActivate
  <2>. DEFINE seen == IF provs = <<>> THEN "never" ELSE "completed"
              c == [command[o] EXCEPT !.at = "activate", !.seen = seen]
  <2>1. command[o] \in Command /\ command[o].at = "ensure" /\ command[o].prov = 0
    BY ProvFacts DEF ProvInv, CommandInv, EnsuresCanActivate
  <2>2. c \in Command /\ c.at = "activate" /\ c.prov = 0 /\ c.seen = seen
    BY <2>1 DEF Command
  <2>3. command' = [command EXCEPT ![o] = c]
    BY <1>2 DEF EnsuresCanActivate
  <2>4. seen = "completed" => admin # "none"
    <3>. SUFFICES ASSUME provs # <<>>
                  PROVE  admin # "none"
      OBVIOUS
    <3>1. Len(provs) \in DOMAIN provs
      BY ProvFacts DEF ProvInv, ProvShape
    <3>2. Latest.status = "Completed"
      BY <1>2 DEF MayActivate
    <3>. QED
      BY <3>1, <3>2 DEF Latest, ProvInv, RowFits
  <2>. HIDE DEF c, seen
  <2>5. c.at # "enqueue" /\ command[o].at # "enqueue"
    BY <2>1, <2>2
  <2>. QED
    BY <2>2, <2>3, <2>4, <2>5, RequestKeeps DEF EnsuresCanActivate, ProvInv, ProvShape
<1>. QED
  BY <1>1, <1>2

LEMMA InsertsKeeps ==
    ASSUME ProvInv, NEW o \in Operators, Inserts(o)
    PROVE  ProvInv'
<1>. DEFINE row == [status |-> "Pending", steps |-> [s \in Step |-> "Pending"]]
            new == [state |-> "none", runs |-> 0]
<1>1. row \in Row /\ new \in Job /\ row.status = "Pending" /\ new.state = "none" /\ \A s \in Step : row.steps[s] = "Pending"
  BY StepFacts DEF Row, Statuses, Job
<1>2. provs' = Append(provs, row) /\ job' = Append(job, new)
  BY DEF Inserts
<1>. HIDE DEF row, new
<1>3. PICK n : n = Len(provs')
  OBVIOUS
<1>4. /\ provs' \in Seq(Row) /\ job' \in Seq(Job) /\ Len(job') = Len(provs')
      /\ n = Len(provs) + 1 /\ n \in Nat /\ n # 0 /\ n \notin DOMAIN provs
      /\ DOMAIN provs' = DOMAIN provs \cup {n}
      /\ \A p \in DOMAIN provs : provs'[p] = provs[p] /\ job'[p] = job[p]
      /\ provs'[n] = row /\ job'[n] = new
  <2>1. provs \in Seq(Row) /\ job \in Seq(Job) /\ Len(job) = Len(provs)
    BY DEF ProvInv, ProvShape
  <2>2. /\ provs' \in Seq(Row) /\ Len(provs') = Len(provs) + 1
        /\ \A p \in 1..Len(provs) : provs'[p] = provs[p]
        /\ provs'[Len(provs) + 1] = row
    BY <1>1, <1>2, <2>1, AppendProperties
  <2>3. /\ job' \in Seq(Job) /\ Len(job') = Len(job) + 1
        /\ \A p \in 1..Len(job) : job'[p] = job[p]
        /\ job'[Len(job) + 1] = new
    BY <1>1, <1>2, <2>1, AppendProperties
  <2>4. DOMAIN provs = 1..Len(provs) /\ DOMAIN provs' = 1..Len(provs') /\ Len(provs) \in Nat
    BY <2>1, <2>2, LenProperties
  <2>. QED
    BY <1>3, <2>1, <2>2, <2>3, <2>4
<1>5. /\ UNCHANGED <<tenant, admin, buffered, run, commands, mishaps>>
      /\ command[o].at = "insert" /\ command[o] \in Command
  BY ProvFacts DEF Inserts, ProvInv
<1>6. /\ command' \in [Operators -> Command] /\ command'[o].at = "enqueue" /\ command'[o].prov = n
      /\ \A q \in Operators \ {o} : command'[q] = command[q]
  <2>1. [command[o] EXCEPT !.at = "enqueue", !.prov = n] \in Command
    BY <1>4, <1>5 DEF Command
  <2>2. command' = [command EXCEPT ![o] = [command[o] EXCEPT !.at = "enqueue", !.prov = n]]
    BY <1>3 DEF Inserts
  <2>. QED
    BY <2>1, <2>2, <1>5 DEF ProvInv, ProvShape, Command
<1>7. ProvShape'
  BY <1>4, <1>5, <1>6 DEF ProvInv, ProvShape
<1>8. CommandInv'
  <2>1. \A q \in Operators \ {o} : command[q].prov # n
    BY <1>4 DEF ProvInv, CommandInv
  <2>2. \A q \in Operators :
          /\ command'[q].at = "store" => command'[q].host \in Hosts
          /\ command'[q].at # "enqueue" => command'[q].prov = 0
          /\ command'[q].at = "enqueue" => command'[q].prov \in DOMAIN provs' /\ job'[command'[q].prov].state = "none"
          /\ command'[q].at = "activate" /\ command'[q].seen = "completed" => admin # "none"
    <3>. SUFFICES ASSUME NEW q \in Operators
                  PROVE  /\ command'[q].at = "store" => command'[q].host \in Hosts
                         /\ command'[q].at # "enqueue" => command'[q].prov = 0
                         /\ command'[q].at = "enqueue" =>
                              command'[q].prov \in DOMAIN provs' /\ job'[command'[q].prov].state = "none"
                         /\ command'[q].at = "activate" /\ command'[q].seen = "completed" => admin # "none"
      OBVIOUS
    <3>1. CASE q = o
      BY <3>1, <1>1, <1>4, <1>6
    <3>2. CASE q # o
      BY <3>2, <1>4, <1>6 DEF ProvInv, CommandInv
    <3>. QED
      BY <3>1, <3>2
  <2>3. ASSUME NEW q \in Operators, NEW k \in Operators, q # k,
               command'[q].at = "enqueue", command'[k].at = "enqueue"
        PROVE  command'[q].prov # command'[k].prov
    <3>1. CASE q = o
      BY <3>1, <2>1, <2>3, <1>6
    <3>2. CASE k = o
      BY <3>2, <2>1, <2>3, <1>6
    <3>3. CASE q # o /\ k # o
      BY <3>3, <2>3, <1>6 DEF ProvInv, CommandInv
    <3>. QED
      BY <3>1, <3>2, <3>3
  <2>. QED
    BY <2>2, <2>3, <1>5 DEF CommandInv
<1>9. \A p \in DOMAIN provs' : RowFits(provs[p])'
  BY <1>1, <1>4, <1>5 DEF ProvInv, RowFits
<1>10. \A h \in Hosts : Busy(h)' => RunFits(run[h])'
  BY <1>4, <1>5 DEF ProvInv, Busy, RunFits, RowFits
<1>11. Owned => Owned'
  BY <1>4, <1>5 DEF ProvInv, RunFits, Busy, Owned
<1>12. Told => Told'
  <2>1. RowTells(row)
    BY <1>1 DEF RowTells
  <2>. QED
    BY <2>1, <1>4, <1>5 DEF Told, RowTells
<1>13. NobodyForgetsIt'
  <2>1. \A p \in DOMAIN provs : p # 0
    BY ProvFacts DEF ProvInv
  <2>2. command[o].prov = 0
    BY <1>5 DEF ProvInv, CommandInv
  <2>. SUFFICES ASSUME NEW p \in DOMAIN provs', provs'[p].status \in {"Pending", "Running"},
                       ~(mishaps.all > 0)
                PROVE  \/ \E q \in Operators : command'[q].prov = p
                       \/ job'[p].state \in {"queued", "fetched"}
    BY <1>5 DEF NobodyForgetsIt
  <2>3. CASE p = n
    BY <2>3, <1>6
  <2>4. CASE p # n
    <3>1. p \in DOMAIN provs /\ provs[p].status \in {"Pending", "Running"}
      BY <2>4, <1>4
    <3>2. \/ \E q \in Operators \ {o} : command[q].prov = p
          \/ job[p].state \in {"queued", "fetched"}
      BY <3>1, <2>1, <2>2 DEF ProvInv, NobodyForgetsIt
    <3>. QED
      BY <3>1, <3>2, <1>4, <1>6
  <2>. QED
    BY <2>3, <2>4
<1>. QED
  BY <1>5, <1>7, <1>8, <1>9, <1>10, <1>11, <1>12, <1>13 DEF ProvInv

LEMMA EnqueuesKeeps ==
    ASSUME ProvInv, NEW o \in Operators, Enqueues(o)
    PROVE  ProvInv'
<1>1. PICK p : p = command[o].prov
  OBVIOUS
<1>2. /\ command[o].at = "enqueue" /\ p \in DOMAIN provs /\ job[p].state = "none" /\ job[p] \in Job
      /\ p \in DOMAIN job /\ p # 0
      /\ UNCHANGED <<tenant, admin, buffered, provs, run, commands, mishaps>>
  BY <1>1, ProvFacts DEF Enqueues, ProvInv, CommandInv
<1>3. /\ job' \in Seq(Job) /\ Len(job') = Len(job) /\ DOMAIN job' = DOMAIN job
      /\ job'[p].state = "queued" /\ \A q \in DOMAIN job : q # p => job'[q] = job[q]
  <2>1. [job[p] EXCEPT !.state = "queued"] \in Job
    BY <1>2 DEF Job
  <2>2. job' = [job EXCEPT ![p] = [job[p] EXCEPT !.state = "queued"]] /\ job \in Seq(Job)
    BY <1>1 DEF Enqueues, ProvInv, ProvShape
  <2>3. job' \in Seq(Job) /\ Len(job') = Len(job) /\ \A q \in 1..Len(job) : job'[q] = IF q = p THEN [job[p] EXCEPT !.state = "queued"] ELSE job[q]
    BY <2>1, <2>2, <1>2, ExceptSeq
  <2>. QED
    BY <2>2, <2>3, <1>2, LenProperties DEF Job
<1>4. /\ command' \in [Operators -> Command] /\ command'[o].at = "idle" /\ command'[o].prov = 0
      /\ \A q \in Operators \ {o} : command'[q] = command[q]
  <2>1. Idle \in Command /\ Idle.at = "idle" /\ Idle.prov = 0
    BY DEF Idle, Command
  <2>. QED
    BY <2>1 DEF Enqueues, Ends, ProvInv, ProvShape
<1>5. ProvShape'
  BY <1>2, <1>3, <1>4 DEF ProvInv, ProvShape
<1>6. CommandInv'
  <2>1. \A q \in Operators \ {o} : command[q].at = "enqueue" => command[q].prov # p /\ command[q].prov \in DOMAIN job
    BY <1>1, <1>2, ProvFacts DEF ProvInv, CommandInv
  <2>. QED
    BY <2>1, <1>2, <1>3, <1>4 DEF ProvInv, CommandInv
<1>7. \A h \in Hosts : Busy(h) => run[h].of # p /\ run[h].of \in DOMAIN job
  BY <1>2, ProvFacts DEF ProvInv, RunFits
<1>8. \A h \in Hosts : Busy(h)' => RunFits(run[h])'
  BY <1>2, <1>3, <1>7 DEF ProvInv, Busy, RunFits, RowFits
<1>9. Owned => Owned'
  BY <1>2, <1>3, <1>7 DEF Busy, Owned
<1>10. Told => Told'
  BY <1>2 DEF Told
<1>11. NobodyForgetsIt'
  <2>. SUFFICES ASSUME NEW q \in DOMAIN provs, provs[q].status \in {"Pending", "Running"},
                       ~(mishaps.all > 0)
                PROVE  \/ \E k \in Operators : command'[k].prov = q
                       \/ job'[q].state \in {"queued", "fetched"}
    BY <1>2 DEF NobodyForgetsIt
  <2>1. CASE q = p
    BY <2>1, <1>3
  <2>2. CASE q # p
    <3>1. (\E k \in Operators \ {o} : command[k].prov = q) \/ job[q].state \in {"queued", "fetched"}
      BY <2>2, <1>1 DEF ProvInv, NobodyForgetsIt
    <3>. QED
      BY <2>2, <3>1, <1>3, <1>4, ProvFacts DEF ProvInv
  <2>. QED
    BY <2>1, <2>2
<1>. QED
  BY <1>2, <1>5, <1>6, <1>8, <1>9, <1>10, <1>11 DEF ProvInv, RowFits

\* Requests are lost with the process that serves them, and with it what an idle host held.
LEMMA DeathKeeps ==
    ASSUME ProvInv, Mishap(FALSE, FALSE, FALSE),
           command' \in [Operators -> Command], \A o \in Operators : command'[o] \in {command[o], Idle},
           run' \in [Hosts -> Run], \A h \in Hosts : run'[h] = run[h] \/ (~Busy(h) /\ run'[h].at = "idle"),
           buffered' \subseteq Hosts, UNCHANGED <<tenant, admin, provs, job>>
    PROVE  ProvInv'
<1>1. /\ mishaps' \in [all : Nat, twice : BOOLEAN, unmarked : BOOLEAN, relapsed : BOOLEAN]
      /\ mishaps'.all > 0 /\ (mishaps'.twice <=> mishaps.twice) /\ (mishaps'.relapsed <=> mishaps.relapsed)
  <2>1. mishaps \in [all : Nat, twice : BOOLEAN, unmarked : BOOLEAN, relapsed : BOOLEAN]
    BY DEF ProvInv, ProvShape
  <2>2. mishaps' = [all |-> mishaps.all + 1, twice |-> mishaps.twice, unmarked |-> mishaps.unmarked, relapsed |-> mishaps.relapsed]
    <3>1. mishaps.twice \in BOOLEAN /\ mishaps.unmarked \in BOOLEAN /\ mishaps.relapsed \in BOOLEAN
      BY <2>1
    <3>. QED
      BY <3>1, Zenon DEF Mishap
  <2>. QED
    BY <2>1, <2>2
<1>2. Idle.at = "idle" /\ Idle.prov = 0
  BY DEF Idle
<1>3. ProvShape'
  BY <1>1 DEF ProvInv, ProvShape
<1>4. CommandInv'
  BY <1>2 DEF ProvInv, CommandInv
<1>5. \A h \in Hosts : Busy(h)' => Busy(h) /\ run'[h] = run[h]
  BY DEF Busy
<1>6. \A h \in Hosts : Busy(h)' => RunFits(run[h])'
  BY <1>5 DEF ProvInv, RunFits, RowFits
<1>7. Owned => Owned'
  BY <1>5 DEF Owned
<1>8. Told => Told'
  <2>1. \A h \in Hosts : run'[h].at = "fail" => run'[h] = run[h]
    OBVIOUS
  <2>. QED
    BY <2>1 DEF Told
<1>. QED
  BY <1>1, <1>3, <1>4, <1>6, <1>7, <1>8 DEF ProvInv, NobodyForgetsIt, RowFits

\* A host moves on with the job p, and so may its row, and its administrator.
LEMMA HostKeeps ==
    ASSUME ProvInv, NEW h \in Hosts, NEW p \in DOMAIN provs,
           run' \in [Hosts -> Run], \A k \in Hosts \ {h} : run'[k] = run[k],
           provs' \in Seq(Row), Len(provs') = Len(provs), job' \in Seq(Job), Len(job') = Len(job),
           \A q \in DOMAIN provs : q # p => provs'[q] = provs[q] /\ job'[q] = job[q],
           job[p].state # "none", job'[p].state # "none",
           command' \in [Operators -> Command],
           \A o \in Operators : command'[o] = command[o] \/ (command'[o] = Idle /\ mishaps'.all > 0),
           tenant' = tenant, buffered' \subseteq Hosts,
           admin' \in {"none", "asked", "default"}, admin # "none" => admin' # "none",
           RowFits(provs[p])', Busy(h)' => RunFits(run[h])',
           mishaps' \in [all : Nat, twice : BOOLEAN, unmarked : BOOLEAN, relapsed : BOOLEAN],
           mishaps'.twice \/ mishaps'.unmarked \/ mishaps'.relapsed => mishaps'.all > 0,
           mishaps.twice => mishaps'.twice, mishaps.relapsed => mishaps'.relapsed,
           mishaps.all > 0 => mishaps'.all > 0,
           ~mishaps'.twice =>
             /\ job[p].state = "queued" \/ (Busy(h) /\ run[h].of = p)
             /\ Busy(h)' => /\ run'[h].of = p /\ job'[p].state = "fetched"
                            /\ run'[h].row = provs'[p],
           ~mishaps'.twice /\ ~mishaps'.relapsed =>
             /\ RowTells(provs'[p])
             /\ run'[h].at = "fail" =>
                  run'[h].step = Len(Steps) \/ run'[h].row.steps[run'[h].step] # "Completed",
           mishaps'.all > 0 \/ provs'[p].status \notin {"Pending", "Running"} \/ job'[p].state \in {"queued", "fetched"}
    PROVE  ProvInv'
<1>1. DOMAIN provs' = DOMAIN provs /\ DOMAIN job' = DOMAIN provs /\ DOMAIN job = DOMAIN provs
  BY LenProperties, ProvFacts DEF ProvInv, ProvShape
<1>2. ProvShape'
  BY DEF ProvInv, ProvShape
<1>3. CommandInv'
  <2>1. Idle.at = "idle" /\ Idle.prov = 0
    BY DEF Idle
  <2>2. \A q \in DOMAIN provs : job[q].state = "none" => job'[q].state = "none"
    OBVIOUS
  <2>3. ASSUME NEW o \in Operators
        PROVE  /\ command'[o].at = "store" => command'[o].host \in Hosts
               /\ command'[o].at # "enqueue" => command'[o].prov = 0
               /\ command'[o].at = "enqueue" =>
                    command'[o] = command[o] /\ command'[o].prov \in DOMAIN provs' /\ job'[command'[o].prov].state = "none"
               /\ command'[o].at = "activate" /\ command'[o].seen = "completed" => admin' # "none"
    <3>1. CASE command'[o] = Idle
      BY <3>1, <2>1
    <3>2. CASE command'[o] = command[o]
      BY <3>2, <2>2, <1>1 DEF ProvInv, CommandInv
    <3>. QED
      BY <3>1, <3>2
  <2>. QED
    BY <2>3 DEF ProvInv, CommandInv
<1>4. \A q \in DOMAIN provs' : RowFits(provs[q])'
  <2>1. ASSUME NEW q \in DOMAIN provs, q # p
        PROVE  RowFits(provs[q])'
    BY <2>1 DEF ProvInv, RowFits
  <2>. QED
    BY <2>1, <1>1
<1>5. \A k \in Hosts : Busy(k)' => RunFits(run[k])'
  <2>1. ASSUME NEW k \in Hosts \ {h}, Busy(k)'
        PROVE  RunFits(run[k])'
    <3>1. run'[k] = run[k] /\ RunFits(run[k])
      BY <2>1 DEF Busy, ProvInv
    <3>2. \A q \in DOMAIN provs : job[q].state # "none" => job'[q].state # "none"
      OBVIOUS
    <3>. QED
      BY <3>1, <3>2, <1>1 DEF RunFits, RowFits
  <2>. QED
    BY <2>1
<1>6. ~mishaps'.twice => Owned'
  <2>. SUFFICES ASSUME ~mishaps'.twice
                PROVE  Owned'
    OBVIOUS
  <2>1. Owned
    BY DEF ProvInv
  <2>2. ASSUME NEW k \in Hosts \ {h}, Busy(k)'
        PROVE  /\ Busy(k) /\ run'[k] = run[k] /\ run[k].of # p /\ run[k].of \in DOMAIN provs
               /\ job'[run[k].of].state = "fetched" /\ run[k].row = provs'[run[k].of]
    <3>1. Busy(k) /\ run'[k] = run[k] /\ run[k].of \in DOMAIN provs
      BY <2>2 DEF Busy, ProvInv, RunFits
    <3>2. run[k].of # p
      BY <2>1, <3>1 DEF Owned
    <3>. QED
      BY <2>1, <3>1, <3>2 DEF Owned
  <2>3. ASSUME NEW k \in Hosts, NEW m \in Hosts, Busy(k)', Busy(m)', k # m
        PROVE  run'[m].of # run'[k].of
    <3>1. CASE k = h \/ m = h
      BY <2>2, <2>3, <3>1
    <3>2. CASE k # h /\ m # h
      BY <2>1, <2>2, <2>3, <3>2 DEF Owned
    <3>. QED
      BY <3>1, <3>2
  <2>. QED
    BY <2>2, <2>3 DEF Owned
<1>7. ~mishaps'.twice /\ ~mishaps'.relapsed => Told'
  <2>. SUFFICES ASSUME ~mishaps'.twice, ~mishaps'.relapsed
                PROVE  Told'
    OBVIOUS
  <2>1. Told
    BY DEF ProvInv
  <2>2. \A q \in DOMAIN provs : RowTells(provs'[q])
    BY <2>1 DEF Told
  <2>3. ASSUME NEW k \in Hosts, run'[k].at = "fail"
        PROVE  run'[k].step = Len(Steps) \/ run'[k].row.steps[run'[k].step] # "Completed"
    <3>1. CASE k = h
      BY <3>1, <2>3
    <3>2. CASE k # h
      BY <3>2, <2>1, <2>3 DEF Told
    <3>. QED
      BY <3>1, <3>2
  <2>. QED
    BY <2>2, <2>3, <1>1 DEF Told
<1>8. NobodyForgetsIt'
  <2>. SUFFICES ASSUME NEW q \in DOMAIN provs, provs'[q].status \in {"Pending", "Running"},
                       ~(mishaps'.all > 0)
                PROVE  \/ \E o \in Operators : command'[o].prov = q
                       \/ job'[q].state \in {"queued", "fetched"}
    BY <1>1 DEF NobodyForgetsIt
  <2>1. \A o \in Operators : command'[o] = command[o]
    OBVIOUS
  <2>. QED
    BY <2>1 DEF ProvInv, NobodyForgetsIt
<1>. QED
  BY <1>2, <1>3, <1>4, <1>5, <1>6, <1>7, <1>8 DEF ProvInv

LEMMA MishapFits ==
    ASSUME ProvShape, NEW a \in BOOLEAN, NEW b \in BOOLEAN, NEW c \in BOOLEAN, Mishap(a, b, c)
    PROVE  /\ mishaps' \in [all : Nat, twice : BOOLEAN, unmarked : BOOLEAN, relapsed : BOOLEAN]
           /\ mishaps'.all > 0
           /\ mishaps'.twice <=> mishaps.twice \/ a
           /\ mishaps'.relapsed <=> mishaps.relapsed \/ c
<1>1. mishaps \in [all : Nat, twice : BOOLEAN, unmarked : BOOLEAN, relapsed : BOOLEAN]
  BY DEF ProvShape
<1>2. mishaps.twice \in BOOLEAN /\ mishaps.unmarked \in BOOLEAN /\ mishaps.relapsed \in BOOLEAN
  BY <1>1
<1>3. PICK x \in BOOLEAN, y \in BOOLEAN, z \in BOOLEAN :
         /\ x = (mishaps.twice \/ a) /\ y = (mishaps.unmarked \/ b) /\ z = (mishaps.relapsed \/ c)
  BY <1>2, Zenon
<1>4. mishaps' = [all |-> mishaps.all + 1, twice |-> x, unmarked |-> y, relapsed |-> z]
  BY <1>3, Zenon DEF Mishap
<1>5. /\ mishaps' \in [all : Nat, twice : BOOLEAN, unmarked : BOOLEAN, relapsed : BOOLEAN]
      /\ mishaps'.all > 0 /\ mishaps'.twice = x /\ mishaps'.relapsed = z
  BY <1>1, <1>4
<1>. QED
  BY <1>3, <1>5

\* What is known of a run that is under way.
LEMMA BusyFits ==
    ASSUME ProvInv, NEW h \in Hosts, Busy(h), NEW p, p = run[h].of
    PROVE  /\ p \in DOMAIN provs /\ provs[p] \in Row /\ RowFits(provs[p])
           /\ job[p] \in Job /\ p \in DOMAIN job /\ job[p].state # "none"
           /\ run[h] \in Run /\ run[h].row \in Row /\ run[h].step \in Step /\ RunFits(run[h])
           /\ ~mishaps.twice => job[p].state = "fetched" /\ run[h].row = provs[p]
           /\ ~mishaps.twice /\ ~mishaps.relapsed => RowTells(provs[p])
<1>1. RunFits(run[h])
  BY DEF ProvInv
<1>2. p \in DOMAIN provs /\ job[p].state # "none" /\ run[h].row \in Row
  BY <1>1 DEF RunFits, RowFits
<1>3. /\ provs[p] \in Row /\ job[p] \in Job /\ run[h] \in Run /\ RowFits(provs[p]) /\ p \in DOMAIN job
  BY <1>2, ProvFacts DEF ProvInv
<1>4. run[h].step \in Step
  BY <1>3 DEF Run
<1>. QED
  BY <1>1, <1>2, <1>3, <1>4 DEF ProvInv, Owned, Told

\* A run changes its place, and neither its row nor what is stored.
LEMMA PlaceKeeps ==
    ASSUME ProvInv, NEW h \in Hosts, Busy(h), NEW r \in Run, run' = [run EXCEPT ![h] = r],
           r.of = run[h].of, r.row = run[h].row, r.at # "idle", RunFits(r)',
           UNCHANGED <<tenant, provs, job, command>>, buffered' \subseteq Hosts,
           admin' \in {"none", "asked", "default"}, admin # "none" => admin' # "none",
           mishaps' \in [all : Nat, twice : BOOLEAN, unmarked : BOOLEAN, relapsed : BOOLEAN],
           mishaps' = mishaps \/ mishaps'.all > 0,
           mishaps'.twice <=> mishaps.twice, mishaps.relapsed => mishaps'.relapsed,
           ~mishaps'.twice /\ ~mishaps'.relapsed /\ r.at = "fail" =>
             r.step = Len(Steps) \/ r.row.steps[r.step] # "Completed"
    PROVE  ProvInv'
<1>1. PICK p : p = run[h].of
  OBVIOUS
<1>2. /\ p \in DOMAIN provs /\ RowFits(provs[p]) /\ job[p].state # "none"
      /\ ~mishaps.twice => job[p].state = "fetched" /\ run[h].row = provs[p]
      /\ ~mishaps.twice /\ ~mishaps.relapsed => RowTells(provs[p])
  BY <1>1, BusyFits
<1>3. run' \in [Hosts -> Run] /\ run'[h] = r /\ \A k \in Hosts \ {h} : run'[k] = run[k]
  BY RunChanges DEF ProvInv
<1>4. /\ provs' \in Seq(Row) /\ job' \in Seq(Job) /\ command' \in [Operators -> Command]
      /\ Len(provs') = Len(provs) /\ Len(job') = Len(job)
      /\ mishaps.twice \/ mishaps.unmarked \/ mishaps.relapsed => mishaps.all > 0
  BY DEF ProvInv, ProvShape
<1>5. RowFits(provs[p])' /\ RunFits(run[h])'
  <2>1. RowFits(provs[p])'
    BY <1>2 DEF RowFits
  <2>2. RunFits(run[h])'
    BY <1>3 DEF RunFits, RowFits
  <2>. QED
    BY <2>1, <2>2
<1>6. mishaps'.all > 0 \/ provs[p].status \notin {"Pending", "Running"} \/ job[p].state \in {"queued", "fetched"}
  BY <1>2, <1>4
<1>7. mishaps.all > 0 => mishaps'.all > 0
  OBVIOUS
<1>8. mishaps'.twice \/ mishaps'.unmarked \/ mishaps'.relapsed => mishaps'.all > 0
  BY <1>4
<1>9. ~mishaps'.twice =>
        /\ job[p].state = "queued" \/ (Busy(h) /\ run[h].of = p)
        /\ Busy(h)' => run'[h].of = p /\ job'[p].state = "fetched" /\ run'[h].row = provs'[p]
  BY <1>1, <1>2, <1>3
<1>10. ~mishaps'.twice /\ ~mishaps'.relapsed =>
        /\ RowTells(provs'[p])
        /\ run'[h].at = "fail" =>
             run'[h].step = Len(Steps) \/ run'[h].row.steps[run'[h].step] # "Completed"
  BY <1>2, <1>3
<1>. QED
  BY <1>2, <1>3, <1>4, <1>5, <1>6, <1>7, <1>8, <1>9, <1>10, HostKeeps

\* A run saves its row and goes on.
LEMMA SaveKeeps ==
    ASSUME ProvInv, NEW h \in Hosts, Busy(h), NEW new \in Row, NEW place \in {"step", "seed", "done", "finish"},
           NEW step \in Step, SavesRow(h, new, place, step),
           RowFits(new), ~mishaps.twice /\ ~mishaps.relapsed => RowTells(new),
           \A t \in Step : t < step => new.steps[t] = "Completed",
           place \in {"seed", "done"} => new.steps[step] = "Running",
           place = "done" => ~IsSeeding(step),
           place = "finish" => step = Len(Steps) /\ \A t \in Step : new.steps[t] = "Completed",
           UNCHANGED <<tenant, admin, buffered, job, command, mishaps>>
    PROVE  ProvInv'
<1>1. PICK p : p = run[h].of
  OBVIOUS
<1>2. /\ p \in DOMAIN provs /\ provs[p] \in Row /\ RowFits(provs[p]) /\ job[p].state # "none"
      /\ run[h] \in Run /\ run[h].row \in Row
      /\ ~mishaps.twice => job[p].state = "fetched" /\ run[h].row = provs[p]
  BY <1>1, BusyFits
<1>. DEFINE r == [run[h] EXCEPT !.row = new, !.at = place, !.step = step]
            m == Merged(run[h].row, new, provs[p])
<1>3. /\ r \in Run /\ r.row = new /\ r.at = place /\ r.step = step /\ r.of = p
  BY <1>1, <1>2 DEF Run
<1>4. run' = [run EXCEPT ![h] = r] /\ provs' = [provs EXCEPT ![p] = m]
  BY <1>1 DEF SavesRow, ProvInv, ProvShape
<1>5. /\ m \in Row /\ m.status \in {new.status, provs[p].status}
      /\ \A s \in Step : m.steps[s] \in {new.steps[s], provs[p].steps[s]}
      /\ run[h].row = provs[p] => m = new
  BY <1>2, MergedFits
<1>. HIDE DEF r, m
<1>6. run' \in [Hosts -> Run] /\ run'[h] = r /\ \A k \in Hosts \ {h} : run'[k] = run[k]
  BY <1>3, <1>4, RunChanges DEF ProvInv
<1>7. /\ provs' \in Seq(Row) /\ Len(provs') = Len(provs) /\ provs'[p] = m
      /\ \A q \in DOMAIN provs : q # p => provs'[q] = provs[q]
  <2>1. provs \in Seq(Row) /\ DOMAIN provs = 1..Len(provs)
    BY ProvFacts DEF ProvInv, ProvShape
  <2>. QED
    BY <2>1, <1>2, <1>4, <1>5, ExceptSeq
<1>8. /\ job' \in Seq(Job) /\ Len(job') = Len(job) /\ command' \in [Operators -> Command]
      /\ mishaps.twice \/ mishaps.unmarked \/ mishaps.relapsed => mishaps.all > 0
      /\ mishaps' \in [all : Nat, twice : BOOLEAN, unmarked : BOOLEAN, relapsed : BOOLEAN]
      /\ admin' \in {"none", "asked", "default"} /\ buffered' \subseteq Hosts
  BY DEF ProvInv, ProvShape
<1>9. RowFits(provs[p])'
  BY <1>2, <1>5, <1>7 DEF RowFits
<1>10. DOMAIN provs' = DOMAIN provs
  BY <1>7, LenProperties DEF ProvInv, ProvShape
<1>11. RunFits(run[h])'
  BY <1>2, <1>3, <1>6, <1>10 DEF RunFits, RowFits
<1>12. ~mishaps'.twice =>
        /\ job[p].state = "queued" \/ (Busy(h) /\ run[h].of = p)
        /\ Busy(h)' => run'[h].of = p /\ job'[p].state = "fetched" /\ run'[h].row = provs'[p]
  BY <1>1, <1>2, <1>3, <1>5, <1>6, <1>7
<1>13. ~mishaps'.twice /\ ~mishaps'.relapsed =>
        /\ RowTells(provs'[p])
        /\ run'[h].at = "fail" =>
             run'[h].step = Len(Steps) \/ run'[h].row.steps[run'[h].step] # "Completed"
  BY <1>2, <1>3, <1>5, <1>6, <1>7
<1>14. mishaps'.all > 0 \/ provs'[p].status \notin {"Pending", "Running"} \/ job'[p].state \in {"queued", "fetched"}
  BY <1>2, <1>8
<1>. QED
  BY <1>2, <1>6, <1>7, <1>8, <1>9, <1>11, <1>12, <1>13, <1>14, HostKeeps

\* The requests that come in, and their steps.
LEMMA RequestsKeep ==
    ASSUME ProvInv, NEW o \in Operators,
           \/ \E h \in Hosts : Creates(o, h)
           \/ Retries(o) \/ Deactivates(o) \/ Activates(o) \/ RequestStep(o) \/ RequestDies(o)
    PROVE  ProvInv'
<1>1. tenant \in {"none", "active", "inactive"} /\ buffered \subseteq Hosts
  BY DEF ProvInv, ProvShape
<1>2. ASSUME NEW h \in Hosts, Creates(o, h)
      PROVE  ProvInv'
  BY <1>2, ComesKeeps DEF Creates
<1>3. CASE Retries(o)
  BY <1>1, <1>3, ComesKeeps DEF Retries
<1>4. CASE Deactivates(o)
  BY <1>1, <1>4, ComesKeeps DEF Deactivates
<1>5. CASE Activates(o)
  BY <1>1, <1>5, ComesKeeps DEF Activates
<1>6. CASE BuffersPassword(o)
  <2>1. command[o].at # "enqueue" /\ \E place \in {"start", "insert"} : RequestGoes(o, place)
    BY <1>6 DEF BuffersPassword
  <2>2. buffered' \subseteq Hosts
    <3>1. command[o] \in Command /\ command[o].at = "store"
      BY <1>6, ProvFacts DEF BuffersPassword, ProvInv
    <3>2. command[o].host \in Hosts
      BY <3>1, <1>6 DEF ProvInv, CommandInv
    <3>. QED
      BY <1>1, <1>6, <3>2 DEF BuffersPassword
  <2>. QED
    BY <1>1, <1>6, <2>1, <2>2, GoesKeeps DEF BuffersPassword
<1>7. CASE Checks(o)
  BY <1>1, <1>7, GoesKeeps DEF Checks
<1>8. CASE SavesInactive(o)
  BY <1>1, <1>8, GoesKeeps DEF SavesInactive
<1>9. CASE SavesActive(o)
  BY <1>1, <1>9, GoesKeeps DEF SavesActive
<1>10. CASE RequestDies(o)
  <2>1. Idle \in Command /\ command \in [Operators -> Command] /\ run \in [Hosts -> Run]
    BY DEF Idle, Command, ProvInv, ProvShape
  <2>2. command' \in [Operators -> Command] /\ \A q \in Operators : command'[q] \in {command[q], Idle}
    BY <1>10, <2>1 DEF RequestDies, Ends
  <2>. QED
    BY <1>1, <1>10, <2>1, <2>2, DeathKeeps DEF RequestDies
<1>. QED
  BY <1>2, <1>3, <1>4, <1>5, <1>6, <1>7, <1>8, <1>9, <1>10, InsertsKeeps, EnqueuesKeeps, EnsuresKeeps
     DEF RequestStep

\* A host fetches a job, that another may run already.
LEMMA FetchesKeep ==
    ASSUME ProvInv, NEW h \in Hosts, NEW p \in DOMAIN job, Fetches(h, p) \/ FetchesAgain(h, p)
    PROVE  ProvInv'
<1>1. /\ p \in DOMAIN provs /\ provs[p] \in Row /\ job[p] \in Job /\ RowFits(provs[p])
      /\ job[p].state \in {"queued", "fetched"} /\ p \in Nat
  <2>1. p \in DOMAIN provs /\ DOMAIN provs = 1..Len(provs)
    BY ProvFacts DEF ProvInv
  <2>2. provs[p] \in Row /\ job[p] \in Job /\ RowFits(provs[p])
    BY <2>1, ProvFacts DEF ProvInv
  <2>3. job[p].state \in {"queued", "fetched"}
    BY DEF Fetches, FetchesAgain
  <2>. QED
    BY <2>1, <2>2, <2>3
<1>. DEFINE r == [NoRun EXCEPT !.at = "step", !.of = p, !.row = provs[p]]
<1>2. r \in Run /\ r.at = "step" /\ r.of = p /\ r.row = provs[p] /\ r.step = 1
  BY <1>1, StepFacts DEF NoRun, Run
<1>3. run' = [run EXCEPT ![h] = r]
  BY DEF Fetches, FetchesAgain
<1>. HIDE DEF r
<1>4. run' \in [Hosts -> Run] /\ run'[h] = r /\ \A k \in Hosts \ {h} : run'[k] = run[k]
  BY <1>2, <1>3, RunChanges DEF ProvInv
<1>5. /\ job' \in Seq(Job) /\ Len(job') = Len(job) /\ job'[p].state = "fetched"
      /\ \A q \in DOMAIN provs : q # p => job'[q] = job[q]
  <2>1. CASE Fetches(h, p)
    <3>1. job \in Seq(Job) /\ DOMAIN provs = DOMAIN job /\ DOMAIN job = 1..Len(job)
      BY ProvFacts, LenProperties DEF ProvInv, ProvShape
    <3>2. [job[p] EXCEPT !.state = "fetched"] \in Job /\ [job[p] EXCEPT !.state = "fetched"].state = "fetched"
      BY <1>1 DEF Job
    <3>3. job' = [job EXCEPT ![p] = [job[p] EXCEPT !.state = "fetched"]]
      BY <2>1 DEF Fetches
    <3>. QED
      BY <3>1, <3>2, <3>3, ExceptSeq
  <2>2. CASE FetchesAgain(h, p)
    BY <2>2 DEF FetchesAgain, ProvInv, ProvShape
  <2>. QED
    BY <2>1, <2>2
<1>6. /\ provs' = provs /\ provs' \in Seq(Row) /\ command' = command /\ tenant' = tenant /\ admin' = admin
      /\ command' \in [Operators -> Command] /\ buffered' \subseteq Hosts
      /\ admin' \in {"none", "asked", "default"}
      /\ mishaps.twice \/ mishaps.unmarked \/ mishaps.relapsed => mishaps.all > 0
  BY DEF Fetches, FetchesAgain, ProvInv, ProvShape
<1>7. /\ mishaps' \in [all : Nat, twice : BOOLEAN, unmarked : BOOLEAN, relapsed : BOOLEAN]
      /\ mishaps'.twice \/ mishaps'.unmarked \/ mishaps'.relapsed => mishaps'.all > 0
      /\ mishaps.twice => mishaps'.twice
      /\ mishaps.relapsed => mishaps'.relapsed
      /\ mishaps.all > 0 => mishaps'.all > 0
      /\ ~mishaps'.twice => Fetches(h, p) /\ ~mishaps.twice
      /\ ~mishaps'.relapsed => ~mishaps.relapsed
  <2>1. CASE Fetches(h, p)
    BY <2>1, <1>6 DEF Fetches, ProvInv, ProvShape
  <2>2. CASE FetchesAgain(h, p)
    BY <2>2, MishapFits DEF FetchesAgain, ProvInv
  <2>. QED
    BY <2>1, <2>2
<1>8. RowFits(provs[p])' /\ RunFits(run[h])'
  <2>1. DOMAIN provs' = DOMAIN provs
    BY <1>6
  <2>2. \A t \in Step : ~(t < r.step)
    BY <1>2, StepFacts
  <2>. QED
    BY <1>1, <1>2, <1>4, <1>5, <1>6, <2>1, <2>2 DEF RowFits, RunFits
<1>9. ~mishaps'.twice => job[p].state = "queued"
  BY <1>7 DEF Fetches
<1>10. ~mishaps'.twice /\ ~mishaps'.relapsed => RowTells(provs'[p])
  BY <1>1, <1>6, <1>7 DEF ProvInv, Told
<1>. QED
  BY <1>1, <1>2, <1>4, <1>5, <1>6, <1>7, <1>8, <1>9, <1>10, HostKeeps

\* A row after its current step is begun or completed.
LEMMA SteppingFits ==
    ASSUME ProvInv, NEW h \in Hosts, Busy(h), ~AlreadyDone(h), NEW status \in {"Running", "Completed"},
           status = "Completed" /\ IsSeeding(run[h].step) => admin # "none"
    PROVE  /\ Stepping(h, status) \in Row /\ RowFits(Stepping(h, status))
           /\ Stepping(h, status).steps[run[h].step] = status
           /\ \A t \in Step : t # run[h].step => Stepping(h, status).steps[t] = run[h].row.steps[t]
           /\ ~mishaps.twice /\ ~mishaps.relapsed => RowTells(Stepping(h, status))
<1>. DEFINE n == Stepping(h, status)
<1>1. PICK p : p = run[h].of
  OBVIOUS
<1>2. /\ run[h].row \in Row /\ run[h].step \in Step /\ RunFits(run[h])
      /\ ~mishaps.twice /\ ~mishaps.relapsed => RowTells(run[h].row)
  BY <1>1, BusyFits
<1>3. run[h].row.steps \in [Step -> Statuses]
  BY <1>2 DEF Row
<1>4. /\ n \in Row /\ n.status = "Running" /\ n.steps[run[h].step] = status
      /\ \A t \in Step : t # run[h].step => n.steps[t] = run[h].row.steps[t]
  BY <1>2, <1>3 DEF Stepping, Row, Statuses
<1>. HIDE DEF n
<1>5. RowFits(n)
  BY <1>2, <1>4 DEF RowFits, RunFits
<1>6. ASSUME RowTells(run[h].row)
      PROVE  RowTells(n)
  <2>1. ASSUME NEW s \in Step, n.steps[s] # "Pending", NEW t \in Step, t < s
        PROVE  n.steps[t] = "Completed"
    <3>1. CASE s = run[h].step
      BY <3>1, <2>1, <1>2, <1>4, StepFacts DEF RunFits
    <3>2. CASE s # run[h].step
      <4>1. \A u \in Step : u < s => run[h].row.steps[u] = "Completed"
        BY <3>2, <2>1, <1>4, <1>6 DEF RowTells
      <4>2. t # run[h].step
        BY <4>1, <2>1 DEF AlreadyDone
      <4>. QED
        BY <4>1, <4>2, <2>1, <1>4
    <3>. QED
      BY <3>1, <3>2
  <2>. QED
    BY <2>1, <1>4 DEF RowTells
<1>. QED
  BY <1>2, <1>4, <1>5, <1>6 DEF n

\* A step is taken: the steps before the next are completed.
LEMMA NextFacts ==
    ASSUME NEW s \in Step
    PROVE  /\ Next1(s) \in Step /\ AfterStep(s) \in {"step", "finish"}
           /\ \A t \in Step : t < Next1(s) => t < s \/ t = s
           /\ AfterStep(s) = "finish" => Next1(s) = Len(Steps) /\ \A t \in Step : t < s \/ t = s
BY StepFacts DEF Next1, AfterStep

LEMMA MarksRunningKeeps ==
    ASSUME ProvInv, NEW h \in Hosts, MarksRunning(h)
    PROVE  ProvInv'
<1>1. /\ Busy(h) /\ run[h] \in Run /\ run[h].step \in Step /\ RunFits(run[h]) /\ run[h].row \in Row
  BY BusyFits DEF MarksRunning, RunAt, Busy
<1>2. CASE AlreadyDone(h)
  <2>. PICK r : r = [run[h] EXCEPT !.step = Next1(run[h].step), !.at = AfterStep(run[h].step)]
    OBVIOUS
  <2>1. /\ r \in Run /\ r.of = run[h].of /\ r.row = run[h].row
        /\ r.at = AfterStep(run[h].step) /\ r.step = Next1(run[h].step)
    BY <1>1, NextFacts DEF Run
  <2>2. run' = [run EXCEPT ![h] = r] /\ UNCHANGED provs
    BY <1>2 DEF MarksRunning, ProvInv, ProvShape
  <2>3. r.at \in {"step", "finish"} /\ r.at # "idle" /\ r.at # "fail"
    BY <2>1, <1>1, NextFacts
  <2>4. RunFits(r)'
    <3>1. UNCHANGED <<provs, job, admin>>
      BY <2>2 DEF MarksRunning
    <3>2. run[h].row.steps[run[h].step] = "Completed"
      BY <1>2 DEF AlreadyDone
    <3>3. \A t \in Step : t < r.step => r.row.steps[t] = "Completed"
      BY <1>1, <2>1, <3>2, NextFacts DEF RunFits
    <3>4. r.at = "finish" => r.step = Len(Steps) /\ \A t \in Step : r.row.steps[t] = "Completed"
      BY <1>1, <2>1, <3>2, NextFacts DEF RunFits
    <3>. QED
      BY <1>1, <2>1, <2>3, <3>1, <3>3, <3>4 DEF RunFits, RowFits
  <2>. QED
    BY <1>1, <2>1, <2>2, <2>3, <2>4, PlaceKeeps DEF MarksRunning, ProvInv, ProvShape
<1>3. CASE ~AlreadyDone(h)
  <2>. DEFINE new == Stepping(h, "Running")
  <2>1. PICK place \in {"seed", "done"} : /\ place = (IF IsSeeding(run[h].step) THEN "seed" ELSE "done")
                                          /\ place = "done" => ~IsSeeding(run[h].step)
    OBVIOUS
  <2>2. SavesRow(h, new, place, run[h].step)
    BY <1>3, <2>1 DEF MarksRunning
  <2>3. /\ new \in Row /\ RowFits(new) /\ new.steps[run[h].step] = "Running"
        /\ \A t \in Step : t # run[h].step => new.steps[t] = run[h].row.steps[t]
        /\ ~mishaps.twice /\ ~mishaps.relapsed => RowTells(new)
    BY <1>1, <1>3, SteppingFits
  <2>. HIDE DEF new
  <2>4. \A t \in Step : t < run[h].step => new.steps[t] = "Completed"
    <3>1. \A t \in Step : t < run[h].step => t # run[h].step /\ run[h].row.steps[t] = "Completed"
      BY <1>1, StepFacts DEF RunFits
    <3>. QED
      BY <2>3, <3>1
  <2>. QED
    BY <1>1, <2>1, <2>2, <2>3, <2>4, SaveKeeps DEF MarksRunning
<1>. QED
  BY <1>2, <1>3

LEMMA MarksStepCompletedKeeps ==
    ASSUME ProvInv, NEW h \in Hosts, MarksStepCompleted(h)
    PROVE  ProvInv'
<1>1. /\ Busy(h) /\ run[h].step \in Step /\ RunFits(run[h]) /\ run[h].at = "done"
  BY BusyFits DEF MarksStepCompleted, RunAt, Busy
<1>2. ~AlreadyDone(h) /\ (IsSeeding(run[h].step) => admin # "none")
  BY <1>1 DEF RunFits, AlreadyDone
<1>. DEFINE new == Stepping(h, "Completed")
<1>3. /\ new \in Row /\ RowFits(new) /\ new.steps[run[h].step] = "Completed"
      /\ \A t \in Step : t # run[h].step => new.steps[t] = run[h].row.steps[t]
      /\ ~mishaps.twice /\ ~mishaps.relapsed => RowTells(new)
  BY <1>1, <1>2, SteppingFits
<1>4. SavesRow(h, new, AfterStep(run[h].step), Next1(run[h].step))
  BY DEF MarksStepCompleted
<1>. HIDE DEF new
<1>5. PICK place, step : place = AfterStep(run[h].step) /\ step = Next1(run[h].step)
  OBVIOUS
<1>6. /\ place \in {"step", "finish"} /\ step \in Step
      /\ \A t \in Step : t < step => new.steps[t] = "Completed"
      /\ place = "finish" => step = Len(Steps) /\ \A t \in Step : new.steps[t] = "Completed"
  <2>1. \A t \in Step : t < run[h].step \/ t = run[h].step => new.steps[t] = "Completed"
    <3>1. \A t \in Step : t < run[h].step => t # run[h].step /\ run[h].row.steps[t] = "Completed"
      BY <1>1, StepFacts DEF RunFits
    <3>. QED
      BY <1>3, <3>1
  <2>2. /\ place \in {"step", "finish"} /\ step \in Step
        /\ \A t \in Step : t < step => t < run[h].step \/ t = run[h].step
        /\ place = "finish" => step = Len(Steps) /\ \A t \in Step : t < run[h].step \/ t = run[h].step
    BY <1>1, <1>5, NextFacts
  <2>. QED
    BY <2>1, <2>2
<1>7. SavesRow(h, new, place, step) /\ UNCHANGED <<tenant, admin, buffered, job, command, mishaps>>
  BY <1>4, <1>5 DEF MarksStepCompleted
<1>8. place # "seed" /\ place # "done" /\ place \in {"step", "seed", "done", "finish"}
  BY <1>6
<1>. QED
  BY <1>1, <1>3, <1>6, <1>7, <1>8, SaveKeeps

\* The seed looks for a password, and creates the administrator.
LEMMA SeedKeeps ==
    ASSUME ProvInv, NEW h \in Hosts, FindsPassword(h) \/ CreatesAdmin(h)
    PROVE  ProvInv'
<1>1. /\ Busy(h) /\ run[h] \in Run /\ run[h].step \in Step /\ RunFits(run[h]) /\ run[h].row \in Row
      /\ run[h].at \in {"seed", "create"}
  BY BusyFits DEF FindsPassword, CreatesAdmin, RunAt, Busy
<1>2. /\ run \in [Hosts -> Run] /\ buffered \subseteq Hosts /\ admin \in {"none", "asked", "default"}
      /\ mishaps \in [all : Nat, twice : BOOLEAN, unmarked : BOOLEAN, relapsed : BOOLEAN]
  BY DEF ProvInv, ProvShape
<1>3. run[h].row.steps[run[h].step] = "Running"
  BY <1>1 DEF RunFits
<1>4. PICK r \in Run :
        /\ run' = [run EXCEPT ![h] = r]
        /\ r.of = run[h].of /\ r.row = run[h].row /\ r.step = run[h].step
        /\ r.at \in {"done", "create", "fail"}
        /\ r.at = "done" => admin' # "none"
        /\ r.at = "create" => r.password # "none"
  <2>1. CASE FindsPassword(h)
    <3>. DEFINE r == [run[h] EXCEPT
                         !.at = IF admin # "none" THEN "done"
                                ELSE IF h \in buffered \/ DefaultPassword THEN "create" ELSE "fail",
                         !.password = IF h \in buffered THEN "asked" ELSE "default"]
    <3>1. run' = [run EXCEPT ![h] = r]
      BY <2>1, <1>2 DEF FindsPassword
    <3>2. /\ r \in Run /\ r.of = run[h].of /\ r.row = run[h].row /\ r.step = run[h].step
          /\ r.at \in {"done", "create", "fail"} /\ r.password # "none"
          /\ r.at = "done" => admin # "none"
      BY <1>1 DEF Run
    <3>3. admin' = admin
      BY <2>1 DEF FindsPassword
    <3>. HIDE DEF r
    <3>. QED
      BY <3>1, <3>2, <3>3
  <2>2. CASE CreatesAdmin(h)
    <3>. DEFINE r == [run[h] EXCEPT !.at = IF admin = "none" THEN "done" ELSE "fail"]
    <3>1. run' = [run EXCEPT ![h] = r]
      BY <2>2, <1>2 DEF CreatesAdmin, RunGoes
    <3>2. /\ r \in Run /\ r.of = run[h].of /\ r.row = run[h].row /\ r.step = run[h].step
          /\ r.at \in {"done", "fail"} /\ (r.at = "done" => admin = "none")
      BY <1>1 DEF Run
    <3>3. admin = "none" => admin' # "none"
      BY <2>2, <1>1 DEF CreatesAdmin, RunFits, RunAt
    <3>. HIDE DEF r
    <3>. QED
      BY <3>1, <3>2, <3>3
  <2>. QED
    BY <2>1, <2>2
<1>5. /\ UNCHANGED <<tenant, provs, job, command, mishaps>> /\ buffered' \subseteq Hosts
      /\ admin' \in {"none", "asked", "default"} /\ (admin # "none" => admin' # "none")
  <2>1. CASE FindsPassword(h)
    BY <2>1, <1>2 DEF FindsPassword
  <2>2. CASE CreatesAdmin(h)
    BY <2>2, <1>1, <1>2 DEF CreatesAdmin, Run
  <2>. QED
    BY <2>1, <2>2
<1>6. RunFits(r)'
  BY <1>1, <1>3, <1>4, <1>5 DEF RunFits, RowFits
<1>7. r.at # "idle" /\ r.row.steps[r.step] # "Completed"
  BY <1>3, <1>4
<1>. QED
  BY <1>1, <1>2, <1>4, <1>5, <1>6, <1>7, PlaceKeeps

LEMMA StepThrowsKeeps ==
    ASSUME ProvInv, NEW h \in Hosts, StepThrows(h)
    PROVE  ProvInv'
<1>1. /\ run[h].at \in {"step", "seed", "create", "done", "finish"} /\ Busy(h)
      /\ UNCHANGED <<tenant, admin, buffered, provs, job, command, commands>>
  BY DEF StepThrows, Busy
<1>2. run[h] \in Run /\ run[h].step \in Step /\ RunFits(run[h]) /\ run[h].row \in Row
  BY <1>1, BusyFits
<1>3. PICK c \in BOOLEAN : c <=> (RunAt(h, "step") /\ AlreadyDone(h))
  <2>1. CASE RunAt(h, "step") /\ AlreadyDone(h)
    BY <2>1
  <2>2. CASE ~(RunAt(h, "step") /\ AlreadyDone(h))
    BY <2>2
  <2>. QED
    BY <2>1, <2>2
<1>4. Mishap(FALSE, FALSE, c)
  <2>1. (RunAt(h, "step") /\ AlreadyDone(h)) \in BOOLEAN
    BY Zenon DEF RunAt, AlreadyDone
  <2>2. c = (RunAt(h, "step") /\ AlreadyDone(h))
    BY <1>3, <2>1, Zenon
  <2>. QED
    BY <2>2, Zenon DEF StepThrows
<1>5. /\ mishaps' \in [all : Nat, twice : BOOLEAN, unmarked : BOOLEAN, relapsed : BOOLEAN]
      /\ mishaps'.all > 0
      /\ mishaps'.twice <=> mishaps.twice
      /\ mishaps'.relapsed <=> mishaps.relapsed \/ c
  BY <1>4, MishapFits DEF ProvInv
<1>6. PICK r : r = [run[h] EXCEPT !.at = "fail"]
  OBVIOUS
<1>7. r \in Run /\ r.of = run[h].of /\ r.row = run[h].row /\ r.step = run[h].step /\ r.at = "fail"
  BY <1>2, <1>6 DEF Run
<1>8. run' = [run EXCEPT ![h] = r]
  BY <1>6 DEF StepThrows, RunGoes, ProvInv, ProvShape
<1>9. RunFits(r)'
  BY <1>1, <1>2, <1>7 DEF RunFits, RowFits
<1>10. ~c => r.step = Len(Steps) \/ r.row.steps[r.step] # "Completed"
  <2>1. CASE run[h].at = "step"
    BY <2>1, <1>3, <1>7 DEF RunAt, AlreadyDone
  <2>2. CASE run[h].at \in {"seed", "create", "done"}
    BY <2>2, <1>2, <1>7 DEF RunFits
  <2>3. CASE run[h].at = "finish"
    BY <2>3, <1>2, <1>7 DEF RunFits
  <2>. QED
    BY <1>1, <2>1, <2>2, <2>3
<1>11. /\ admin' \in {"none", "asked", "default"} /\ buffered' \subseteq Hosts
       /\ (admin # "none" => admin' # "none")
  BY <1>1 DEF ProvInv, ProvShape
<1>12. r.at # "idle" /\ (mishaps.relapsed => mishaps'.relapsed)
       /\ (mishaps' = mishaps \/ mishaps'.all > 0)
       /\ (~mishaps'.twice /\ ~mishaps'.relapsed /\ r.at = "fail" =>
             r.step = Len(Steps) \/ r.row.steps[r.step] # "Completed")
  BY <1>5, <1>7, <1>10
<1>. QED
  BY <1>1, <1>5, <1>7, <1>8, <1>9, <1>11, <1>12, PlaceKeeps

\* A run ends: its host is free, and the job is as given.
LEMMA EndKeeps ==
    ASSUME ProvInv, NEW h \in Hosts, Busy(h), NEW p, p = run[h].of, NEW j \in Job, NEW row \in Row,
           run' = [run EXCEPT ![h] = NoRun], job' = [job EXCEPT ![p] = j], j.state # "none",
           provs' = [provs EXCEPT ![p] = row], RowFits(row),
           command' \in [Operators -> Command],
           \A o \in Operators : command'[o] = command[o] \/ (command'[o] = Idle /\ mishaps'.all > 0),
           UNCHANGED <<tenant, admin>>, buffered' \subseteq Hosts,
           mishaps' \in [all : Nat, twice : BOOLEAN, unmarked : BOOLEAN, relapsed : BOOLEAN],
           mishaps' = mishaps \/ mishaps'.all > 0,
           mishaps'.twice <=> mishaps.twice, mishaps'.relapsed <=> mishaps.relapsed,
           ~mishaps.twice /\ ~mishaps.relapsed => RowTells(row),
           mishaps'.all > 0 \/ row.status \notin {"Pending", "Running"} \/ j.state \in {"queued", "fetched"}
    PROVE  ProvInv'
<1>1. /\ p \in DOMAIN provs /\ p \in DOMAIN job /\ job[p].state # "none"
      /\ DOMAIN provs = 1..Len(provs) /\ DOMAIN job = DOMAIN provs /\ Len(job) = Len(provs)
  BY BusyFits, ProvFacts DEF ProvInv, ProvShape
<1>2. NoRun \in Run /\ NoRun.at = "idle"
  BY StepFacts DEF NoRun, Run
<1>3. run' \in [Hosts -> Run] /\ run'[h] = NoRun /\ \A k \in Hosts \ {h} : run'[k] = run[k]
  BY <1>2, RunChanges DEF ProvInv
<1>4. ~Busy(h)' /\ run'[h].at # "fail"
  BY <1>2, <1>3 DEF Busy
<1>5. /\ provs' \in Seq(Row) /\ Len(provs') = Len(provs) /\ provs'[p] = row
      /\ job' \in Seq(Job) /\ Len(job') = Len(job) /\ job'[p] = j
      /\ \A q \in DOMAIN provs : q # p => provs'[q] = provs[q] /\ job'[q] = job[q]
  <2>1. provs \in Seq(Row) /\ job \in Seq(Job)
    BY DEF ProvInv, ProvShape
  <2>. QED
    BY <1>1, <2>1, ExceptSeq
<1>6. RowFits(provs[p])'
  BY <1>5 DEF RowFits
<1>7. /\ mishaps.twice \/ mishaps.unmarked \/ mishaps.relapsed => mishaps.all > 0
      /\ admin' \in {"none", "asked", "default"} /\ (admin # "none" => admin' # "none")
  BY DEF ProvInv, ProvShape
<1>8. /\ mishaps'.twice \/ mishaps'.unmarked \/ mishaps'.relapsed => mishaps'.all > 0
      /\ mishaps.all > 0 => mishaps'.all > 0
  BY <1>7
<1>9. /\ job[p].state = "queued" \/ (Busy(h) /\ run[h].of = p)
      /\ job[p].state # "none" /\ job'[p].state # "none"
      /\ mishaps.twice => mishaps'.twice
      /\ mishaps.relapsed => mishaps'.relapsed
  BY <1>1, <1>5
<1>10. ~mishaps'.twice /\ ~mishaps'.relapsed => RowTells(provs'[p])
  BY <1>5
<1>11. mishaps'.all > 0 \/ provs'[p].status \notin {"Pending", "Running"} \/ job'[p].state \in {"queued", "fetched"}
  BY <1>5
<1>. QED
  BY <1>1, <1>3, <1>4, <1>5, <1>6, <1>7, <1>8, <1>9, <1>10, <1>11, HostKeeps

\* What Hangfire leaves of a job that threw.
LEMMA RethrownFits ==
    ASSUME ProvInv, NEW h \in Hosts, Busy(h), Rethrows(h)
    PROVE  \E j \in Job : /\ job' = [job EXCEPT ![run[h].of] = j]
                          /\ j.state \in {"succeeded", "queued", "failed"}
<1>1. PICK p : p = run[h].of
  OBVIOUS
<1>2. job[p] \in Job /\ p \in DOMAIN job
  BY <1>1, BusyFits
<1>. DEFINE j == IF job[p].state = "succeeded" THEN job[p]
                 ELSE [state |-> IF job[p].runs + 1 < JobAttempts THEN "queued" ELSE "failed",
                       runs |-> IF job[p].runs < JobAttempts THEN job[p].runs + 1 ELSE job[p].runs]
<1>3. job' = [job EXCEPT ![p] = j]
  BY <1>1, <1>2 DEF Rethrows
<1>4. j \in Job /\ j.state \in {"succeeded", "queued", "failed"}
  <2>1. job[p].runs \in 0..JobAttempts /\ JobAttempts \in Nat
    BY <1>2, StepFacts DEF Job
  <2>. QED
    BY <1>2, <2>1 DEF Job
<1>. HIDE DEF j
<1>. QED
  BY <1>1, <1>3, <1>4

LEMMA MarksCompletedKeeps ==
    ASSUME ProvInv, NEW h \in Hosts, MarksCompleted(h)
    PROVE  ProvInv'
<1>1. PICK p : p = run[h].of
  OBVIOUS
<1>2. /\ Busy(h) /\ run[h].at = "finish"
      /\ UNCHANGED <<tenant, admin, buffered, command, commands, mishaps>>
  BY DEF MarksCompleted, RunAt, Busy
<1>3. /\ p \in DOMAIN provs /\ provs[p] \in Row /\ RowFits(provs[p]) /\ job[p] \in Job
      /\ run[h].row \in Row /\ RunFits(run[h])
      /\ ~mishaps.twice => run[h].row = provs[p]
  BY <1>1, <1>2, BusyFits
<1>4. PICK new, row : /\ new = [run[h].row EXCEPT !.status = "Completed"]
                      /\ row = Merged(run[h].row, new, provs[p])
  OBVIOUS
<1>5. /\ new \in Row /\ new.status = "Completed"
      /\ \A s \in Step : new.steps[s] = "Completed" /\ run[h].row.steps[s] = "Completed"
  BY <1>2, <1>3, <1>4 DEF Row, Statuses, RunFits
<1>6. admin # "none"
  BY <1>3, <1>5, StepFacts DEF RunFits, RowFits
<1>7. row \in Row /\ (run[h].row = provs[p] => row = new)
  BY <1>3, <1>4, <1>5, MergedFits
<1>8. RowFits(row)
  BY <1>6, <1>7 DEF RowFits
<1>9. RowTells(new)
  BY <1>5 DEF RowTells
<1>10. PICK j \in Job : j = [job[p] EXCEPT !.state = "succeeded"] /\ j.state = "succeeded"
  <2>1. [job[p] EXCEPT !.state = "succeeded"] \in Job /\ [job[p] EXCEPT !.state = "succeeded"].state = "succeeded"
    BY <1>3 DEF Job
  <2>. QED
    BY <2>1
<1>11. /\ run' = [run EXCEPT ![h] = NoRun] /\ provs' = [provs EXCEPT ![p] = row]
       /\ job' = [job EXCEPT ![p] = j]
  BY <1>1, <1>4, <1>10 DEF MarksCompleted
<1>12. /\ mishaps' \in [all : Nat, twice : BOOLEAN, unmarked : BOOLEAN, relapsed : BOOLEAN]
       /\ mishaps.twice => mishaps.all > 0
       /\ command' \in [Operators -> Command] /\ buffered' \subseteq Hosts
  BY <1>2 DEF ProvInv, ProvShape
<1>13. mishaps'.all > 0 \/ row.status \notin {"Pending", "Running"}
  BY <1>2, <1>3, <1>5, <1>7, <1>12
<1>. QED
  BY <1>1, <1>2, <1>3, <1>5, <1>7, <1>8, <1>9, <1>10, <1>11, <1>12, <1>13, EndKeeps

LEMMA MarksFailedKeeps ==
    ASSUME ProvInv, NEW h \in Hosts, MarksFailed(h)
    PROVE  ProvInv'
<1>1. PICK p : p = run[h].of
  OBVIOUS
<1>2. /\ Busy(h) /\ run[h].at = "fail" /\ Rethrows(h)
      /\ UNCHANGED <<tenant, admin, buffered, command, commands, mishaps>>
  BY DEF MarksFailed, RunAt, Busy
<1>3. /\ p \in DOMAIN provs /\ provs[p] \in Row /\ RowFits(provs[p])
      /\ run[h].row \in Row /\ RunFits(run[h]) /\ run[h].step \in Step
      /\ ~mishaps.twice => run[h].row = provs[p]
      /\ ~mishaps.twice /\ ~mishaps.relapsed => RowTells(provs[p])
  BY <1>1, <1>2, BusyFits
<1>4. PICK new, row : new = Failing(h) /\ row = Merged(run[h].row, new, provs[p])
  OBVIOUS
<1>5. /\ new \in Row /\ new.status = "Failed" /\ new.steps[run[h].step] = "Failed"
      /\ \A t \in Step : t # run[h].step => new.steps[t] = run[h].row.steps[t]
  BY <1>3, <1>4 DEF Failing, Row, Statuses
<1>6. /\ row \in Row /\ row.status \in {"Failed", provs[p].status}
      /\ \A s \in Step : row.steps[s] \in {new.steps[s], provs[p].steps[s]}
      /\ run[h].row = provs[p] => row = new
  BY <1>3, <1>4, <1>5, MergedFits
<1>7. RowFits(row)
  <2>1. \A s \in Step : row.steps[s] = "Completed" =>
                          run[h].row.steps[s] = "Completed" \/ provs[p].steps[s] = "Completed"
    BY <1>5, <1>6
  <2>. QED
    BY <2>1, <1>3, <1>6 DEF RowFits, RunFits
<1>8. ASSUME ~mishaps.twice, ~mishaps.relapsed
      PROVE  RowTells(new)
  <2>1. RowTells(run[h].row) /\ (run[h].step = Len(Steps) \/ run[h].row.steps[run[h].step] # "Completed")
    BY <1>2, <1>3, <1>8 DEF ProvInv, Told
  <2>2. ASSUME NEW s \in Step, new.steps[s] # "Pending", NEW t \in Step, t < s
        PROVE  new.steps[t] = "Completed"
    <3>1. t # run[h].step
      <4>. SUFFICES ASSUME t = run[h].step
                    PROVE  FALSE
        OBVIOUS
      <4>1. s # run[h].step /\ run[h].step # Len(Steps)
        BY <2>2, <1>3, StepFacts
      <4>2. run[h].row.steps[t] = "Completed"
        BY <4>1, <2>1, <2>2, <1>5 DEF RowTells
      <4>. QED
        BY <4>1, <4>2, <2>1
    <3>2. run[h].row.steps[t] = "Completed"
      <4>1. CASE s = run[h].step
        BY <4>1, <2>2, <1>3 DEF RunFits
      <4>2. CASE s # run[h].step
        BY <4>2, <2>1, <2>2, <1>5 DEF RowTells
      <4>. QED
        BY <4>1, <4>2
    <3>. QED
      BY <3>1, <3>2, <1>5
  <2>. QED
    BY <2>2, <1>3, <1>5 DEF RowTells
<1>9. PICK j \in Job : job' = [job EXCEPT ![p] = j] /\ j.state \in {"succeeded", "queued", "failed"}
  BY <1>1, <1>2, RethrownFits
<1>10. run' = [run EXCEPT ![h] = NoRun] /\ provs' = [provs EXCEPT ![p] = row]
  BY <1>1, <1>4 DEF MarksFailed, Rethrows
<1>11. /\ mishaps' \in [all : Nat, twice : BOOLEAN, unmarked : BOOLEAN, relapsed : BOOLEAN]
       /\ mishaps.twice => mishaps.all > 0
       /\ command' \in [Operators -> Command] /\ buffered' \subseteq Hosts
  BY <1>2 DEF ProvInv, ProvShape
<1>12. mishaps'.all > 0 \/ row.status \notin {"Pending", "Running"}
  BY <1>2, <1>3, <1>5, <1>6, <1>11
<1>13. ~mishaps.twice /\ ~mishaps.relapsed => RowTells(row)
  BY <1>3, <1>6, <1>8
<1>. QED
  BY <1>1, <1>2, <1>6, <1>7, <1>9, <1>10, <1>11, <1>12, <1>13, EndKeeps

LEMMA MarkFailedThrowsKeeps ==
    ASSUME ProvInv, NEW h \in Hosts, MarkFailedThrows(h)
    PROVE  ProvInv'
<1>1. PICK p : p = run[h].of
  OBVIOUS
<1>2. /\ Busy(h) /\ Rethrows(h) /\ Mishap(FALSE, TRUE, FALSE)
      /\ UNCHANGED <<tenant, admin, buffered, provs, command, commands>>
  BY DEF MarkFailedThrows, RunAt, Busy
<1>3. /\ p \in DOMAIN provs /\ provs[p] \in Row /\ RowFits(provs[p])
      /\ ~mishaps.twice /\ ~mishaps.relapsed => RowTells(provs[p])
  BY <1>1, <1>2, BusyFits
<1>4. PICK j \in Job : job' = [job EXCEPT ![p] = j] /\ j.state \in {"succeeded", "queued", "failed"}
  BY <1>1, <1>2, RethrownFits
<1>5. run' = [run EXCEPT ![h] = NoRun] /\ provs' = [provs EXCEPT ![p] = provs[p]]
  <2>1. provs \in Seq(Row)
    BY DEF ProvInv, ProvShape
  <2>. QED
    BY <1>2, <1>3, <2>1 DEF Rethrows
<1>6. /\ mishaps' \in [all : Nat, twice : BOOLEAN, unmarked : BOOLEAN, relapsed : BOOLEAN]
      /\ mishaps'.all > 0
      /\ mishaps'.twice <=> mishaps.twice
      /\ mishaps'.relapsed <=> mishaps.relapsed
  BY <1>2, MishapFits DEF ProvInv
<1>7. command' \in [Operators -> Command] /\ buffered' \subseteq Hosts
  BY <1>2 DEF ProvInv, ProvShape
<1>. QED
  BY <1>1, <1>2, <1>3, <1>4, <1>5, <1>6, <1>7, EndKeeps

LEMMA HostCrashesKeeps ==
    ASSUME ProvInv, NEW h \in Hosts, HostCrashes(h)
    PROVE  ProvInv'
<1>1. /\ Mishap(FALSE, FALSE, FALSE) /\ buffered' = buffered \ {h} /\ run' = [run EXCEPT ![h] = NoRun]
      /\ UNCHANGED <<tenant, admin, provs, commands>>
  BY DEF HostCrashes
<1>2. Idle \in Command
  BY DEF Idle, Command
<1>3. /\ command' \in [Operators -> Command] /\ buffered' \subseteq Hosts
      /\ \A o \in Operators : command'[o] \in {command[o], Idle}
  BY <1>1, <1>2 DEF HostCrashes, ProvInv, ProvShape
<1>4. CASE ~Busy(h)
  <2>1. NoRun \in Run /\ NoRun.at = "idle"
    BY StepFacts DEF NoRun, Run
  <2>2. run' \in [Hosts -> Run] /\ \A k \in Hosts : run'[k] = run[k] \/ (~Busy(k) /\ run'[k].at = "idle")
    BY <1>1, <1>4, <2>1, RunChanges DEF ProvInv
  <2>3. job' = job
    BY <1>4 DEF HostCrashes, Busy, RunAt
  <2>. QED
    BY <1>1, <1>3, <2>2, <2>3, DeathKeeps
<1>5. CASE Busy(h)
  <2>1. PICK p : p = run[h].of
    OBVIOUS
  <2>2. /\ p \in DOMAIN provs /\ provs[p] \in Row /\ RowFits(provs[p])
        /\ job[p] \in Job /\ p \in DOMAIN job /\ job[p].state # "none"
        /\ ~mishaps.twice /\ ~mishaps.relapsed => RowTells(provs[p])
    BY <1>5, <2>1, BusyFits
  <2>3. PICK j \in Job : j = [job[p] EXCEPT !.state = IF @ = "fetched" THEN "queued" ELSE @] /\ j.state # "none"
    <3>. DEFINE c == [job[p] EXCEPT !.state = IF @ = "fetched" THEN "queued" ELSE @]
    <3>1. c \in Job /\ c.state # "none"
      BY <2>2 DEF Job
    <3>. HIDE DEF c
    <3>2. PICK j \in Job : j = c /\ j.state # "none"
      BY <3>1
    <3>. QED
      BY <3>2 DEF c
  <2>4. job' = [job EXCEPT ![p] = j]
    BY <1>5, <2>1, <2>2, <2>3 DEF HostCrashes, Busy, RunAt
  <2>5. provs' = [provs EXCEPT ![p] = provs[p]]
    <3>1. provs \in Seq(Row)
      BY DEF ProvInv, ProvShape
    <3>. QED
      BY <1>1, <2>2, <3>1
  <2>6. /\ mishaps' \in [all : Nat, twice : BOOLEAN, unmarked : BOOLEAN, relapsed : BOOLEAN]
        /\ mishaps'.all > 0
        /\ mishaps'.twice <=> mishaps.twice
        /\ mishaps'.relapsed <=> mishaps.relapsed
    BY <1>1, MishapFits DEF ProvInv
  <2>7. \A o \in Operators : command'[o] = command[o] \/ (command'[o] = Idle /\ mishaps'.all > 0)
    BY <1>3, <2>6
  <2>8. /\ command' \in [Operators -> Command] /\ buffered' \subseteq Hosts
        /\ run' = [run EXCEPT ![h] = NoRun] /\ UNCHANGED <<tenant, admin>>
        /\ j.state # "none"
    BY <1>1, <1>3, <2>3
  <2>. QED
    BY <1>5, <2>1, <2>2, <2>4, <2>5, <2>6, <2>7, <2>8, EndKeeps
<1>. QED
  BY <1>4, <1>5

LEMMA ProvStep == ProvInv /\ ProvNext => ProvInv'
<1>. SUFFICES ASSUME ProvInv, ProvNext
              PROVE  ProvInv'
  OBVIOUS
<1>1. ASSUME NEW o \in Operators, NEW h \in Hosts, Creates(o, h)
      PROVE  ProvInv'
  BY <1>1, RequestsKeep
<1>2. ASSUME NEW o \in Operators,
             Retries(o) \/ Deactivates(o) \/ Activates(o) \/ RequestStep(o) \/ RequestDies(o)
      PROVE  ProvInv'
  BY <1>2, RequestsKeep
<1>3. ASSUME NEW h \in Hosts, JobStep(h)
      PROVE  ProvInv'
  BY <1>3, FetchesKeep, MarksRunningKeeps, SeedKeeps, MarksStepCompletedKeeps, MarksCompletedKeeps,
     MarksFailedKeeps DEF JobStep
<1>4. ASSUME NEW h \in Hosts, StepThrows(h) \/ MarkFailedThrows(h) \/ HostCrashes(h)
      PROVE  ProvInv'
  BY <1>4, StepThrowsKeeps, MarkFailedThrowsKeeps, HostCrashesKeeps
<1>5. ASSUME NEW h \in Hosts, NEW p \in DOMAIN job, FetchesAgain(h, p)
      PROVE  ProvInv'
  BY <1>5, FetchesKeep
<1>. QED
  BY <1>1, <1>2, <1>3, <1>4, <1>5 DEF ProvNext

LEMMA ProvHolds == ProvInv => ProvisioningTells
<1>. SUFFICES ASSUME ProvInv
              PROVE  ProvisioningTells
  OBVIOUS
<1>1. ProvTypeOK
  <2>1. \A p \in DOMAIN provs : provs[p] \in Row /\ job[p] \in Job
    BY ProvFacts DEF ProvInv
  <2>2. \A h \in Hosts : run[h].at # "idle" => run[h].of \in DOMAIN provs /\ run[h].row \in Row
    BY DEF ProvInv, Busy, RunFits, RowFits
  <2>3. DOMAIN job = DOMAIN provs
    BY ProvFacts DEF ProvInv
  <2>4. /\ tenant \in {"none", "active", "inactive"} /\ admin \in {"none", "asked", "default"}
        /\ buffered \subseteq Hosts
    BY DEF ProvInv, ProvShape
  <2>. QED
    BY <2>1, <2>2, <2>3, <2>4 DEF ProvTypeOK, Job
<1>2. CompletedMeansSeeded
  BY DEF CompletedMeansSeeded, ProvInv, RowFits
<1>3. StepsTell
  <2>. SUFFICES ASSUME NEW p \in DOMAIN provs, ~mishaps.twice, ~mishaps.relapsed
                PROVE  LET steps == provs[p].steps
                           reached == {s \in Step : steps[s] = "Completed"}
                       IN  /\ \A s \in Step : steps[s] # "Pending" => 1..(s - 1) \subseteq reached
                           /\ provs[p].status = "Completed" => reached = Step
                           /\ provs[p].status = "Failed" => \E s \in Step : steps[s] = "Failed"
    BY DEF StepsTell
  <2>1. RowTells(provs[p])
    BY DEF ProvInv, Told
  <2>. DEFINE reached == {s \in Step : provs[p].steps[s] = "Completed"}
  <2>2. ASSUME NEW s \in Step, provs[p].steps[s] # "Pending"
        PROVE  1..(s - 1) \subseteq reached
    <3>1. \A t \in 1..(s - 1) : t \in Step /\ t < s
      BY StepFacts
    <3>. QED
      BY <2>1, <2>2, <3>1 DEF RowTells
  <2>3. provs[p].status = "Completed" => reached = Step
    BY <2>1 DEF RowTells
  <2>4. provs[p].status = "Failed" => \E s \in Step : provs[p].steps[s] = "Failed"
    BY <2>1 DEF RowTells
  <2>. QED
    BY <2>2, <2>3, <2>4
<1>4. NobodyForgetsIt
  BY DEF ProvInv
<1>5. ReactivatedIsSeeded
  BY DEF ReactivatedIsSeeded, ProvInv, CommandInv
<1>. QED
  BY <1>1, <1>2, <1>3, <1>4, <1>5 DEF ProvisioningTells

-----------------------------------------------------------------------------
(* Both, in the module that composes them. *)

WorkInv == AuditInv /\ ProvInv

LEMMA WorkStarts == PartsInit => WorkInv
<1>. SUFFICES ASSUME PartsInit
              PROVE  WorkInv
  OBVIOUS
<1>1. ProvInv
  BY ProvStarts DEF PartsInit
<1>2. PICK place \in {"security", "down"} : AuditInitAt(place)
  BY DEF PartsInit
<1>3. AuditInv
  BY <1>2, AuditStarts
<1>. QED
  BY <1>1, <1>3 DEF WorkInv

LEMMA AuditRests == AuditInv /\ UNCHANGED auditVars => AuditInv'
<1>. SUFFICES ASSUME AuditInv, UNCHANGED auditVars
              PROVE  AuditInv'
  OBVIOUS
<1>1. UNCHANGED auditVars
  OBVIOUS
<1>2. /\ Event' = Event /\ Settled' = Settled /\ Queued' = Queued /\ Drawn' = Drawn
      /\ \A e : Behind(e)' = Behind(e) /\ TenantOf(e)' = TenantOf(e)
  BY <1>1 DEF auditVars, Event, Settled, Queued, Lined, Drawn, Behind, TenantOf
<1>3. AuditShape'
  BY <1>1, <1>2 DEF auditVars, AuditInv, AuditShape
<1>4. LineInv'
  BY <1>1, <1>2 DEF auditVars, AuditInv, LineInv, Full
<1>5. OrderInv'
  BY <1>1, <1>2 DEF auditVars, AuditInv, OrderInv
<1>6. BatchInv'
  BY <1>1, <1>2 DEF auditVars, AuditInv, BatchInv, DeadLettersAreDue
<1>. QED
  BY <1>3, <1>4, <1>5, <1>6 DEF AuditInv

LEMMA ProvRests == ProvInv /\ UNCHANGED provVars => ProvInv'
BY DEF provVars, ProvInv, ProvShape, CommandInv, RowFits, Busy, RunFits, Owned, RowTells, Told, NobodyForgetsIt

LEMMA WorkStep == WorkInv /\ [PartsNext]_partVars => WorkInv'
<1>. SUFFICES ASSUME WorkInv, [PartsNext]_partVars
              PROVE  WorkInv'
  OBVIOUS
<1>1. AuditNext \/ UNCHANGED auditVars
  BY DEF PartsNext, partVars
<1>2. ProvNext \/ UNCHANGED provVars
  BY DEF PartsNext, partVars
<1>3. AuditInv'
  BY <1>1, AuditStep, AuditRests DEF WorkInv
<1>4. ProvInv'
  BY <1>2, ProvStep, ProvRests DEF WorkInv
<1>. QED
  BY <1>3, <1>4 DEF WorkInv

\* The audit channels, the worker and the SQL sink (ChannelAuditPublisher.cs, AuditBackgroundWorker.cs,
\* SqlAuditSink.cs): an event is lost only by a way that was counted, the trail of a lane is in the
\* order of publication, and only events whose writes kept failing are dead-lettered.
THEOREM AuditTellsHolds == PartsSpec => []AuditTells
<1>1. PartsInit => WorkInv
  BY WorkStarts
<1>2. WorkInv /\ [PartsNext]_partVars => WorkInv'
  BY WorkStep
<1>3. WorkInv => AuditTells
  BY AuditHolds DEF WorkInv
<1>. QED
  BY <1>1, <1>2, <1>3, PTL DEF PartsSpec

\* TenantProvisioningService.cs, TenantProvisioningJob.cs: whichever requests, runs, crashes and failed
\* saves meet, a provisioning that says Completed left an administrator, its steps tell how far it
\* came, a settled request is not forgotten unless something broke, and a tenant that was deactivated
\* is activated again only with an administrator.
THEOREM ProvisioningTellsHolds == PartsSpec => []ProvisioningTells
<1>1. PartsInit => WorkInv
  BY WorkStarts
<1>2. WorkInv /\ [PartsNext]_partVars => WorkInv'
  BY WorkStep
<1>3. WorkInv => ProvisioningTells
  BY ProvHolds DEF WorkInv
<1>. QED
  BY <1>1, <1>2, <1>3, PTL DEF PartsSpec
=============================================================================
