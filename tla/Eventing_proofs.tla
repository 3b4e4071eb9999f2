--------------------------- MODULE Eventing_proofs ---------------------------
(***************************************************************************)
(* Proofs about the outbox and about Eventing for every set of instances,  *)
(* messages and handlers and every value of the options.  What is shown of *)
(* the tables and dispatchers of Outbox carries over to Eventing, because  *)
(* every step of Eventing is one of theirs but for a failed inbox save,    *)
(* which they know only as a fault.                                        *)
(***************************************************************************)
EXTENDS Eventing, FiniteSetTheorems, TLAPS

-----------------------------------------------------------------------------
(***************************************************************************)
(* The outbox by itself.                                                   *)
(***************************************************************************)
Ordinary == Messages \ Poison

\* Only rows out of retries or with an unreadable payload are dead, and a copy
\* is taken from a row that is not; a poison copy may be marked twice.
RetryInv ==
    /\ \A m \in Messages : ~rows[m].dead => rows[m].retry < MaxRetries
    /\ \A d \in Dispatchers : \A m \in disp[d].batch :
         \/ disp[d].copy[m].retry < MaxRetries
         \/ /\ disp[d].pc = "failing" /\ disp[d].cur = m
            /\ m \in Poison /\ disp[d].copy[m].retry = MaxRetries

\* What the loop's position says about the current message.
LoopInv ==
    \A d \in Dispatchers :
        /\ disp[d].pc \notin {"idle", "next"} => disp[d].cur \in disp[d].batch
        /\ disp[d].pc \in {"publishing", "marking"} => disp[d].cur \notin Poison
        /\ disp[d].pc = "poisoned" => disp[d].cur \in Poison

\* Processed, in the table or in a copy, means published.
PublishedInv ==
    /\ published \cap Poison = {}
    /\ \A d \in Dispatchers :
         /\ disp[d].pc = "marking" => disp[d].cur \in published
         /\ \A m \in Messages : disp[d].copy[m].processed => m \in published
    /\ ProcessedWasPublished

\* Whoever works on a row either still has it leased, or has just marked it
\* processed without hearing so; either way nobody can claim it.
Held ==
    \A d \in Dispatchers : \A m \in disp[d].batch \ Poison :
        /\ ~rows[m].dead
        /\ \/ rows[m].lease > 0 /\ ~rows[m].processed
           \/ /\ rows[m].processed
              /\ disp[d].pc = "failing" /\ disp[d].cur = m /\ disp[d].copy[m].processed

Apart ==
    \A d, e \in Dispatchers : d # e => disp[d].batch \cap disp[e].batch \subseteq Poison

\* Retries are never more than the failures that were saved.
WithinBudget ==
    /\ \A m \in Ordinary : rows[m].retry <= failures[m]
    /\ \A d \in Dispatchers : \A m \in disp[d].batch \ Poison :
         disp[d].copy[m].retry <= failures[m]
    /\ \A m \in redrive \ Poison : rows[m].dead

Exhausted == \A m \in Messages : rows[m].dead => m \in Poison \/ failures[m] = MaxRetries

Exclusion == Held /\ Apart /\ WithinBudget /\ Exhausted

IInv == TypeOK /\ RetryInv /\ LoopInv /\ PublishedInv /\ (LeaseHolds => Exclusion)

-----------------------------------------------------------------------------
(* Operators. *)

\* The delay before a retry is a natural number within its cap.
LEMMA PowerType ==
    ASSUME NEW k \in Nat
    PROVE  2 ^ k \in Nat
<1>1. IsFiniteSet(1..k) /\ Cardinality(1..k) = k
  BY FS_Interval
<1>2. IsFiniteSet(SUBSET (1..k)) /\ Cardinality(SUBSET (1..k)) = 2 ^ k
  BY <1>1, FS_SUBSET, Zenon
<1>. QED
  BY <1>2, FS_CardinalityType, Zenon

\* The delay before a retry is a natural number within its cap.
LEMMA BackoffType ==
    ASSUME NEW r \in Nat \ {0}
    PROVE  Backoff(r) \in 0..BackoffMax
<1> DEFINE pow == 2 ^ Smaller(r - 1, 30)
<1>1. pow \in Nat
  BY PowerType DEF Smaller
<1>. HIDE DEF pow
<1>2. BackoffBase * pow \in Nat
  BY <1>1, OptionsAssumption
<1>. QED
  BY <1>2, OptionsAssumption DEF Backoff, Smaller, pow

\* A dispatcher between batches is well typed.
LEMMA IdleType == Idle \in DispatcherState
BY OptionsAssumption DEF Idle, FreshCopy, DispatcherState, Stages, Copy

\* Moving on drops the current message from the batch and keeps the other copies.
LEMMA AdvancedType ==
    ASSUME TypeOK, NEW d \in Dispatchers
    PROVE  /\ Advanced(d) \in DispatcherState
           /\ Advanced(d).batch = disp[d].batch \ {disp[d].cur}
           /\ Advanced(d).pc \in {"idle", "next"}
           /\ \A m \in Advanced(d).batch : Advanced(d).copy[m] = disp[d].copy[m]
           /\ \A m \in Messages : Advanced(d).copy[m].processed => disp[d].copy[m].processed
<1>1. disp[d] \in DispatcherState
  BY DEF TypeOK
<1>2. CASE disp[d].batch \ {disp[d].cur} = {}
  BY <1>2, IdleType DEF Advanced, Idle, FreshCopy
<1>3. CASE disp[d].batch \ {disp[d].cur} # {}
  BY <1>1, <1>3 DEF Advanced, DispatcherState, Stages
<1>. QED
  BY <1>2, <1>3

\* What a mark writes: the copy's columns, the verdict, and a released claim.
LEMMA WrittenType ==
    ASSUME TypeOK, NEW m \in Messages, NEW copy \in Copy, NEW dead \in BOOLEAN,
           NEW backoff \in 0..BackoffMax
    PROVE  LET w == Written(m, copy, dead, backoff) IN
           /\ w \in Row
           /\ w.at = rows[m].at
           /\ w.retry = copy.retry /\ w.processed = copy.processed
           /\ w.dead = dead /\ w.lease = 0
<1> DEFINE age == IF rows[m].processed /\ copy.processed THEN rows[m].age ELSE 0
<1>1. rows[m] \in Row
  BY DEF TypeOK
<1>2. age \in 0..(Retention + 1)
  BY <1>1, OptionsAssumption DEF Row
<1>3. /\ copy.retry \in 0..(MaxRetries + 1) /\ copy.processed \in BOOLEAN
      /\ 0 \in 0..Lease
  BY OptionsAssumption DEF Copy
<1>4. Written(m, copy, dead, backoff) =
        [rows[m] EXCEPT !.retry = copy.retry, !.processed = copy.processed, !.dead = dead,
                        !.backoff = backoff, !.lease = 0, !.age = age]
  BY DEF Written
<1>. HIDE DEF age
<1>. QED
  BY <1>1, <1>2, <1>3, <1>4 DEF Row

-----------------------------------------------------------------------------
(* Types, retries and the loop's position. *)

\* The empty outbox is well typed.
LEMMA TypeInit == Init => TypeOK /\ RetryInv /\ LoopInv
<1> SUFFICES ASSUME Init PROVE TypeOK /\ RetryInv /\ LoopInv
  OBVIOUS
<1>1. TypeOK
  BY IdleType, OptionsAssumption DEF Init, TypeOK, Row
<1>2. RetryInv /\ LoopInv
  BY OptionsAssumption DEF Init, RetryInv, LoopInv, Idle
<1>. QED
  BY <1>1, <1>2

\* What marking a message processed does to its row and to its dispatcher.
LEMMA MarkAsProcessedEffect ==
    ASSUME TypeOK, RetryInv, LoopInv, NEW d \in Dispatchers, MarkAsProcessedAsync(d)
    PROVE  LET m == disp[d].cur
               told == [disp[d] EXCEPT !.pc = "failing", !.copy[m].processed = TRUE]
           IN
           /\ m \in Messages \ Poison /\ m \in disp[d].batch /\ disp[d].pc = "marking"
           /\ told \in DispatcherState
           /\ \E w \in Row :
                /\ w.at = rows[m].at /\ w.lease = 0
                /\ w.retry = disp[d].copy[m].retry /\ w.processed = TRUE /\ w.dead = FALSE
                /\ \/ /\ rows' = [rows EXCEPT ![m] = w]
                      /\ disp' = [disp EXCEPT ![d] = Advanced(d)]
                   \/ /\ rows' = rows \/ rows' = [rows EXCEPT ![m] = w]
                      /\ disp' = [disp EXCEPT ![d] = told]
           /\ faults' \in 0..MaxFaults
           /\ UNCHANGED <<redrive, published, failures>>
<1> DEFINE m == disp[d].cur
           told == [disp[d] EXCEPT !.pc = "failing", !.copy[m].processed = TRUE]
           copy == [disp[d].copy[m] EXCEPT !.processed = TRUE]
           w == Written(m, copy, FALSE, 0)
<1>1. disp[d] \in DispatcherState /\ disp[d].pc = "marking"
  BY DEF TypeOK, MarkAsProcessedAsync
<1>2. m \in Messages \ Poison /\ m \in disp[d].batch
  BY <1>1 DEF LoopInv, DispatcherState
<1>3. disp[d].copy[m] \in Copy
  BY <1>1, <1>2 DEF DispatcherState
<1>4. copy \in Copy /\ copy.retry = disp[d].copy[m].retry /\ copy.processed = TRUE
  BY <1>3 DEF Copy
<1>5. [disp[d] EXCEPT !.pc = "failing", !.copy[m] = copy] = told
  BY <1>1, <1>2, <1>3 DEF DispatcherState, Copy
<1>6. told \in DispatcherState
  BY <1>1, <1>2, <1>4, <1>5 DEF DispatcherState, Stages
<1> HIDE DEF copy
<1>7. /\ w \in Row /\ w.at = rows[m].at /\ w.lease = 0
      /\ w.retry = disp[d].copy[m].retry /\ w.processed = TRUE /\ w.dead = FALSE
  <2>1. FALSE \in BOOLEAN /\ 0 \in 0..BackoffMax
    BY OptionsAssumption
  <2>. QED
    BY <1>2, <1>4, <2>1, WrittenType, ZenonT(40)
<1> HIDE DEF w
<1>8. \/ /\ rows' = [rows EXCEPT ![m] = w]
         /\ disp' = [disp EXCEPT ![d] = Advanced(d)]
      \/ /\ rows' = rows \/ rows' = [rows EXCEPT ![m] = w]
         /\ disp' = [disp EXCEPT ![d] = told]
  <2>1. [disp EXCEPT ![d].pc = "failing", ![d].copy[m] = copy]
          = [disp EXCEPT ![d] = [disp[d] EXCEPT !.pc = "failing", !.copy[m] = copy]]
    BY <1>1 DEF TypeOK
  <2>2. \/ Saves(m, w) /\ disp' = [disp EXCEPT ![d] = Advanced(d)]
        \/ /\ SavesUnheard(m, w) \/ FailsToSave(m)
           /\ disp' = [disp EXCEPT ![d].pc = "failing", ![d].copy[m] = copy]
    BY DEF MarkAsProcessedAsync, w, copy
  <2>. QED
    BY <2>1, <2>2, <1>5 DEF Saves, SavesUnheard, FailsToSave
<1>9. faults' \in 0..MaxFaults /\ UNCHANGED <<redrive, published, failures>>
  <2>1. Saves(m, w) \/ SavesUnheard(m, w) \/ FailsToSave(m)
    BY DEF MarkAsProcessedAsync, w, copy
  <2>2. faults' \in 0..MaxFaults
    BY <2>1, OptionsAssumption DEF Saves, SavesUnheard, FailsToSave, TypeOK
  <2>. QED
    BY <2>2 DEF MarkAsProcessedAsync
<1> HIDE DEF told
<1>. QED
  BY <1>1, <1>2, <1>6, <1>7, <1>8, <1>9 DEF told

\* What marking a message failed does to its row and to its dispatcher.
LEMMA MarkAsFailedEffect ==
    ASSUME TypeOK, RetryInv, LoopInv, NEW d \in Dispatchers, MarkAsFailedAsync(d)
    PROVE  LET m == disp[d].cur
               told == [disp[d] EXCEPT !.pc = "failing", !.copy[m].retry = @ + 1]
               counted == [failures EXCEPT ![m] = Smaller(@ + 1, MaxRetries)]
           IN
           /\ m \in Messages /\ m \in disp[d].batch /\ disp[d].pc \in {"poisoned", "failing"}
           /\ told \in DispatcherState
           /\ \E w \in Row :
                /\ w.at = rows[m].at /\ w.lease = 0
                /\ w.retry = disp[d].copy[m].retry + 1
                /\ w.processed = disp[d].copy[m].processed /\ w.dead = IsDead(d)
                /\ \/ /\ rows' = [rows EXCEPT ![m] = w] /\ failures' = counted
                      /\ disp' = [disp EXCEPT ![d] = Advanced(d)]
                   \/ /\ \/ rows' = rows /\ failures' = failures
                         \/ rows' = [rows EXCEPT ![m] = w] /\ failures' = counted
                      /\ disp' = [disp EXCEPT ![d] = IF disp[d].pc = "poisoned" THEN told
                                                                               ELSE Idle]
           /\ faults' \in 0..MaxFaults
           /\ UNCHANGED <<redrive, published>>
<1> DEFINE m == disp[d].cur
           told == [disp[d] EXCEPT !.pc = "failing", !.copy[m].retry = @ + 1]
           counted == [failures EXCEPT ![m] = Smaller(@ + 1, MaxRetries)]
           copy == [disp[d].copy[m] EXCEPT !.retry = @ + 1]
           backoff == IF IsDead(d) THEN 0 ELSE Backoff(copy.retry)
           w == Written(m, copy, IsDead(d), backoff)
<1>1. disp[d] \in DispatcherState /\ disp[d].pc \in {"poisoned", "failing"}
  BY DEF TypeOK, MarkAsFailedAsync
<1>2. m \in Messages /\ m \in disp[d].batch
  BY <1>1 DEF LoopInv, DispatcherState
<1>3. disp[d].copy[m] \in Copy /\ disp[d].copy[m].retry <= MaxRetries
  BY <1>1, <1>2, OptionsAssumption DEF DispatcherState, RetryInv, Copy
<1>4. /\ copy \in Copy /\ copy.retry = disp[d].copy[m].retry + 1
      /\ copy.processed = disp[d].copy[m].processed /\ copy.retry \in Nat \ {0}
  BY <1>3, OptionsAssumption DEF Copy
<1>5. [disp[d] EXCEPT !.pc = "failing", !.copy[m] = copy] = told
  BY <1>1, <1>2, <1>3 DEF DispatcherState, Copy
<1>6. told \in DispatcherState
  BY <1>1, <1>2, <1>4, <1>5 DEF DispatcherState, Stages
<1> HIDE DEF copy
<1>7. /\ w \in Row /\ w.at = rows[m].at /\ w.lease = 0
      /\ w.retry = disp[d].copy[m].retry + 1
      /\ w.processed = disp[d].copy[m].processed /\ w.dead = IsDead(d)
  <2>1. IsDead(d) \in BOOLEAN
    BY DEF IsDead
  <2>2. backoff \in 0..BackoffMax
    BY <1>4, BackoffType, OptionsAssumption
  <2> HIDE DEF backoff
  <2>. QED
    BY <1>2, <1>4, <2>1, <2>2, WrittenType
<1>8. \/ Saves(m, w) /\ failures' = counted /\ disp' = [disp EXCEPT ![d] = Advanced(d)]
      \/ /\ \/ SavesUnheard(m, w) /\ failures' = counted
            \/ FailsToSave(m) /\ UNCHANGED failures
         /\ disp' = [disp EXCEPT ![d] =
                       IF disp[d].pc = "poisoned"
                       THEN [disp[d] EXCEPT !.pc = "failing", !.copy[m] = copy] ELSE Idle]
  BY DEF MarkAsFailedAsync, w, copy, backoff, counted
<1> HIDE DEF w, told, counted, copy
<1>9. \/ /\ rows' = [rows EXCEPT ![m] = w] /\ failures' = counted
         /\ disp' = [disp EXCEPT ![d] = Advanced(d)]
      \/ /\ \/ rows' = rows /\ failures' = failures
            \/ rows' = [rows EXCEPT ![m] = w] /\ failures' = counted
         /\ disp' = [disp EXCEPT ![d] = IF disp[d].pc = "poisoned" THEN told ELSE Idle]
  BY <1>8, <1>5 DEF Saves, SavesUnheard, FailsToSave
<1>10. faults' \in 0..MaxFaults /\ UNCHANGED <<redrive, published>>
  <2>1. faults' \in 0..MaxFaults
    BY <1>8, OptionsAssumption DEF Saves, SavesUnheard, FailsToSave, TypeOK
  <2>. QED
    BY <2>1 DEF MarkAsFailedAsync
<1>. QED
  BY <1>1, <1>2, <1>6, <1>7, <1>9, <1>10 DEF told, counted

\* No step takes a row, a copy or the loop's position out of its type.
LEMMA TypeStep ==
    ASSUME TypeOK, RetryInv, LoopInv, [Next]_vars
    PROVE  TypeOK' /\ RetryInv' /\ LoopInv'
<1> USE DEF TypeOK
<1>1. ASSUME NEW m \in Messages, AddAsync(m)
      PROVE  TypeOK' /\ RetryInv' /\ LoopInv'
  <2>1. rows[m].at = "unsent" /\ rows[m] \in Row
    BY <1>1 DEF AddAsync
  <2>2. TypeOK'
    BY <1>1, <2>1 DEF AddAsync, Row
  <2>3. RetryInv' /\ LoopInv'
    BY <1>1 DEF AddAsync, RetryInv, LoopInv, Row
  <2>. QED
    BY <2>2, <2>3
<1>2. ASSUME NEW d \in Dispatchers, ClaimBatchAsync(d)
      PROVE  TypeOK' /\ RetryInv' /\ LoopInv'
  <2> DEFINE claimed == Oldest({m \in Messages : Claimable(m)}, BatchSize)
  <2>1. claimed \subseteq Messages /\ \A m \in claimed : ~rows[m].dead
    BY DEF Oldest, Claimable
  <2> HIDE DEF claimed
  <2>2. rows' \in [Messages -> Row]
    BY <1>2, OptionsAssumption DEF ClaimBatchAsync, Row, claimed
  <2>3. disp'[d] \in DispatcherState
    <3>1. \A m \in Messages : rows[m].retry \in 0..(MaxRetries + 1)
      BY DEF Row
    <3>2. FreshCopy \in [Messages -> Copy]
      BY OptionsAssumption DEF FreshCopy, Copy
    <3>3. [m \in Messages |-> IF m \in claimed
                               THEN [retry |-> rows[m].retry, processed |-> FALSE]
                               ELSE FreshCopy[m]] \in [Messages -> Copy]
      BY <3>1, <3>2 DEF Copy
    <3>. QED
      BY <1>2, <2>1, <3>3 DEF ClaimBatchAsync, DispatcherState, Stages, claimed
  <2>4. TypeOK'
    BY <1>2, <2>2, <2>3 DEF ClaimBatchAsync
  <2>5. RetryInv'
    BY <1>2, <2>1 DEF ClaimBatchAsync, RetryInv, claimed
  <2>6. LoopInv'
    BY <1>2 DEF ClaimBatchAsync, LoopInv
  <2>. QED
    BY <2>4, <2>5, <2>6
<1>3. ASSUME NEW d \in Dispatchers, NEW m \in Messages, TakeNext(d, m)
      PROVE  TypeOK' /\ RetryInv' /\ LoopInv'
  <2>1. TypeOK'
    BY <1>3 DEF TakeNext, DispatcherState, Stages
  <2>2. RetryInv' /\ LoopInv'
    BY <1>3 DEF TakeNext, RetryInv, LoopInv, DispatcherState
  <2>. QED
    BY <2>1, <2>2
<1>4. ASSUME NEW d \in Dispatchers, PublishReturns(d)
      PROVE  TypeOK' /\ RetryInv' /\ LoopInv'
  <2>1. TypeOK'
    BY <1>4, SMTT(30) DEF PublishReturns, DispatcherState, Stages, LoopInv
  <2>2. RetryInv' /\ LoopInv'
    BY <1>4 DEF PublishReturns, RetryInv, LoopInv, DispatcherState
  <2>. QED
    BY <2>1, <2>2
<1>5. ASSUME NEW d \in Dispatchers, PublishThrows(d)
      PROVE  TypeOK' /\ RetryInv' /\ LoopInv'
  <2>1. TypeOK'
    BY <1>5 DEF PublishThrows, DispatcherState, Stages
  <2>2. RetryInv' /\ LoopInv'
    BY <1>5 DEF PublishThrows, RetryInv, LoopInv, DispatcherState
  <2>. QED
    BY <2>1, <2>2
<1>6. ASSUME NEW d \in Dispatchers, MarkAsProcessedAsync(d)
      PROVE  TypeOK' /\ RetryInv' /\ LoopInv'
  <2> DEFINE m == disp[d].cur
             told == [disp[d] EXCEPT !.pc = "failing", !.copy[m].processed = TRUE]
  <2>1. disp[d] \in DispatcherState
    OBVIOUS
  <2>2. /\ m \in Messages \ Poison /\ m \in disp[d].batch /\ disp[d].pc = "marking"
        /\ told \in DispatcherState
        /\ faults' \in 0..MaxFaults /\ UNCHANGED <<redrive, published, failures>>
    BY <1>6, MarkAsProcessedEffect
  <2>3. PICK w \in Row :
          /\ w.retry = disp[d].copy[m].retry /\ w.dead = FALSE
          /\ \/ /\ rows' = [rows EXCEPT ![m] = w]
                /\ disp' = [disp EXCEPT ![d] = Advanced(d)]
             \/ /\ rows' = rows \/ rows' = [rows EXCEPT ![m] = w]
                /\ disp' = [disp EXCEPT ![d] = told]
    BY <1>6, MarkAsProcessedEffect
  <2>4. disp[d].copy[m].retry < MaxRetries
    BY <2>2 DEF RetryInv
  <2>5. /\ told.pc = "failing" /\ told.cur = m /\ told.batch = disp[d].batch
        /\ \A k \in Messages : told.copy[k].retry = disp[d].copy[k].retry
    BY <2>1, <2>2 DEF DispatcherState, Copy
  <2>6. \A k \in disp[d].batch : disp[d].copy[k].retry < MaxRetries
    BY <2>2 DEF RetryInv
  <2> HIDE DEF told, m
  <2>7. \A k \in Messages : ~rows'[k].dead => rows'[k].retry < MaxRetries
    BY <2>2, <2>3, <2>4 DEF RetryInv
  <2>8. disp'[d] = Advanced(d) \/ disp'[d] = told
    BY <2>3
  <2>9. \A k \in disp'[d].batch : disp'[d].copy[k].retry < MaxRetries
    <3>1. CASE disp'[d] = Advanced(d)
      BY <3>1, <2>1, <2>6, AdvancedType
    <3>2. CASE disp'[d] = told
      BY <3>2, <2>1, <2>5, <2>6 DEF DispatcherState
    <3>. QED
      BY <2>8, <3>1, <3>2
  <2>10. \A e \in Dispatchers \ {d} : disp'[e] = disp[e]
    BY <2>3
  <2>11. RetryInv'
    BY <2>7, <2>9, <2>10 DEF RetryInv
  <2>12. LoopInv'
    BY <2>2, <2>5, <2>8, <2>10, AdvancedType DEF LoopInv
  <2>13. TypeOK'
    BY <2>2, <2>3, AdvancedType
  <2>. QED
    BY <2>11, <2>12, <2>13
<1>7. ASSUME NEW d \in Dispatchers, MarkAsFailedAsync(d)
      PROVE  TypeOK' /\ RetryInv' /\ LoopInv'
  <2> DEFINE m == disp[d].cur
             told == [disp[d] EXCEPT !.pc = "failing", !.copy[m].retry = @ + 1]
             counted == [failures EXCEPT ![m] = Smaller(@ + 1, MaxRetries)]
  <2>1. disp[d] \in DispatcherState
    OBVIOUS
  <2>2. /\ m \in Messages /\ m \in disp[d].batch /\ disp[d].pc \in {"poisoned", "failing"}
        /\ told \in DispatcherState
        /\ faults' \in 0..MaxFaults /\ UNCHANGED <<redrive, published>>
    BY <1>7, MarkAsFailedEffect
  <2>3. PICK w \in Row :
          /\ w.retry = disp[d].copy[m].retry + 1 /\ w.dead = IsDead(d)
          /\ \/ /\ rows' = [rows EXCEPT ![m] = w] /\ failures' = counted
                /\ disp' = [disp EXCEPT ![d] = Advanced(d)]
             \/ /\ \/ rows' = rows /\ failures' = failures
                   \/ rows' = [rows EXCEPT ![m] = w] /\ failures' = counted
                /\ disp' = [disp EXCEPT ![d] = IF disp[d].pc = "poisoned" THEN told ELSE Idle]
    BY <1>7, MarkAsFailedEffect
  <2>int. disp[d].copy[m].retry \in Int
    <3>1. disp[d].copy \in [Messages -> Copy]
      BY <2>1 DEF DispatcherState
    <3>. HIDE DEF m
    <3>2. disp[d].copy[m] \in Copy
      BY <2>2, <3>1
    <3>. QED
      BY <3>2, OptionsAssumption DEF Copy
  <2>4. counted \in [Messages -> 0..MaxRetries]
    BY <2>2, OptionsAssumption DEF Smaller
  <2>5. /\ told.pc = "failing" /\ told.cur = m /\ told.batch = disp[d].batch
        /\ \A k \in disp[d].batch \ {m} : told.copy[k].retry = disp[d].copy[k].retry
        /\ told.copy[m].retry = disp[d].copy[m].retry + 1
    <3>1. disp[d].copy \in [Messages -> Copy]
      BY <2>1 DEF DispatcherState
    <3>2. told.copy = [disp[d].copy EXCEPT ![m].retry = disp[d].copy[m].retry + 1]
      BY <2>1 DEF DispatcherState
    <3>3. told.pc = "failing" /\ told.cur = m /\ told.batch = disp[d].batch
      BY <2>1 DEF DispatcherState
    <3>4. \A k \in Messages \ {m} : told.copy[k] = disp[d].copy[k]
      BY <3>1, <3>2
    <3>5. told.copy[m].retry = disp[d].copy[m].retry + 1
      BY <2>2, <3>1, <3>2 DEF Copy
    <3>6. disp[d].batch \subseteq Messages
      BY <2>1 DEF DispatcherState
    <3>. QED
      BY <3>3, <3>4, <3>5, <3>6
  <2>6. ~w.dead => w.retry < MaxRetries
    <3>1. disp[d].copy[m].retry \in Int
      BY <2>int
    <3>2. ~IsDead(d) => disp[d].copy[m].retry + 1 < MaxRetries
      BY <3>1, OptionsAssumption DEF IsDead
    <3> HIDE DEF m
    <3>3. w.retry = disp[d].copy[m].retry + 1 /\ (w.dead <=> IsDead(d))
      BY <2>3
    <3>. QED
      BY <3>2, <3>3
  <2>7. \A k \in disp[d].batch \ {m} : disp[d].copy[k].retry < MaxRetries
    BY <2>2 DEF RetryInv
  <2>8. disp[d].pc = "poisoned" => /\ m \in Poison
                                   /\ told.copy[m].retry <= MaxRetries
    <3>1. disp[d].copy[m].retry \in Int
      BY <2>int
    <3>. QED
      BY <2>2, <2>5, <3>1, OptionsAssumption DEF LoopInv, RetryInv
  <2> HIDE DEF told, m, counted
  <2>9. \A k \in Messages : ~rows'[k].dead => rows'[k].retry < MaxRetries
    BY <2>2, <2>3, <2>6 DEF RetryInv
  <2>10. \/ disp'[d] = Advanced(d) \/ disp'[d] = Idle
         \/ disp'[d] = told /\ disp[d].pc = "poisoned"
    BY <2>3
  <2>11. \A e \in Dispatchers \ {d} : disp'[e] = disp[e]
    BY <2>3
  <2>12. \A k \in disp'[d].batch :
           \/ disp'[d].copy[k].retry < MaxRetries
           \/ /\ disp'[d].pc = "failing" /\ disp'[d].cur = k
              /\ k \in Poison /\ disp'[d].copy[k].retry = MaxRetries
    <3>1. CASE disp'[d] = Advanced(d)
      BY <3>1, <2>1, <2>7, AdvancedType DEF m
    <3>2. CASE disp'[d] = Idle
      BY <3>2 DEF Idle
    <3>3. CASE disp'[d] = told /\ disp[d].pc = "poisoned"
      <4>1. told.copy[m].retry \in Int
        BY <2>2 DEF DispatcherState, Copy
      <4>. QED
        BY <3>3, <4>1, <2>5, <2>7, <2>8, OptionsAssumption
    <3>. QED
      BY <2>10, <3>1, <3>2, <3>3
  <2>13. RetryInv'
    BY <2>9, <2>11, <2>12 DEF RetryInv
  <2>14. LoopInv'
    BY <2>2, <2>5, <2>10, <2>11, AdvancedType DEF LoopInv, Idle
  <2>15. TypeOK'
    BY <2>2, <2>3, <2>4, AdvancedType, IdleType
  <2>. QED
    BY <2>13, <2>14, <2>15
<1>8. ASSUME NEW d \in Dispatchers, Crash(d)
      PROVE  TypeOK' /\ RetryInv' /\ LoopInv'
  <2>1. TypeOK'
    BY <1>8, IdleType, OptionsAssumption DEF Crash
  <2>2. RetryInv' /\ LoopInv'
    BY <1>8 DEF Crash, RetryInv, LoopInv, Idle
  <2>. QED
    BY <2>1, <2>2
<1>9. ASSUME RedriveLoad
      PROVE  TypeOK' /\ RetryInv' /\ LoopInv'
  BY <1>9 DEF RedriveLoad, RetryInv, LoopInv
<1>10. ASSUME RedriveSave
       PROVE  TypeOK' /\ RetryInv' /\ LoopInv'
  <2>1. TypeOK'
    <3>1. ASSUME NEW m \in Messages
          PROVE  rows'[m] \in Row /\ failures'[m] \in 0..MaxRetries
      <4>1. rows[m] \in Row /\ 0 \in 0..(MaxRetries + 1) /\ 0 \in 0..MaxRetries
        BY OptionsAssumption
      <4>2. [rows[m] EXCEPT !.dead = FALSE, !.retry = 0] \in Row
        BY <4>1 DEF Row
      <4>3. failures'[m] \in {failures[m], 0}
        BY <1>10 DEF RedriveSave
      <4>4. rows'[m] \in {rows[m], [rows[m] EXCEPT !.dead = FALSE, !.retry = 0]}
        BY <1>10 DEF RedriveSave
      <4>. QED
        BY <4>1, <4>2, <4>3, <4>4
    <3>2. rows' = [m \in Messages |-> rows'[m]] /\ failures' = [m \in Messages |-> failures'[m]]
      BY <1>10 DEF RedriveSave
    <3>. QED
      BY <1>10, <3>1, <3>2 DEF RedriveSave
  <2>2. \A m \in Messages : rows'[m] = rows[m] \/ rows'[m].retry = 0
    <3> TAKE m \in Messages
    <3>1. rows[m] \in Row
      OBVIOUS
    <3>2. rows'[m] = rows[m] \/ rows'[m] = [rows[m] EXCEPT !.dead = FALSE, !.retry = 0]
      BY <1>10 DEF RedriveSave
    <3>. QED
      BY <3>1, <3>2 DEF Row
  <2>3. UNCHANGED disp
    BY <1>10 DEF RedriveSave
  <2>4. \A m \in Messages : ~rows'[m].dead => rows'[m].retry < MaxRetries
    BY <2>2, OptionsAssumption DEF RetryInv
  <2>5. RetryInv' /\ LoopInv'
    BY <2>3, <2>4 DEF RetryInv, LoopInv
  <2>. QED
    BY <2>1, <2>5
<1>11. ASSUME PurgeOutboxAsync
       PROVE  TypeOK' /\ RetryInv' /\ LoopInv'
  <2>1. TypeOK'
    BY <1>11 DEF PurgeOutboxAsync, Row
  <2>2. RetryInv' /\ LoopInv'
    BY <1>11 DEF PurgeOutboxAsync, RetryInv, LoopInv, Row
  <2>. QED
    BY <2>1, <2>2
<1>12. ASSUME Tick
       PROVE  TypeOK' /\ RetryInv' /\ LoopInv'
  <2>1. TypeOK'
    <3> SUFFICES ASSUME NEW m \in Messages PROVE rows'[m] \in Row
      BY <1>12 DEF Tick
    <3> DEFINE age == IF rows[m].processed THEN Smaller(rows[m].age + 1, Retention + 1)
                      ELSE rows[m].age
    <3>1. rows[m] \in Row
      OBVIOUS
    <3>2. Less(rows[m].backoff) \in 0..BackoffMax /\ Less(rows[m].lease) \in 0..Lease
      BY <3>1, OptionsAssumption DEF Row, Less
    <3>3. age \in 0..(Retention + 1)
      BY <3>1, OptionsAssumption DEF Row, Smaller
    <3>4. rows'[m] = [rows[m] EXCEPT !.backoff = Less(rows[m].backoff),
                                     !.lease = Less(rows[m].lease), !.age = age]
      BY <1>12 DEF Tick
    <3>. HIDE DEF age
    <3>. QED
      BY <3>1, <3>2, <3>3, <3>4 DEF Row
  <2>2. RetryInv' /\ LoopInv'
    <3>1. \A m \in Messages : rows'[m].dead = rows[m].dead /\ rows'[m].retry = rows[m].retry
      BY <1>12 DEF Tick, Row
    <3>. QED
      BY <1>12, <3>1 DEF Tick, RetryInv, LoopInv
  <2>. QED
    BY <2>1, <2>2

<1>13. CASE UNCHANGED vars
  BY <1>13 DEF vars, RetryInv, LoopInv
<1>. QED
  BY <1>1, <1>2, <1>3, <1>4, <1>5, <1>6, <1>7, <1>8, <1>9, <1>10, <1>11, <1>12, <1>13
     DEF Next, DispatcherStep

\* Nothing leaves the types of the outbox: the table, every dispatcher's loop,
\* the redrive in progress and the counters all keep theirs.
THEOREM TypeCorrect == Spec => []TypeOK
<1> DEFINE TInv == TypeOK /\ RetryInv /\ LoopInv
<1>1. Init => TInv
  BY TypeInit
<1>2. TInv /\ [Next]_vars => TInv'
  BY TypeStep
<1>. QED
  BY <1>1, <1>2, PTL DEF Spec

-----------------------------------------------------------------------------
(* What single steps leave alone. *)

\* Adding, claiming, purging and the clock leave a row's verdict alone.
LEMMA QuietRows ==
    ASSUME TypeOK,
           \/ \E m \in Messages : AddAsync(m)
           \/ \E d \in Dispatchers : ClaimBatchAsync(d)
           \/ PurgeOutboxAsync
           \/ Tick
    PROVE  /\ \A m \in Messages :
                /\ rows'[m].dead = rows[m].dead
                /\ rows'[m].processed = rows[m].processed
                /\ rows'[m].retry = rows[m].retry
                /\ rows'[m].at = "purged" => (rows[m].at = "purged" \/ rows[m].processed)
           /\ UNCHANGED <<redrive, published, failures>>
<1>1. \A m \in Messages : rows[m] \in Row
  BY DEF TypeOK
<1>2. CASE \E m \in Messages : AddAsync(m)
  BY <1>1, <1>2 DEF AddAsync, Row, TypeOK
<1>3. CASE \E d \in Dispatchers : ClaimBatchAsync(d)
  BY <1>1, <1>3 DEF ClaimBatchAsync, Row
<1>4. CASE PurgeOutboxAsync
  BY <1>1, <1>4 DEF PurgeOutboxAsync, Expired, Row
<1>5. CASE Tick
  BY <1>1, <1>5 DEF Tick, Row
<1>. QED
  BY <1>2, <1>3, <1>4, <1>5

\* What claiming does: a fresh copy of each row nobody has leased.
LEMMA ClaimEffect ==
    ASSUME TypeOK, NEW d \in Dispatchers, ClaimBatchAsync(d)
    PROVE  /\ \A e \in Dispatchers \ {d} : disp'[e] = disp[e]
           /\ disp'[d].pc = "next" /\ disp'[d].batch \subseteq Messages
           /\ \A m \in Messages : disp'[d].copy[m].processed = FALSE
           /\ \A m \in disp'[d].batch :
                /\ rows[m].dead = FALSE /\ rows[m].processed = FALSE /\ rows[m].lease = 0
                /\ rows'[m].lease = Lease /\ disp'[d].copy[m].retry = rows[m].retry
           /\ \A m \in Messages \ disp'[d].batch : rows'[m] = rows[m]
<1> DEFINE claimed == Oldest({m \in Messages : Claimable(m)}, BatchSize)
<1>1. claimed \subseteq Messages /\ \A m \in claimed : Claimable(m)
  BY DEF Oldest
<1>2. \A m \in claimed : rows[m].dead = FALSE /\ rows[m].processed = FALSE /\ rows[m].lease = 0
  BY <1>1 DEF Claimable, TypeOK, Row
<1> HIDE DEF claimed
<1>3. /\ \A e \in Dispatchers \ {d} : disp'[e] = disp[e]
      /\ disp'[d].pc = "next" /\ disp'[d].batch = claimed
      /\ disp'[d].copy = [m \in Messages |-> IF m \in claimed
                             THEN [retry |-> rows[m].retry, processed |-> FALSE]
                             ELSE FreshCopy[m]]
      /\ rows' = [m \in Messages |-> IF m \in claimed
                                     THEN [rows[m] EXCEPT !.lease = Lease] ELSE rows[m]]
  BY DEF ClaimBatchAsync, TypeOK, claimed
<1>4. \A m \in Messages : disp'[d].copy[m].processed = FALSE
  BY <1>3 DEF FreshCopy
<1>5. \A m \in claimed : rows'[m].lease = Lease /\ disp'[d].copy[m].retry = rows[m].retry
  BY <1>1, <1>3 DEF TypeOK, Row
<1>. QED
  BY <1>1, <1>2, <1>3, <1>4, <1>5

\* A redrive touches the rows it loaded and no other.
LEMMA RedriveEffect ==
    ASSUME TypeOK, RedriveSave
    PROVE  /\ \A m \in Messages :
                /\ rows'[m].processed = rows[m].processed
                /\ rows'[m].at = rows[m].at
                /\ rows'[m] = rows[m] \/ (m \in redrive /\ rows'[m].retry = 0)
                /\ rows'[m].dead => rows[m].dead
                /\ m \notin redrive => rows'[m] = rows[m] /\ failures'[m] = failures[m]
                /\ failures'[m] # failures[m] => rows'[m].dead = FALSE /\ rows'[m].retry = 0
           /\ redrive' = {} /\ UNCHANGED <<disp, published>>
<1>1. /\ \/ rows' = rows /\ failures' = failures
         \/ /\ rows' = [m \in Messages |-> IF m \in redrive
                          THEN [rows[m] EXCEPT !.dead = FALSE, !.retry = 0] ELSE rows[m]]
            /\ failures' = [m \in Messages |-> IF m \in redrive /\ rows[m].dead
                                               THEN 0 ELSE failures[m]]
      /\ redrive' = {} /\ UNCHANGED <<disp, published>>
  BY DEF RedriveSave
<1>2. CASE rows' = rows /\ failures' = failures
  BY <1>1, <1>2
<1>3. CASE /\ rows' = [m \in Messages |-> IF m \in redrive
                         THEN [rows[m] EXCEPT !.dead = FALSE, !.retry = 0] ELSE rows[m]]
           /\ failures' = [m \in Messages |-> IF m \in redrive /\ rows[m].dead
                                              THEN 0 ELSE failures[m]]
  <2> SUFFICES ASSUME NEW m \in Messages
      PROVE  /\ rows'[m].processed = rows[m].processed
             /\ rows'[m].at = rows[m].at
             /\ rows'[m] = rows[m] \/ (m \in redrive /\ rows'[m].retry = 0)
             /\ rows'[m].dead => rows[m].dead
             /\ m \notin redrive => rows'[m] = rows[m] /\ failures'[m] = failures[m]
             /\ failures'[m] # failures[m] => rows'[m].dead = FALSE /\ rows'[m].retry = 0
    BY <1>1
  <2>1. rows[m] \in Row
    BY DEF TypeOK
  <2>2. CASE m \notin redrive
    BY <1>3, <2>2
  <2>3. CASE m \in redrive
    <3>1. rows'[m] = [rows[m] EXCEPT !.dead = FALSE, !.retry = 0]
      BY <1>3, <2>3
    <3>2. /\ rows'[m].processed = rows[m].processed /\ rows'[m].at = rows[m].at
          /\ rows'[m].dead = FALSE /\ rows'[m].retry = 0
      BY <2>1, <3>1 DEF Row
    <3>. QED
      BY <2>3, <3>2
  <2>. QED
    BY <2>2, <2>3
<1>. QED
  BY <1>1, <1>2, <1>3

-----------------------------------------------------------------------------
(* Nothing is dropped. *)

\* No step marks a row or a copy processed, or purges a row, before the bus has
\* taken its message, and nothing leaves published.
LEMMA PublishedStep ==
    ASSUME TypeOK, RetryInv, LoopInv, PublishedInv, [Next]_vars
    PROVE  PublishedInv'
<1> USE DEF PublishedInv, ProcessedWasPublished
<1>1. CASE \/ \E m \in Messages : AddAsync(m)
           \/ PurgeOutboxAsync
           \/ Tick
  <2>1. UNCHANGED disp
    BY <1>1 DEF AddAsync, PurgeOutboxAsync, Tick
  <2>. QED
    BY <1>1, <2>1, QuietRows
<1>2. ASSUME NEW d \in Dispatchers, ClaimBatchAsync(d)
      PROVE  PublishedInv'
  BY <1>2, QuietRows, ClaimEffect
<1>3. ASSUME NEW d \in Dispatchers, NEW m \in Messages, TakeNext(d, m)
      PROVE  PublishedInv'
  BY <1>3 DEF TakeNext, TypeOK, DispatcherState
<1>4. ASSUME NEW d \in Dispatchers, PublishReturns(d)
      PROVE  PublishedInv'
  BY <1>4 DEF PublishReturns, TypeOK, DispatcherState, LoopInv
<1>5. ASSUME NEW d \in Dispatchers, PublishThrows(d)
      PROVE  PublishedInv'
  BY <1>5 DEF PublishThrows, TypeOK, DispatcherState
<1>6. ASSUME NEW d \in Dispatchers, MarkAsProcessedAsync(d)
      PROVE  PublishedInv'
  <2> DEFINE m == disp[d].cur
             told == [disp[d] EXCEPT !.pc = "failing", !.copy[m].processed = TRUE]
  <2>1. m \in Messages /\ m \in published /\ UNCHANGED published
    BY <1>6, MarkAsProcessedEffect
  <2>2. PICK w \in Row :
          /\ w.at = rows[m].at
          /\ rows' = rows \/ rows' = [rows EXCEPT ![m] = w]
          /\ \/ disp' = [disp EXCEPT ![d] = Advanced(d)]
             \/ disp' = [disp EXCEPT ![d] = told]
    BY <1>6, MarkAsProcessedEffect
  <2>3. told.pc = "failing" /\ \A k \in Messages : told.copy[k].processed =>
                                  k = m \/ disp[d].copy[k].processed
    BY <2>1 DEF TypeOK, DispatcherState, Copy
  <2> HIDE DEF told, m
  <2>4. \A k \in Messages : rows'[k].processed \/ rows'[k].at = "purged" => k \in published
    BY <2>1, <2>2 DEF TypeOK
  <2>5. disp'[d] = Advanced(d) \/ disp'[d] = told
    BY <2>2 DEF TypeOK
  <2>6. \A e \in Dispatchers \ {d} : disp'[e] = disp[e]
    BY <2>2 DEF TypeOK
  <2>7. disp'[d].pc # "marking" /\ \A k \in Messages : disp'[d].copy[k].processed => k \in published
    BY <2>1, <2>3, <2>5, AdvancedType
  <2>. QED
    BY <2>1, <2>4, <2>6, <2>7
<1>7. ASSUME NEW d \in Dispatchers, MarkAsFailedAsync(d)
      PROVE  PublishedInv'
  <2> DEFINE m == disp[d].cur
             told == [disp[d] EXCEPT !.pc = "failing", !.copy[m].retry = @ + 1]
  <2>1. m \in Messages /\ UNCHANGED published
    BY <1>7, MarkAsFailedEffect
  <2>2. PICK w \in Row :
          /\ w.at = rows[m].at /\ w.processed = disp[d].copy[m].processed
          /\ rows' = rows \/ rows' = [rows EXCEPT ![m] = w]
          /\ \/ disp' = [disp EXCEPT ![d] = Advanced(d)]
             \/ disp' = [disp EXCEPT ![d] = IF disp[d].pc = "poisoned" THEN told ELSE Idle]
    BY <1>7, MarkAsFailedEffect
  <2>3. told.pc = "failing" /\ \A k \in Messages :
          told.copy[k].processed => disp[d].copy[k].processed
    BY <2>1 DEF TypeOK, DispatcherState, Copy
  <2> HIDE DEF told, m
  <2>4. \A k \in Messages : rows'[k].processed \/ rows'[k].at = "purged" => k \in published
    BY <2>1, <2>2 DEF TypeOK
  <2>5. disp'[d] = Advanced(d) \/ disp'[d] = told \/ disp'[d] = Idle
    BY <2>2 DEF TypeOK
  <2>6. \A e \in Dispatchers \ {d} : disp'[e] = disp[e]
    BY <2>2 DEF TypeOK
  <2>7. disp'[d].pc # "marking" /\ \A k \in Messages : disp'[d].copy[k].processed => k \in published
    BY <2>3, <2>5, AdvancedType DEF Idle, FreshCopy
  <2>. QED
    BY <2>1, <2>4, <2>6, <2>7
<1>8. ASSUME NEW d \in Dispatchers, Crash(d)
      PROVE  PublishedInv'
  BY <1>8 DEF Crash, TypeOK, Idle, FreshCopy
<1>9. CASE RedriveLoad
  BY <1>9 DEF RedriveLoad
<1>10. CASE RedriveSave
  BY <1>10, RedriveEffect
<1>11. CASE UNCHANGED vars
  BY <1>11 DEF vars
<1>. QED
  BY <1>1, <1>2, <1>3, <1>4, <1>5, <1>6, <1>7, <1>8, <1>9, <1>10, <1>11
     DEF Next, DispatcherStep

\* Whatever is processed, or deleted by retention, was accepted by the bus.
THEOREM NothingIsDropped == Spec => []ProcessedWasPublished
<1> DEFINE Inv == TypeOK /\ RetryInv /\ LoopInv /\ PublishedInv
<1>1. Init => Inv
  <2>1. Init => PublishedInv
    BY DEF Init, PublishedInv, ProcessedWasPublished, Idle, FreshCopy
  <2>. QED
    BY <2>1, TypeInit
<1>2. Inv /\ [Next]_vars => Inv'
  BY TypeStep, PublishedStep
<1>3. Inv => ProcessedWasPublished
  BY DEF PublishedInv
<1>. QED
  BY <1>1, <1>2, <1>3, PTL DEF Spec

-----------------------------------------------------------------------------
(* Leases and the retry budget, where batches end before their leases do. *)

\* While leases hold, two batches share poison messages at most, whoever works
\* on a row keeps it claimed, and no row dies before its budget is spent.
LEMMA ExclusionStep ==
    ASSUME TypeOK, RetryInv, LoopInv, PublishedInv, Exclusion, LeaseHolds, [Next]_vars
    PROVE  Exclusion'
<1>0. Held /\ Apart /\ WithinBudget /\ Exhausted
  BY DEF Exclusion
<1>a. \A d \in Dispatchers : \A m \in disp[d].batch \ Poison :
        m \in Messages /\ m \in Ordinary /\ m \notin redrive
  BY <1>0 DEF TypeOK, DispatcherState, Held, WithinBudget, Ordinary
\* Rows keep their verdicts and leases, and dispatchers their batches.
<1>b. ASSUME UNCHANGED <<disp, redrive, failures>>,
             \A m \in Messages : /\ rows'[m].dead = rows[m].dead
                                 /\ rows'[m].processed = rows[m].processed
                                 /\ rows'[m].retry = rows[m].retry,
             \A d \in Dispatchers : \A m \in disp[d].batch \ Poison :
               rows[m].lease > 0 => rows'[m].lease > 0
      PROVE  Exclusion'
  <2>1. Held' /\ Apart'
    BY <1>0, <1>a, <1>b DEF Held, Apart
  <2>2. WithinBudget'
    BY <1>0, <1>b DEF WithinBudget, Ordinary, TypeOK
  <2>3. Exhausted'
    BY <1>0, <1>b DEF Exhausted
  <2>. QED
    BY <2>1, <2>2, <2>3 DEF Exclusion
<1>1. ASSUME NEW k \in Messages, AddAsync(k)
      PROVE  Exclusion'
  <2>1. \A m \in Messages : rows'[m].lease = rows[m].lease
    BY <1>1 DEF AddAsync, TypeOK, Row
  <2>2. UNCHANGED disp
    BY <1>1 DEF AddAsync
  <2>. QED
    BY <1>1, <1>a, <1>b, <2>1, <2>2, QuietRows
<1>2. ASSUME NEW d \in Dispatchers, ClaimBatchAsync(d)
      PROVE  Exclusion'
  <2>0. /\ \A e \in Dispatchers \ {d} : disp'[e] = disp[e]
        /\ disp'[d].pc = "next" /\ disp'[d].batch \subseteq Messages
        /\ \A m \in disp'[d].batch :
             /\ rows[m].dead = FALSE /\ rows[m].processed = FALSE /\ rows[m].lease = 0
             /\ rows'[m].lease = Lease /\ disp'[d].copy[m].retry = rows[m].retry
        /\ \A m \in Messages \ disp'[d].batch : rows'[m] = rows[m]
    BY <1>2, ClaimEffect
  <2>a. /\ \A m \in Messages : /\ rows'[m].dead = rows[m].dead
                               /\ rows'[m].processed = rows[m].processed
                               /\ rows'[m].retry = rows[m].retry
        /\ UNCHANGED <<redrive, failures>>
    BY <1>2, QuietRows
  <2>1. \A e \in Dispatchers \ {d} : (disp[e].batch \ Poison) \cap disp'[d].batch = {}
    <3> SUFFICES ASSUME NEW e \in Dispatchers \ {d}, NEW m \in disp[e].batch \ Poison,
                        m \in disp'[d].batch
                 PROVE  FALSE
      OBVIOUS
    <3>1. rows[m].lease = 0 /\ rows[m].processed = FALSE
      BY <2>0
    <3>2. rows[m].lease > 0 \/ rows[m].processed
      BY <1>0 DEF Held
    <3>. QED
      BY <3>1, <3>2
  <2>2. Held'
    <3>1. \A m \in disp'[d].batch : rows'[m].lease > 0 /\ ~rows'[m].processed /\ ~rows'[m].dead
      BY <2>0, <2>a, OptionsAssumption
    <3>2. \A e \in Dispatchers \ {d} : \A m \in disp[e].batch \ Poison : rows'[m] = rows[m]
      BY <1>a, <2>0, <2>1
    <3>. QED
      BY <1>0, <2>0, <3>1, <3>2 DEF Held
  <2>3. Apart'
    BY <1>0, <2>0, <2>1 DEF Apart
  <2>4. WithinBudget'
    BY <1>0, <2>0, <2>a DEF WithinBudget, Ordinary, TypeOK
  <2>5. Exhausted'
    BY <1>0, <2>a DEF Exhausted
  <2>. QED
    BY <2>2, <2>3, <2>4, <2>5 DEF Exclusion
\* A dispatcher moves within its batch, and no row changes.
<1>c. ASSUME NEW d \in Dispatchers, UNCHANGED <<rows, redrive, failures>>,
             \A e \in Dispatchers \ {d} : disp'[e] = disp[e],
             \/ disp'[d].batch = {}
             \/ /\ disp'[d].batch = disp[d].batch /\ disp'[d].copy = disp[d].copy
                /\ disp[d].pc # "failing"
      PROVE  Exclusion'
  <2>1. Held'
    BY <1>0, <1>c DEF Held
  <2>2. Apart'
    BY <1>0, <1>c DEF Apart
  <2>3. WithinBudget'
    BY <1>0, <1>c DEF WithinBudget
  <2>4. Exhausted'
    BY <1>0, <1>c DEF Exhausted
  <2>. QED
    BY <2>1, <2>2, <2>3, <2>4 DEF Exclusion
<1>3. ASSUME NEW d \in Dispatchers, NEW k \in Messages, TakeNext(d, k)
      PROVE  Exclusion'
  BY <1>3, <1>c DEF TakeNext, TypeOK, DispatcherState
<1>4. ASSUME NEW d \in Dispatchers, PublishReturns(d)
      PROVE  Exclusion'
  BY <1>4, <1>c DEF PublishReturns, TypeOK, DispatcherState
<1>5. ASSUME NEW d \in Dispatchers, PublishThrows(d)
      PROVE  Exclusion'
  BY <1>5, <1>c DEF PublishThrows, TypeOK, DispatcherState
<1>6. ASSUME NEW d \in Dispatchers, MarkAsProcessedAsync(d)
      PROVE  Exclusion'
  <2> DEFINE m == disp[d].cur
             told == [disp[d] EXCEPT !.pc = "failing", !.copy[m].processed = TRUE]
  <2>1. /\ m \in Messages \ Poison /\ m \in disp[d].batch /\ disp[d].pc = "marking"
        /\ UNCHANGED <<redrive, published, failures>>
    BY <1>6, MarkAsProcessedEffect
  <2>2. PICK w \in Row :
          /\ w.retry = disp[d].copy[m].retry /\ w.processed = TRUE /\ w.dead = FALSE
          /\ \/ /\ rows' = [rows EXCEPT ![m] = w]
                /\ disp' = [disp EXCEPT ![d] = Advanced(d)]
             \/ /\ rows' = rows \/ rows' = [rows EXCEPT ![m] = w]
                /\ disp' = [disp EXCEPT ![d] = told]
    BY <1>6, MarkAsProcessedEffect
  <2>3. /\ told.pc = "failing" /\ told.cur = m /\ told.batch = disp[d].batch
        /\ told.copy[m].processed = TRUE
        /\ \A k \in Messages : told.copy[k].retry = disp[d].copy[k].retry
    BY <2>1 DEF TypeOK, DispatcherState, Copy
  <2>a. /\ Advanced(d).batch = disp[d].batch \ {m}
        /\ \A k \in Advanced(d).batch : Advanced(d).copy[k] = disp[d].copy[k]
    BY AdvancedType
  <2>4. disp[d].batch \subseteq Messages
    BY DEF TypeOK, DispatcherState
  <2> HIDE DEF told, m
  <2>5. disp'[d] = Advanced(d) \/ disp'[d] = told
    BY <2>2 DEF TypeOK
  <2>6. \A e \in Dispatchers \ {d} : disp'[e] = disp[e]
    BY <2>2 DEF TypeOK
  <2>7. /\ \A k \in Messages \ {m} : rows'[k] = rows[k]
        /\ rows'[m] = rows[m] \/ rows'[m] = w
    BY <2>1, <2>2 DEF TypeOK
  <2>8. Apart'
    BY <1>0, <2>3, <2>5, <2>6, <2>a DEF Apart
  <2>9. \A e \in Dispatchers \ {d} : \A k \in disp[e].batch \ Poison : rows'[k] = rows[k]
    BY <1>0, <1>a, <2>1, <2>7 DEF Apart
  <2>10. \A k \in disp[d].batch \ Poison : rows[k].lease > 0 /\ ~rows[k].processed /\ ~rows[k].dead
    BY <1>0, <2>1 DEF Held
  <2>11. \A k \in disp'[d].batch \ Poison :
            /\ ~rows'[k].dead
            /\ \/ rows'[k].lease > 0 /\ ~rows'[k].processed
               \/ /\ rows'[k].processed
                  /\ disp'[d].pc = "failing" /\ disp'[d].cur = k /\ disp'[d].copy[k].processed
    <3>1. CASE disp'[d] = Advanced(d)
      BY <3>1, <2>4, <2>7, <2>10, <2>a
    <3>2. CASE disp'[d] = told
      BY <3>2, <2>2, <2>3, <2>4, <2>7, <2>10
    <3>. QED
      BY <2>5, <3>1, <3>2
  <2>12. Held'
    BY <1>0, <2>6, <2>9, <2>11 DEF Held
  <2>13. \A k \in disp'[d].batch \ Poison : disp'[d].copy[k].retry <= failures[k]
    BY <1>0, <2>3, <2>4, <2>5, <2>a DEF WithinBudget
  <2>14. m \notin redrive /\ m \in Ordinary
    BY <1>a, <2>1
  <2>15. \A k \in Ordinary : rows'[k].retry <= failures[k]
    BY <1>0, <2>1, <2>2, <2>7 DEF WithinBudget, Ordinary
  <2>16. WithinBudget'
    BY <1>0, <2>1, <2>6, <2>7, <2>13, <2>14, <2>15 DEF TypeOK, WithinBudget
  <2>17. Exhausted'
    BY <1>0, <2>1, <2>2, <2>7 DEF Exhausted
  <2>. QED
    BY <2>8, <2>12, <2>16, <2>17 DEF Exclusion
<1>7. ASSUME NEW d \in Dispatchers, MarkAsFailedAsync(d)
      PROVE  Exclusion'
  <2> DEFINE m == disp[d].cur
             told == [disp[d] EXCEPT !.pc = "failing", !.copy[m].retry = @ + 1]
             counted == [failures EXCEPT ![m] = Smaller(@ + 1, MaxRetries)]
  <2>1. /\ m \in Messages /\ m \in disp[d].batch /\ disp[d].pc \in {"poisoned", "failing"}
        /\ UNCHANGED <<redrive, published>>
    BY <1>7, MarkAsFailedEffect
  <2>2. PICK w \in Row :
          /\ w.retry = disp[d].copy[m].retry + 1 /\ w.dead = IsDead(d)
          /\ \/ /\ rows' = [rows EXCEPT ![m] = w] /\ failures' = counted
                /\ disp' = [disp EXCEPT ![d] = Advanced(d)]
             \/ /\ \/ rows' = rows /\ failures' = failures
                   \/ rows' = [rows EXCEPT ![m] = w] /\ failures' = counted
                /\ disp' = [disp EXCEPT ![d] = IF disp[d].pc = "poisoned" THEN told ELSE Idle]
    BY <1>7, MarkAsFailedEffect
  <2>3. /\ told.pc = "failing" /\ told.cur = m /\ told.batch = disp[d].batch
        /\ \A k \in Messages \ {m} : told.copy[k] = disp[d].copy[k]
    BY <2>1 DEF TypeOK, DispatcherState, Copy
  <2>a. /\ Advanced(d).batch = disp[d].batch \ {m}
        /\ \A k \in Advanced(d).batch : Advanced(d).copy[k] = disp[d].copy[k]
    BY AdvancedType
  <2>4. /\ disp[d].batch \subseteq Messages /\ disp[d].copy[m].retry \in Nat
        /\ failures[m] \in 0..MaxRetries
    BY <2>1, OptionsAssumption DEF TypeOK, DispatcherState, Copy
  <2>5. counted[m] = Smaller(failures[m] + 1, MaxRetries)
        /\ \A k \in Messages \ {m} : counted[k] = failures[k]
    BY <2>1 DEF TypeOK
  <2>6. disp[d].pc = "poisoned" => m \in Poison
    BY DEF LoopInv
  <2>7. ASSUME m \notin Poison
        PROVE  /\ disp[d].copy[m].retry + 1 <= counted[m] /\ ~rows[m].dead /\ m \notin redrive
               /\ w.dead => counted[m] = MaxRetries
    <3>1. disp[d].copy[m].retry < MaxRetries /\ disp[d].copy[m].retry <= failures[m]
      BY <1>0, <2>1, <2>7 DEF RetryInv, WithinBudget
    <3>2. IsDead(d) => disp[d].copy[m].retry + 1 >= MaxRetries
      BY <2>6, <2>7 DEF IsDead
    <3>3. ~rows[m].dead /\ m \notin redrive
      BY <1>0, <1>a, <2>1, <2>7 DEF Held
    <3>6. w.dead <=> IsDead(d)
      BY <2>2
    <3> HIDE DEF m, counted
    <3>4. disp[d].copy[m].retry + 1 <= counted[m]
      BY <2>4, <2>5, <3>1, OptionsAssumption DEF Smaller
    <3>5. IsDead(d) => counted[m] = MaxRetries
      BY <2>4, <2>5, <3>1, <3>2, OptionsAssumption DEF Smaller
    <3>. QED
      BY <3>3, <3>4, <3>5, <3>6
  <2> HIDE DEF told, counted, m
  <2>8. counted[m] >= failures[m] /\ counted[m] \in Int
    BY <2>4, <2>5, OptionsAssumption DEF Smaller
  <2>9. disp'[d] = Advanced(d) \/ disp'[d] = Idle \/ (disp'[d] = told /\ m \in Poison)
    BY <2>2, <2>6 DEF TypeOK
  <2>10. \A e \in Dispatchers \ {d} : disp'[e] = disp[e]
    BY <2>2 DEF TypeOK
  <2>11. /\ \A k \in Messages \ {m} : rows'[k] = rows[k] /\ failures'[k] = failures[k]
         /\ \/ rows'[m] = rows[m] /\ failures'[m] = failures[m]
            \/ rows'[m] = w /\ failures'[m] = counted[m]
    BY <2>1, <2>2, <2>5 DEF TypeOK
  <2>12. Apart'
    BY <1>0, <2>3, <2>9, <2>10, <2>a DEF Apart, Idle
  <2>13. \A k \in disp'[d].batch \ Poison :
            k # m /\ k \in disp[d].batch /\ disp'[d].copy[k] = disp[d].copy[k]
    <3>1. disp'[d].batch = {} \/ disp'[d] = Advanced(d) \/ (disp'[d] = told /\ m \in Poison)
      BY <2>9 DEF Idle
    <3>. QED
      BY <2>3, <2>4, <2>a, <3>1
  <2>14. Held'
    <3>1. \A e \in Dispatchers \ {d} : \A k \in disp[e].batch \ Poison : rows'[k] = rows[k]
      BY <1>0, <1>a, <2>1, <2>11 DEF Apart
    <3>2. \A k \in disp'[d].batch \ Poison :
            rows'[k] = rows[k] /\ rows[k].lease > 0 /\ ~rows[k].processed /\ ~rows[k].dead
      BY <1>0, <2>4, <2>11, <2>13 DEF Held, m
    <3>. QED
      BY <1>0, <2>10, <3>1, <3>2 DEF Held
  <2>15. WithinBudget'
    <3>1. \A k \in Ordinary : rows'[k].retry <= failures'[k]
      BY <1>0, <2>2, <2>7, <2>11 DEF WithinBudget, Ordinary
    <3>2. \A k \in Messages : failures'[k] >= failures[k] /\ failures[k] \in Int /\ failures'[k] \in Int
      BY <2>8, <2>11 DEF TypeOK
    <3>3. \A e \in Dispatchers : \A k \in disp[e].batch \ Poison : disp[e].copy[k].retry \in Int
      BY <1>a DEF TypeOK, DispatcherState, Copy
    <3>4. \A e \in Dispatchers : \A k \in disp[e].batch \ Poison :
            disp[e].copy[k].retry <= failures'[k]
      BY <1>0, <1>a, <3>2, <3>3 DEF WithinBudget
    <3>5. \A e \in Dispatchers : \A k \in disp'[e].batch \ Poison :
            disp'[e].copy[k].retry <= failures'[k]
      BY <2>10, <2>13, <3>4
    <3>6. \A k \in redrive' \ Poison : rows'[k].dead
      BY <1>0, <2>1, <2>7, <2>11 DEF TypeOK, WithinBudget
    <3>. QED
      BY <3>1, <3>5, <3>6 DEF WithinBudget
  <2>16. Exhausted'
    BY <1>0, <2>2, <2>7, <2>11 DEF Exhausted
  <2>. QED
    BY <2>12, <2>14, <2>15, <2>16 DEF Exclusion
<1>8. ASSUME NEW d \in Dispatchers, Crash(d)
      PROVE  Exclusion'
  BY <1>8, <1>c DEF Crash, TypeOK, Idle
<1>9. CASE RedriveLoad
  <2>1. UNCHANGED <<rows, disp, failures>> /\ \A m \in redrive' : rows[m].dead
    BY <1>9 DEF RedriveLoad
  <2>2. Held' /\ Apart'
    BY <1>0, <2>1 DEF Held, Apart
  <2>3. WithinBudget' /\ Exhausted'
    BY <1>0, <2>1 DEF WithinBudget, Exhausted
  <2>. QED
    BY <2>2, <2>3 DEF Exclusion
<1>10. CASE RedriveSave
  <2>1. /\ \A m \in Messages :
             /\ rows'[m] = rows[m] \/ (m \in redrive /\ rows'[m].retry = 0)
             /\ rows'[m].dead => rows[m].dead
             /\ m \notin redrive => rows'[m] = rows[m] /\ failures'[m] = failures[m]
             /\ failures'[m] # failures[m] => rows'[m].dead = FALSE /\ rows'[m].retry = 0
        /\ redrive' = {} /\ UNCHANGED disp
    BY <1>10, RedriveEffect
  <2>2. Held' /\ Apart'
    BY <1>0, <1>a, <2>1 DEF Held, Apart
  <2>3. \A m \in Ordinary : rows'[m].retry <= failures'[m]
    <3> SUFFICES ASSUME NEW m \in Ordinary PROVE rows'[m].retry <= failures'[m]
      OBVIOUS
    <3>1. failures'[m] \in Nat
      <4>1. failures' \in [Messages -> 0..MaxRetries]
        BY <1>10, TypeStep DEF Next, TypeOK
      <4>. QED
        BY <4>1 DEF Ordinary
    <3>2. rows[m].retry <= failures[m] /\ m \in Messages
      BY <1>0 DEF WithinBudget, Ordinary
    <3>. QED
      BY <2>1, <3>1, <3>2
  <2>4. WithinBudget'
    BY <1>0, <1>a, <2>1, <2>3 DEF WithinBudget
  <2>5. Exhausted'
    BY <1>0, <2>1 DEF Exhausted
  <2>. QED
    BY <2>2, <2>4, <2>5 DEF Exclusion
<1>11. CASE PurgeOutboxAsync
  <2>1. \A m \in Messages : rows'[m].lease = rows[m].lease
    BY <1>11 DEF PurgeOutboxAsync, TypeOK, Row
  <2>2. UNCHANGED disp
    BY <1>11 DEF PurgeOutboxAsync
  <2>. QED
    BY <1>11, <1>a, <1>b, <2>1, <2>2, QuietRows
<1>12. CASE Tick
  <2>1. \A d \in Dispatchers : \A m \in disp[d].batch \ Poison :
          rows[m].lease > 0 => rows'[m].lease > 0
    <3> SUFFICES ASSUME NEW d \in Dispatchers, NEW m \in disp[d].batch \ Poison, rows[m].lease > 0
                 PROVE  rows'[m].lease > 0
      OBVIOUS
    <3>1. rows[m] \in Row /\ m \in Messages
      BY <1>a DEF TypeOK
    <3>2. rows[m].lease \in Nat
      BY <3>1, OptionsAssumption DEF Row
    <3>3. rows[m].lease # 1
      BY <1>12 DEF Tick
    <3>4. rows'[m].lease = Less(rows[m].lease)
      BY <1>12, <3>1 DEF Tick, Row
    <3>. QED
      BY <3>2, <3>3, <3>4 DEF Less
  <2>2. UNCHANGED disp
    BY <1>12 DEF Tick
  <2>. QED
    BY <1>12, <1>b, <2>1, <2>2, QuietRows
<1>13. CASE UNCHANGED vars
  <2>1. UNCHANGED <<rows, disp, redrive, failures>>
    BY <1>13 DEF vars
  <2>. QED
    BY <1>b, <2>1
<1>. QED
  BY <1>1, <1>2, <1>3, <1>4, <1>5, <1>6, <1>7, <1>8, <1>9, <1>10, <1>11, <1>12, <1>13
     DEF Next, DispatcherStep

\* IInv is inductive.
LEMMA Inductive ==
    /\ Init => IInv
    /\ IInv /\ [Next]_vars => IInv'
<1>1. Init => IInv
  <2> SUFFICES ASSUME Init PROVE IInv
    OBVIOUS
  <2>1. PublishedInv
    BY DEF Init, PublishedInv, ProcessedWasPublished, Idle, FreshCopy
  <2>2. Exclusion
    BY DEF Init, Idle, Exclusion, Held, Apart, WithinBudget, Exhausted, Ordinary
  <2>. QED
    BY <2>1, <2>2, TypeInit DEF IInv
<1>2. ASSUME IInv, [Next]_vars PROVE IInv'
  <2>1. TypeOK /\ RetryInv /\ LoopInv /\ PublishedInv
    BY <1>2 DEF IInv
  <2>2. TypeOK' /\ RetryInv' /\ LoopInv'
    BY <1>2, <2>1, TypeStep
  <2>3. PublishedInv'
    BY <1>2, <2>1, PublishedStep
  <2>4. ASSUME LeaseHolds PROVE Exclusion'
    BY <1>2, <2>1, <2>4, ExclusionStep DEF IInv
  <2>. QED
    BY <2>2, <2>3, <2>4 DEF IInv
<1>. QED
  BY <1>1, <1>2

\* IInv holds in every state.
LEMMA InvariantHolds == Spec => []IInv
BY Inductive, PTL DEF Spec

\* Where leases outlast batches, no two instances hold one publishable message.
THEOREM OnePublisherHolds == Spec => []OnePublisher
<1>1. IInv => OnePublisher
  BY DEF IInv, Exclusion, Apart, OnePublisher
<1>. QED
  BY <1>1, InvariantHolds, PTL

\* Where leases outlast batches, only an exhausted budget kills a row.
THEOREM DeadIsExhaustedHolds == Spec => []DeadIsExhausted
<1>1. IInv => DeadIsExhausted
  BY DEF IInv, Exclusion, Exhausted, DeadIsExhausted
<1>. QED
  BY <1>1, InvariantHolds, PTL

\* Where leases outlast batches, a processed row stays processed: whoever saves
\* the row again holds the copy it marked processed itself.
THEOREM ProcessedIsFinalHolds == Spec => ProcessedIsFinal
<1> DEFINE Kept == LeaseHolds => \A m \in Messages : rows[m].processed => rows'[m].processed
<1>1. ASSUME IInv, [Next]_vars PROVE Kept
  <2> SUFFICES ASSUME LeaseHolds, NEW m \in Messages, rows[m].processed
               PROVE  rows'[m].processed
    OBVIOUS
  <2>0. TypeOK /\ RetryInv /\ LoopInv /\ PublishedInv /\ Held
    BY <1>1 DEF IInv, Exclusion
  <2>1. m \notin Poison
    BY <2>0 DEF PublishedInv, ProcessedWasPublished
  <2>2. CASE \/ \E k \in Messages : AddAsync(k)
             \/ \E d \in Dispatchers : ClaimBatchAsync(d)
             \/ PurgeOutboxAsync
             \/ Tick
    BY <2>0, <2>2, QuietRows
  <2>3. ASSUME NEW d \in Dispatchers, MarkAsProcessedAsync(d)
        PROVE  rows'[m].processed
    <3>1. \E w \in Row : /\ w.processed = TRUE
                         /\ rows' = rows \/ rows' = [rows EXCEPT ![disp[d].cur] = w]
      BY <2>0, <2>3, MarkAsProcessedEffect
    <3>. QED
      BY <2>0, <3>1 DEF TypeOK
  <2>4. ASSUME NEW d \in Dispatchers, MarkAsFailedAsync(d)
        PROVE  rows'[m].processed
    <3>1. disp[d].cur \in disp[d].batch
      BY <2>0, <2>4, MarkAsFailedEffect
    <3>2. \E w \in Row : /\ w.processed = disp[d].copy[disp[d].cur].processed
                         /\ rows' = rows \/ rows' = [rows EXCEPT ![disp[d].cur] = w]
      BY <2>0, <2>4, MarkAsFailedEffect
    <3>3. CASE disp[d].cur = m
      <4>1. disp[d].copy[m].processed
        BY <2>0, <2>1, <3>1, <3>3 DEF Held
      <4>. QED
        BY <2>0, <3>2, <3>3, <4>1 DEF TypeOK
    <3>4. CASE disp[d].cur # m
      BY <2>0, <3>2, <3>4 DEF TypeOK
    <3>. QED
      BY <3>3, <3>4
  <2>5. CASE RedriveSave
    BY <2>0, <2>5, RedriveEffect
  <2>6. CASE UNCHANGED rows
    BY <2>6
  <2>. QED
    BY <1>1, <2>2, <2>3, <2>4, <2>5, <2>6
       DEF Next, DispatcherStep, vars, TakeNext, PublishReturns, PublishThrows, Crash, RedriveLoad
<1>2. IInv /\ [Next]_vars => [Kept]_vars
  BY <1>1
<1>. QED
  BY <1>2, InvariantHolds, PTL DEF Spec, ProcessedIsFinal

-----------------------------------------------------------------------------
(***************************************************************************)
(* The outbox with its bus and inbox.                                      *)
(***************************************************************************)
\* Every handler has completed the message at least once.
AllRan(m) == \A h \in Handlers : runs[<<m, h>>] > 0

\* What the position of a PublishAsync call says about the handlers: those
\* before the current one have run, and so has one whose row is being saved.
CallFits(d) ==
    /\ call[d].step # "none" => disp[d].pc = "publishing"
    /\ call[d].step \in {"lookup", "handling", "recording"} =>
         /\ call[d].h \in Handlers
         /\ \A k \in Handlers : k < call[d].h => runs[<<disp[d].cur, k>>] > 0
    /\ call[d].step = "recording" => runs[<<disp[d].cur, call[d].h>>] > 0
    /\ call[d].step = "returned" => AllRan(disp[d].cur)

CallInv == \A d \in Dispatchers : CallFits(d)

\* An inbox row stands for a completed run, a published message for all of them.
RanInv ==
    /\ \A e \in Messages \X Handlers : inbox[e] # Bus!NoRow => runs[e] > 0
    /\ \A m \in published : AllRan(m)

\* A row is written only while it is stored, and purged only once processed.
TableInv ==
    /\ \A m \in Messages : rows[m].at = "unsent" => ~rows[m].processed /\ ~rows[m].dead
    /\ \A m \in Messages : rows[m].at = "purged" => rows[m].processed
    /\ \A d \in Dispatchers : \A m \in disp[d].batch : rows[m].at # "unsent"

\* The dispatcher runs the handler, or has run it and not yet saved the inbox row.
At(d, step, e) == call[d].step = step /\ e = <<disp[d].cur, call[d].h>>

\* The last completed run of the handler is known, or about to be.
Recorded(e) == inbox[e] # Bus!NoRow \/ \E d \in Dispatchers : At(d, "recording", e)

\* Every completed run but the one that is known was excused by a fault, and a
\* handler runs only where none is known.
OnceInv ==
    /\ \A e \in (Messages \X Handlers) \ forgotten :
         IF Recorded(e) THEN runs[e] <= 1 + faults ELSE runs[e] <= faults
    /\ \A e \in Messages \X Handlers : \A d \in Dispatchers :
         At(d, "handling", e) => ~Recorded(e)

\* The part of the invariant that is about the bus alone.
CallsFit == Bus!BusTypeOK /\ CallInv /\ RanInv

EventingInv == IInv /\ CallsFit /\ TableInv /\ (LeaseHolds => OnceInv)

-----------------------------------------------------------------------------
(* What is shown of the outbox holds here too.  *)

\* A step of Eventing is one of Outbox, or an inbox save failed.
LEMMA StepsAreOutboxSteps ==
    ASSUME [EventingNext]_eventingVars
    PROVE  \/ [Next]_vars
           \/ /\ faults < MaxFaults /\ faults' = faults + 1
              /\ UNCHANGED <<rows, disp, redrive, published, failures>>
<1>1. ASSUME NEW d \in Dispatchers, BusStep(d)
      PROVE  \/ UNCHANGED vars
             \/ /\ faults < MaxFaults /\ faults' = faults + 1
                /\ UNCHANGED <<rows, disp, redrive, published, failures>>
  BY <1>1 DEF BusStep
<1>2. ASSUME NEW d \in Dispatchers, BusReturns(d) \/ BusThrows(d) \/ LoopStep(d) \/ InstanceCrashes(d)
      PROVE  Next
  BY <1>2 DEF BusReturns, BusThrows, LoopStep, InstanceCrashes, Next, DispatcherStep
<1>3. CASE \/ \E m \in Messages : Produce(m)
           \/ Redrive
           \/ RetentionStep
           \/ TimePasses
  BY <1>3 DEF Produce, Redrive, RetentionStep, TimePasses, Next, vars
<1>4. CASE UNCHANGED eventingVars
  BY <1>4 DEF eventingVars, vars
<1>. QED
  BY <1>1, <1>2, <1>3, <1>4 DEF EventingNext, InstanceStep

\* The outbox invariant is kept by both.
LEMMA OutboxKept ==
    ASSUME IInv, [EventingNext]_eventingVars
    PROVE  IInv'
<1>1. CASE [Next]_vars
  BY <1>1, Inductive
<1>2. CASE /\ faults < MaxFaults /\ faults' = faults + 1
           /\ UNCHANGED <<rows, disp, redrive, published, failures>>
  <2>1. TypeOK'
    BY <1>2, OptionsAssumption DEF IInv, TypeOK
  <2>2. RetryInv' /\ LoopInv'
    BY <1>2 DEF IInv, RetryInv, LoopInv, IsDead
  <2>3. PublishedInv'
    BY <1>2 DEF IInv, PublishedInv, ProcessedWasPublished
  <2>4. (LeaseHolds => Exclusion)'
    BY <1>2 DEF IInv, Exclusion, Held, Apart, WithinBudget, Exhausted, Ordinary
  <2>. QED
    BY <2>1, <2>2, <2>3, <2>4 DEF IInv
<1>. QED
  BY <1>1, <1>2, StepsAreOutboxSteps

\* Whoever publishes works on a message of its batch.
LEMMA PublisherFits ==
    ASSUME IInv, NEW d \in Dispatchers, disp[d].pc = "publishing"
    PROVE  /\ disp[d].cur \in Messages \ Poison
           /\ disp[d].cur \in disp[d].batch
BY DEF IInv, LoopInv, TypeOK, DispatcherState

\* Where leases hold, two publishers have two messages.
LEMMA PublishersDiffer ==
    ASSUME IInv, LeaseHolds, NEW d \in Dispatchers, NEW e \in Dispatchers, d # e,
           disp[d].pc = "publishing", disp[e].pc = "publishing"
    PROVE  disp[d].cur # disp[e].cur
<1>1. disp[d].batch \cap disp[e].batch \subseteq Poison
  BY DEF IInv, Exclusion, Apart
<1>. QED
  BY <1>1, PublisherFits

\* A dispatcher that leaves or enters nothing of a publish call alone.
LEMMA LoopLeavesPublishers ==
    ASSUME TypeOK, NEW d \in Dispatchers, LoopStep(d)
    PROVE  /\ UNCHANGED busVars /\ UNCHANGED published
           /\ \A e \in Dispatchers : disp[e].pc = "publishing" => disp'[e] = disp[e]
           /\ faults' >= faults
<1>1. UNCHANGED busVars
  BY DEF LoopStep
<1>2. UNCHANGED published
  BY DEF LoopStep, ClaimBatchAsync, TakeNext, MarkAsProcessedAsync, MarkAsFailedAsync
<1>3. faults' >= faults
  <2>1. faults \in Nat
    BY OptionsAssumption DEF TypeOK
  <2>a. ASSUME NEW m, NEW w, Saves(m, w) \/ SavesUnheard(m, w) \/ FailsToSave(m)
        PROVE  faults' >= faults
    BY <2>1, <2>a DEF Saves, SavesUnheard, FailsToSave
  <2>2. CASE MarkAsProcessedAsync(d)
    BY <2>2, <2>a DEF MarkAsProcessedAsync
  <2>3. CASE MarkAsFailedAsync(d)
    BY <2>3, <2>a DEF MarkAsFailedAsync
  <2>4. CASE ClaimBatchAsync(d) \/ \E m \in Messages : TakeNext(d, m)
    <3>1. UNCHANGED faults
      BY <2>4, Zenon DEF ClaimBatchAsync, TakeNext
    <3>. QED
      BY <2>1, <3>1
  <2>. QED
    BY <2>2, <2>3, <2>4 DEF LoopStep
<1>4. disp[d].pc # "publishing"
  BY DEF LoopStep, ClaimBatchAsync, TakeNext, MarkAsProcessedAsync, MarkAsFailedAsync
<1>5. \A e \in Dispatchers \ {d} : disp'[e] = disp[e]
  BY DEF TypeOK, LoopStep, ClaimBatchAsync, TakeNext, MarkAsProcessedAsync, MarkAsFailedAsync
<1>. QED
  BY <1>1, <1>2, <1>3, <1>4, <1>5

-----------------------------------------------------------------------------
(* The bus, one call at a time. *)

CallState == [step : Bus!Steps, h : 0..NumHandlers]

\* Where a call goes on: to the lookup of a handler, or back.
LEMMA FromType ==
    ASSUME NEW h \in 1..(NumHandlers + 1)
    PROVE  /\ Bus!From(h) \in CallState
           /\ h \in Handlers => Bus!From(h) = [step |-> "lookup", h |-> h]
           /\ h \notin Handlers => Bus!From(h) = [step |-> "returned", h |-> 0]
           /\ Bus!Threw \in CallState
           /\ Bus!NotCalled \in CallState
           /\ Bus!From(h).step \in {"lookup", "returned"}
BY BusAssumption
   DEF CallState, Bus!From, Bus!Threw, Bus!NotCalled, Bus!Steps, Handlers, Bus!Handlers

\* A call that goes on at h has its earlier handlers behind it.
LEMMA FromFits ==
    ASSUME NEW d \in Dispatchers, NEW h \in 1..(NumHandlers + 1),
           disp'[d].pc = "publishing", call'[d] = Bus!From(h),
           \A k \in Handlers : k < h => runs'[<<disp'[d].cur, k>>] > 0
    PROVE  CallFits(d)'
<1>1. CASE h \in Handlers
  <2>1. call'[d].step = "lookup" /\ call'[d].h = h
    BY <1>1, FromType
  <2>. QED
    BY <1>1, <2>1 DEF CallFits
<1>2. CASE h \notin Handlers
  <2>1. call'[d].step = "returned"
    BY <1>2, FromType
  <2>2. \A k \in Handlers : k < h
    BY <1>2, BusAssumption DEF Handlers, Bus!Handlers
  <2>. QED
    BY <2>1, <2>2 DEF CallFits, AllRan
<1>. QED
  BY <1>1, <1>2

\* Nothing a handler has completed is undone.
RunsGrow ==
    /\ runs' \in [Messages \X Handlers -> 0..MaxRuns]
    /\ \A e \in Messages \X Handlers : runs'[e] >= runs[e]

\* One call moves, the others keep what they are entitled to.
LEMMA CallMoves ==
    ASSUME IInv, Bus!BusTypeOK, CallInv, RunsGrow, NEW d \in Dispatchers, NEW c \in CallState,
           call' = [call EXCEPT ![d] = c], CallFits(d)',
           \A e \in Dispatchers \ {d} : disp'[e] = disp[e]
    PROVE  CallInv' /\ call' \in [Dispatchers -> CallState]
<1>1. call' \in [Dispatchers -> CallState]
  BY DEF Bus!BusTypeOK, CallState
<1>2. ASSUME NEW e \in Dispatchers \ {d} PROVE CallFits(e)'
  <2>1. call'[e] = call[e] /\ disp'[e] = disp[e] /\ CallFits(e)
    BY <1>2 DEF Bus!BusTypeOK, CallInv
  <2>2. call[e].step # "none" =>
          \A k \in Handlers : runs[<<disp[e].cur, k>>] > 0 => runs'[<<disp[e].cur, k>>] > 0
    <3> SUFFICES ASSUME call[e].step # "none", NEW k \in Handlers, runs[<<disp[e].cur, k>>] > 0
                 PROVE  runs'[<<disp[e].cur, k>>] > 0
      OBVIOUS
    <3>1. disp[e].cur \in Messages
      BY <2>1, PublisherFits DEF CallFits
    <3>2. <<disp[e].cur, k>> \in Messages \X Handlers
      BY <3>1
    <3>3. runs[<<disp[e].cur, k>>] \in Int /\ runs'[<<disp[e].cur, k>>] \in Int
      BY <3>2, BusAssumption DEF RunsGrow, Bus!BusTypeOK, Handlers
    <3>. QED
      BY <3>2, <3>3 DEF RunsGrow
  <2>. QED
    BY <2>1, <2>2 DEF CallFits, AllRan
<1>. QED
  BY <1>1, <1>2 DEF CallInv

\* A published message stays published by every handler.
LEMMA RanKept ==
    ASSUME IInv, Bus!BusTypeOK, RanInv, RunsGrow,
           \A e \in Messages \X Handlers : inbox'[e] # Bus!NoRow =>
             inbox[e] # Bus!NoRow \/ runs[e] > 0,
           \A m \in published' \ published : m \in Messages /\ AllRan(m)
    PROVE  RanInv'
<1>1. \A e \in Messages \X Handlers : runs[e] > 0 => runs'[e] > 0
  <2> SUFFICES ASSUME NEW e \in Messages \X Handlers, runs[e] > 0 PROVE runs'[e] > 0
    OBVIOUS
  <2>1. runs[e] \in Int /\ runs'[e] \in Int
    BY BusAssumption DEF RunsGrow, Bus!BusTypeOK, Handlers
  <2>. QED
    BY <2>1 DEF RunsGrow
<1>2. published \subseteq Messages
  BY DEF IInv, TypeOK
<1>. QED
  BY <1>1, <1>2 DEF RanInv, AllRan

\* Where neither the bus nor a publisher moves, nothing changes for them.
LEMMA QuietForCalls ==
    ASSUME IInv, CallsFit, UNCHANGED busVars, UNCHANGED published,
           \A e \in Dispatchers : disp[e].pc = "publishing" => disp'[e] = disp[e]
    PROVE  CallsFit'
<1>1. UNCHANGED call /\ UNCHANGED inbox /\ UNCHANGED runs /\ UNCHANGED forgotten
  BY DEF busVars
<1>2. Bus!BusTypeOK' /\ RanInv'
  BY <1>1 DEF CallsFit, Bus!BusTypeOK, RanInv, AllRan
<1>3. ASSUME NEW e \in Dispatchers PROVE CallFits(e)'
  <2>1. CallFits(e)
    BY DEF CallsFit, CallInv
  <2>2. CASE call[e].step = "none"
    BY <1>1, <2>2 DEF CallFits
  <2>3. CASE call[e].step # "none"
    <3>1. disp'[e] = disp[e]
      BY <2>1, <2>3 DEF CallFits
    <3>. QED
      BY <1>1, <2>1, <3>1 DEF CallFits, AllRan
  <2>. QED
    BY <2>2, <2>3
<1>. QED
  BY <1>2, <1>3 DEF CallsFit, CallInv

\* Within a call: what each of its steps needs and leaves.
LEMMA CallStep ==
    ASSUME IInv, CallsFit, NEW d \in Dispatchers, BusStep(d)
    PROVE  CallsFit'
<1> DEFINE m == disp[d].cur
           h == call[d].h
           e == <<m, h>>
<1>1. /\ disp[d].pc = "publishing" /\ UNCHANGED disp /\ UNCHANGED published
      /\ m \in Messages
  BY PublisherFits DEF BusStep, vars
<1>2. Bus!BusTypeOK /\ CallInv /\ RanInv /\ CallFits(d)
  BY DEF CallsFit, CallInv
<1>3. call[d] \in CallState /\ call \in [Dispatchers -> CallState]
  BY <1>2 DEF Bus!BusTypeOK, CallState
<1>4. ASSUME call[d].step \in {"lookup", "handling", "recording"}
      PROVE  /\ h \in Handlers /\ h + 1 \in 1..(NumHandlers + 1) /\ e \in Messages \X Handlers
             /\ \A k \in Handlers : k < h => runs[<<m, k>>] > 0
  <2>1. h \in Handlers /\ \A k \in Handlers : k < h => runs[<<m, k>>] > 0
    BY <1>2, <1>4 DEF CallFits
  <2>2. h + 1 \in 1..(NumHandlers + 1)
    BY <2>1, BusAssumption DEF Handlers, Bus!Handlers
  <2>. QED
    BY <1>1, <2>1, <2>2
<1> HIDE DEF m, h, e
\* Where only the call moves.
<1>5. ASSUME NEW c \in CallState, call' = [call EXCEPT ![d] = c],
             UNCHANGED inbox, UNCHANGED runs, UNCHANGED forgotten,
             CallFits(d)'
      PROVE  CallsFit'
  <2>1. RunsGrow
    BY <1>2, <1>5, BusAssumption DEF RunsGrow, Bus!BusTypeOK, Handlers
  <2>2. CallInv' /\ call' \in [Dispatchers -> CallState]
    BY <1>1, <1>2, <1>5, <2>1, CallMoves
  <2>3. Bus!BusTypeOK'
    BY <1>2, <1>5, <2>2 DEF Bus!BusTypeOK, CallState
  <2>4. RanInv'
    BY <1>1, <1>2, <1>5 DEF RanInv, AllRan
  <2>. QED
    BY <2>2, <2>3, <2>4 DEF CallsFit
<1>6. ASSUME call' = [call EXCEPT ![d] = Bus!Threw],
             UNCHANGED inbox, UNCHANGED runs, UNCHANGED forgotten
      PROVE  CallsFit'
  <2>1. call'[d] = Bus!Threw /\ Bus!Threw \in CallState
    BY <1>3, <1>6, BusAssumption DEF CallState, Bus!Threw, Bus!Steps
  <2>2. CallFits(d)'
    BY <1>1, <2>1 DEF CallFits, Bus!Threw
  <2>. QED
    BY <1>5, <1>6, <2>1, <2>2
<1>7. ASSUME NEW n \in 1..(NumHandlers + 1), call' = [call EXCEPT ![d] = Bus!From(n)],
             \A k \in Handlers : k < n => runs[<<m, k>>] > 0,
             UNCHANGED inbox, UNCHANGED runs, UNCHANGED forgotten
      PROVE  CallsFit'
  <2>1. call'[d] = Bus!From(n) /\ Bus!From(n) \in CallState
    BY <1>3, <1>7, FromType
  <2>2. \A k \in Handlers : k < n => runs'[<<disp'[d].cur, k>>] > 0
    BY <1>1, <1>7 DEF m
  <2>3. CallFits(d)'
    BY <1>1, <2>1, <2>2, FromFits
  <2>. QED
    BY <1>5, <1>7, <2>1, <2>3
\* What has run up to and including the current handler.
<1>8. ASSUME call[d].step \in {"lookup", "handling", "recording"}, runs[e] > 0
      PROVE  \A k \in Handlers : k < h + 1 => runs[<<m, k>>] > 0
  BY <1>4, <1>8 DEF e, Handlers, Bus!Handlers
<1>9. CASE Bus!PublishSingleAsync(d)
  <2>1. 1 \in 1..(NumHandlers + 1) /\ \A k \in Handlers : ~(k < 1)
    BY BusAssumption DEF Handlers, Bus!Handlers
  <2>2. UNCHANGED inbox /\ UNCHANGED runs /\ UNCHANGED forgotten
    BY <1>9 DEF Bus!PublishSingleAsync
  <2>3. CASE call' = [call EXCEPT ![d] = Bus!From(1)]
    BY <1>7, <2>1, <2>2, <2>3
  <2>4. CASE call' = [call EXCEPT ![d] = Bus!Threw]
    BY <1>6, <2>2, <2>4
  <2>. QED
    BY <1>9, <2>3, <2>4 DEF Bus!PublishSingleAsync
<1>10. CASE Bus!ShouldSkipProcessedEventAsync(d, m)
  <2>1. call[d].step = "lookup" /\ UNCHANGED inbox /\ UNCHANGED runs /\ UNCHANGED forgotten
    BY <1>10 DEF Bus!ShouldSkipProcessedEventAsync
  <2>2. CASE inbox[e] # Bus!NoRow
    <3>1. call' = [call EXCEPT ![d] = Bus!From(h + 1)]
      BY <1>10, <2>2 DEF Bus!ShouldSkipProcessedEventAsync, e, h
    <3>2. runs[e] > 0
      BY <1>2, <1>4, <2>1, <2>2 DEF RanInv
    <3>. QED
      BY <1>4, <1>7, <1>8, <2>1, <3>1, <3>2
  <2>3. CASE inbox[e] = Bus!NoRow
    <3> DEFINE c == [step |-> "handling", h |-> h]
    <3>a. call' = [call EXCEPT ![d] = [call[d] EXCEPT !.step = "handling"]]
      BY <1>10, <2>3 DEF Bus!ShouldSkipProcessedEventAsync, e, h
    <3>b. [call[d] EXCEPT !.step = "handling"] = c
      BY <1>3 DEF CallState, h
    <3>1. call' = [call EXCEPT ![d] = c]
      BY <3>a, <3>b
    <3>2. c \in CallState /\ call'[d] = c
      BY <1>3, <3>1 DEF CallState, Bus!Steps, h
    <3>3. CallFits(d)'
      BY <1>1, <1>4, <2>1, <3>2 DEF CallFits, m
    <3>. QED
      BY <1>5, <2>1, <3>1, <3>2, <3>3
  <2>. QED
    BY <2>2, <2>3
<1>11. CASE Bus!HandlerReturns(d, m)
  <2> DEFINE c == [step |-> "recording", h |-> h]
  <2>1. /\ call[d].step = "handling" /\ UNCHANGED inbox /\ UNCHANGED forgotten
        /\ runs' = [runs EXCEPT ![e] = IF @ < MaxRuns THEN @ + 1 ELSE @]
        /\ call' = [call EXCEPT ![d].step = "recording"]
    BY <1>11 DEF Bus!HandlerReturns, e, h
  <2>a. call' = [call EXCEPT ![d] = [call[d] EXCEPT !.step = "recording"]]
    BY <1>3, <2>1
  <2>b. [call[d] EXCEPT !.step = "recording"] = c /\ c \in CallState
    BY <1>3 DEF CallState, Bus!Steps, h
  <2>2. call' = [call EXCEPT ![d] = c] /\ c \in CallState /\ call'[d] = c
    BY <1>3, <2>a, <2>b
  <2>3. e \in Messages \X Handlers /\ runs \in [Messages \X Handlers -> 0..MaxRuns]
    BY <1>2, <1>4, <2>1 DEF Bus!BusTypeOK, Handlers
  <2>4. RunsGrow /\ runs'[e] > 0
    BY <2>1, <2>3, BusAssumption DEF RunsGrow
  <2>5. \A k \in Handlers : k < h => runs'[<<m, k>>] > 0
    <3> SUFFICES ASSUME NEW k \in Handlers, k < h PROVE runs'[<<m, k>>] > 0
      OBVIOUS
    <3>1. runs[<<m, k>>] > 0 /\ <<m, k>> \in Messages \X Handlers
      BY <1>1, <1>4, <2>1
    <3>2. runs[<<m, k>>] \in Int /\ runs'[<<m, k>>] \in Int
      BY <2>3, <2>4, <3>1 DEF RunsGrow
    <3>. QED
      BY <2>4, <3>1, <3>2 DEF RunsGrow
  <2>6. CallFits(d)'
    BY <1>1, <1>4, <2>1, <2>2, <2>4, <2>5 DEF CallFits, m, e
  <2>7. CallInv' /\ call' \in [Dispatchers -> CallState]
    BY <1>1, <1>2, <2>2, <2>4, <2>6, CallMoves
  <2>8. Bus!BusTypeOK'
    BY <1>2, <2>1, <2>4, <2>7 DEF Bus!BusTypeOK, CallState, RunsGrow, Handlers
  <2>9. RanInv'
    BY <1>1, <1>2, <2>1, <2>4, RanKept
  <2>. QED
    BY <2>7, <2>8, <2>9 DEF CallsFit
<1>12. CASE Bus!HandlerThrows(d)
  BY <1>6, <1>12 DEF Bus!HandlerThrows
<1>13. CASE Bus!MarkProcessedAsync(d, m)
  <2>1. /\ call[d].step = "recording" /\ UNCHANGED runs /\ UNCHANGED forgotten
        /\ inbox' = [inbox EXCEPT ![e] = IF @ = Bus!NoRow THEN 0 ELSE @]
        /\ call' = [call EXCEPT ![d] = Bus!From(h + 1)]
    BY <1>13 DEF Bus!MarkProcessedAsync, e, h
  <2>2. e \in Messages \X Handlers /\ runs[e] > 0
    BY <1>2, <1>4, <2>1 DEF CallFits, e, m, h
  <2>3. RunsGrow
    BY <1>2, <2>1, BusAssumption DEF RunsGrow, Bus!BusTypeOK, Handlers
  <2>4. call'[d] = Bus!From(h + 1) /\ Bus!From(h + 1) \in CallState
    BY <1>3, <1>4, <2>1, FromType
  <2>5. \A k \in Handlers : k < h + 1 => runs'[<<disp'[d].cur, k>>] > 0
    BY <1>1, <1>8, <2>1, <2>2 DEF m
  <2>6. CallFits(d)'
    BY <1>1, <1>4, <2>1, <2>4, <2>5, FromFits
  <2>7. CallInv' /\ call' \in [Dispatchers -> CallState]
    BY <1>1, <1>2, <2>1, <2>3, <2>4, <2>6, CallMoves
  <2>8. inbox' \in [Messages \X Handlers -> Bus!NoRow..(Retention + 1)]
    BY <1>2, <2>1, <2>2, OptionsAssumption DEF Bus!BusTypeOK, Bus!NoRow, Handlers
  <2>9. Bus!BusTypeOK'
    BY <1>2, <2>1, <2>7, <2>8 DEF Bus!BusTypeOK, CallState, Handlers
  <2>10. \A x \in Messages \X Handlers : inbox'[x] # Bus!NoRow => inbox[x] # Bus!NoRow \/ runs[x] > 0
    BY <1>2, <2>1, <2>2 DEF Bus!BusTypeOK, Handlers
  <2>11. RanInv'
    BY <1>1, <1>2, <2>3, <2>10, RanKept
  <2>. QED
    BY <2>7, <2>9, <2>11 DEF CallsFit
<1>14. CASE Bus!MarkProcessedFails(d)
  <2>1. call[d].step = "recording" /\ UNCHANGED inbox /\ UNCHANGED runs /\ UNCHANGED forgotten
    BY <1>14 DEF Bus!MarkProcessedFails
  <2>2. CASE call' = [call EXCEPT ![d] = Bus!From(h + 1)]
    <3>1. runs[e] > 0
      BY <1>2, <2>1 DEF CallFits, e, m, h
    <3>. QED
      BY <1>4, <1>7, <1>8, <2>1, <2>2, <3>1
  <2>3. CASE call' = [call EXCEPT ![d] = Bus!Threw]
    BY <1>6, <2>1, <2>3
  <2>. QED
    BY <1>14, <2>2, <2>3 DEF Bus!MarkProcessedFails, h
<1>. QED
  BY <1>9, <1>10, <1>11, <1>12, <1>13, <1>14 DEF BusStep, m

\* A call ends with its answer or with its process.
LEMMA CallEnds ==
    ASSUME IInv, CallsFit, NEW d \in Dispatchers,
           BusReturns(d) \/ BusThrows(d) \/ InstanceCrashes(d)
    PROVE  CallsFit'
<1>1. /\ call' = [call EXCEPT ![d] = Bus!NotCalled]
      /\ UNCHANGED inbox /\ UNCHANGED runs /\ UNCHANGED forgotten
  BY DEF BusReturns, BusThrows, InstanceCrashes, Bus!Ends
<1>2. Bus!BusTypeOK /\ CallInv /\ RanInv
  BY DEF CallsFit
<1>3. Bus!NotCalled \in CallState /\ Bus!NotCalled.step = "none"
  BY BusAssumption DEF CallState, Bus!Steps, Bus!NotCalled
<1>4. RunsGrow
  BY <1>1, <1>2, BusAssumption DEF RunsGrow, Bus!BusTypeOK, Handlers
<1>5. call'[d] = Bus!NotCalled
  BY <1>1, <1>2 DEF Bus!BusTypeOK
<1>6. CallFits(d)'
  BY <1>3, <1>5 DEF CallFits
<1>7. \A e \in Dispatchers \ {d} : disp'[e] = disp[e]
  BY DEF IInv, TypeOK, BusReturns, BusThrows, InstanceCrashes, PublishReturns, PublishThrows, Crash
<1>8. CallInv' /\ call' \in [Dispatchers -> CallState]
  BY <1>1, <1>2, <1>3, <1>4, <1>6, <1>7, CallMoves
<1>9. Bus!BusTypeOK'
  BY <1>1, <1>2, <1>8 DEF Bus!BusTypeOK, CallState
<1>10. \A m \in published' \ published : m \in Messages /\ AllRan(m)
  <2>1. CASE BusReturns(d)
    <3>1. /\ call[d].step = "returned" /\ disp[d].pc = "publishing"
          /\ published' = published \cup {disp[d].cur}
      BY <2>1 DEF BusReturns, PublishReturns
    <3>. QED
      BY <1>2, <3>1, PublisherFits DEF CallInv, CallFits
  <2>2. CASE BusThrows(d) \/ InstanceCrashes(d)
    BY <2>2 DEF BusThrows, InstanceCrashes, PublishThrows, Crash
  <2>. QED
    BY <2>1, <2>2
<1>11. RanInv'
  BY <1>1, <1>2, <1>4, <1>10, RanKept
<1>. QED
  BY <1>8, <1>9, <1>11 DEF CallsFit

\* Retention and the clock touch the inbox alone.
LEMMA InboxAlone ==
    ASSUME IInv, CallsFit, UNCHANGED call, UNCHANGED runs, UNCHANGED disp, UNCHANGED published,
           Bus!PurgeInboxAsync \/ Bus!InboxAges
    PROVE  /\ CallsFit'
           /\ \A e \in Messages \X Handlers : inbox'[e] # Bus!NoRow => inbox[e] # Bus!NoRow
           /\ \A e \in Messages \X Handlers :
                e \notin forgotten' => (inbox[e] # Bus!NoRow => inbox'[e] # Bus!NoRow)
           /\ forgotten \subseteq forgotten'
<1>0. Bus!BusTypeOK /\ CallInv /\ RanInv
  BY DEF CallsFit
<1>1. /\ inbox' \in [Messages \X Handlers -> Bus!NoRow..(Retention + 1)]
      /\ forgotten' \subseteq Messages \X Handlers /\ forgotten \subseteq forgotten'
      /\ \A e \in Messages \X Handlers : inbox'[e] # Bus!NoRow => inbox[e] # Bus!NoRow
      /\ \A e \in Messages \X Handlers :
           e \notin forgotten' => (inbox[e] # Bus!NoRow => inbox'[e] # Bus!NoRow)
  <2>1. CASE Bus!PurgeInboxAsync
    <3>1. PICK e \in Messages \X Handlers :
            inbox' = [inbox EXCEPT ![e] = Bus!NoRow] /\ forgotten' = forgotten \cup {e}
      BY <2>1 DEF Bus!PurgeInboxAsync, Handlers
    <3>. QED
      BY <1>0, <3>1, OptionsAssumption DEF Bus!BusTypeOK, Bus!NoRow, Handlers
  <2>2. CASE Bus!InboxAges
    <3>1. /\ UNCHANGED forgotten
          /\ inbox' = [e \in Messages \X Handlers |->
                         IF inbox[e] \in {Bus!NoRow, Retention + 1} THEN inbox[e] ELSE inbox[e] + 1]
      BY <2>2 DEF Bus!InboxAges, Handlers
    <3>2. \A e \in Messages \X Handlers : inbox[e] \in Bus!NoRow..(Retention + 1)
      BY <1>0 DEF Bus!BusTypeOK, Handlers
    <3>3. ASSUME NEW e \in Messages \X Handlers
          PROVE  /\ inbox'[e] \in Bus!NoRow..(Retention + 1)
                 /\ inbox'[e] # Bus!NoRow <=> inbox[e] # Bus!NoRow
      BY <3>1, <3>2, OptionsAssumption DEF Bus!NoRow
    <3>4. inbox' \in [Messages \X Handlers -> Bus!NoRow..(Retention + 1)]
      BY <3>1, <3>3
    <3>. QED
      BY <1>0, <3>1, <3>3, <3>4 DEF Bus!BusTypeOK, Handlers
  <2>. QED
    BY <2>1, <2>2
<1>2. Bus!BusTypeOK'
  BY <1>0, <1>1 DEF Bus!BusTypeOK, Handlers
<1>3. CallInv'
  BY <1>0 DEF CallInv, CallFits, AllRan
<1>4. RanInv'
  BY <1>0, <1>1 DEF RanInv, AllRan
<1>. QED
  BY <1>1, <1>2, <1>3, <1>4 DEF CallsFit

\* No step leaves a call, an inbox row or a published message unexplained.
LEMMA CallsKept ==
    ASSUME IInv, CallsFit, [EventingNext]_eventingVars
    PROVE  CallsFit'
<1>0. TypeOK
  BY DEF IInv
<1>1. ASSUME NEW d \in Dispatchers, LoopStep(d) PROVE CallsFit'
  BY <1>0, <1>1, LoopLeavesPublishers, QuietForCalls
<1>2. CASE \/ \E m \in Messages : Produce(m)
           \/ Redrive
           \/ PurgeOutboxAsync /\ UNCHANGED busVars
           \/ UNCHANGED eventingVars
  <2>1. UNCHANGED disp /\ UNCHANGED busVars /\ UNCHANGED published
    BY <1>2 DEF Produce, Redrive, AddAsync, RedriveLoad, RedriveSave, PurgeOutboxAsync,
                eventingVars, busVars
  <2>. QED
    BY <2>1, QuietForCalls
<1>3. CASE (Bus!PurgeInboxAsync /\ UNCHANGED vars) \/ TimePasses
  BY <1>3, InboxAlone DEF TimePasses, Tick, Bus!PurgeInboxAsync, Bus!InboxAges, vars
<1>. QED
  BY <1>1, <1>2, <1>3, CallStep, CallEnds
     DEF EventingNext, InstanceStep, RetentionStep

\* The empty tables, before any call.
LEMMA CallsStart == EventingInit => IInv /\ CallsFit
<1> SUFFICES ASSUME EventingInit PROVE IInv /\ CallsFit
  OBVIOUS
<1>1. IInv
  BY Inductive DEF EventingInit
<1>2. /\ call = [d \in Dispatchers |-> Bus!NotCalled]
      /\ inbox = [e \in Messages \X Handlers |-> Bus!NoRow]
      /\ runs = [e \in Messages \X Handlers |-> 0]
      /\ forgotten = {} /\ published = {}
  BY DEF EventingInit, Init, Bus!BusInit, Handlers
<1>3. Bus!BusTypeOK
  BY <1>2, BusAssumption, OptionsAssumption
     DEF Bus!BusTypeOK, Bus!NoRow, Bus!NotCalled, Bus!Steps, Handlers
<1>4. CallInv
  BY <1>2 DEF CallInv, CallFits, Bus!NotCalled
<1>5. RanInv
  BY <1>2 DEF RanInv
<1>. QED
  BY <1>1, <1>3, <1>4, <1>5 DEF CallsFit

\* The eventing block keeps its types: PublishAsync calls, inbox and counters.
THEOREM EventingTypeHolds == EventingSpec => []EventingTypeOK
<1>1. IInv /\ CallsFit /\ [EventingNext]_eventingVars => (IInv /\ CallsFit)'
  BY OutboxKept, CallsKept
<1>2. IInv /\ CallsFit => EventingTypeOK
  BY DEF IInv, CallsFit, EventingTypeOK
<1>. QED
  BY <1>1, <1>2, CallsStart, PTL DEF EventingSpec

\* No event is lost: a row that counts as processed, or that retention has
\* deleted, has been through every handler, whatever fails and also when leases
\* overrun.  The outbox shows that it was published, the calls that this means
\* every handler ran.
THEOREM NoEventLostHolds == EventingSpec => []NoEventLost
<1>1. IInv /\ CallsFit /\ [EventingNext]_eventingVars => (IInv /\ CallsFit)'
  BY OutboxKept, CallsKept
<1>2. IInv /\ CallsFit => NoEventLost
  BY DEF IInv, CallsFit, PublishedInv, ProcessedWasPublished, RanInv, AllRan, NoEventLost
<1>. QED
  BY <1>1, <1>2, CallsStart, PTL DEF EventingSpec

-----------------------------------------------------------------------------
(* Redelivery is harmless. *)

\* Where no handler completes and none is entered, it is enough that a run that
\* is no longer known was excused: by a fault, or by retention.
LEMMA OnceRests ==
    ASSUME IInv, IInv', CallsFit, OnceInv, UNCHANGED runs, faults' >= faults,
           forgotten \subseteq forgotten',
           \A e \in Messages \X Handlers : Recorded(e)' => Recorded(e),
           \A e \in (Messages \X Handlers) \ forgotten' :
             faults' = faults => (Recorded(e) => Recorded(e)'),
           \A d \in Dispatchers : \A e \in Messages \X Handlers :
             At(d, "handling", e)' => At(d, "handling", e)
    PROVE  OnceInv'
<1>1. faults \in Nat /\ faults' \in Nat
  BY OptionsAssumption DEF IInv, TypeOK
<1>2. ASSUME NEW e \in (Messages \X Handlers) \ forgotten'
      PROVE  IF Recorded(e)' THEN runs'[e] <= 1 + faults' ELSE runs'[e] <= faults'
  <2>1. runs[e] \in Nat /\ runs'[e] = runs[e]
    BY BusAssumption DEF CallsFit, Bus!BusTypeOK, Handlers
  <2>2. IF Recorded(e) THEN runs[e] <= 1 + faults ELSE runs[e] <= faults
    BY DEF OnceInv
  <2>3. faults' = faults \/ faults' >= faults + 1
    BY <1>1
  <2>4. CASE Recorded(e)'
    BY <1>1, <2>1, <2>2, <2>4
  <2>5. CASE ~Recorded(e)' /\ faults' = faults
    BY <1>1, <2>1, <2>2, <2>5
  <2>6. CASE ~Recorded(e)' /\ faults' >= faults + 1
    BY <1>1, <2>1, <2>2, <2>6
  <2>. QED
    BY <2>3, <2>4, <2>5, <2>6
<1>3. ASSUME NEW d \in Dispatchers, NEW e \in Messages \X Handlers, At(d, "handling", e)'
      PROVE  ~Recorded(e)'
  BY <1>3 DEF OnceInv
<1>. QED
  BY <1>2, <1>3 DEF OnceInv

\* Calls and publishers that do not move, and their inbox rows.
LEMMA OnceRestsQuietly ==
    ASSUME IInv, IInv', CallsFit, OnceInv, UNCHANGED runs, UNCHANGED call, faults' >= faults,
           forgotten \subseteq forgotten',
           \A e \in Messages \X Handlers : inbox'[e] # Bus!NoRow => inbox[e] # Bus!NoRow,
           \A e \in Messages \X Handlers :
             e \notin forgotten' => (inbox[e] # Bus!NoRow => inbox'[e] # Bus!NoRow),
           \A d \in Dispatchers : disp[d].pc = "publishing" => disp'[d] = disp[d]
    PROVE  OnceInv'
<1>1. ASSUME NEW d \in Dispatchers, NEW e, NEW step \in {"handling", "recording"}
      PROVE  At(d, step, e)' <=> At(d, step, e)
  <2>1. CASE call[d].step = step
    <3>1. disp'[d] = disp[d]
      BY <1>1, <2>1 DEF CallsFit, CallInv, CallFits
    <3>. QED
      BY <3>1 DEF At
  <2>2. CASE call[d].step # step
    BY <2>2 DEF At
  <2>. QED
    BY <2>1, <2>2
<1>2. \A e \in Messages \X Handlers : Recorded(e)' => Recorded(e)
  BY <1>1 DEF Recorded
<1>3. \A e \in (Messages \X Handlers) \ forgotten' : Recorded(e) => Recorded(e)'
  BY <1>1 DEF Recorded
<1>4. \A d \in Dispatchers : \A e \in Messages \X Handlers :
        At(d, "handling", e)' => At(d, "handling", e)
  BY <1>1
<1>. QED
  BY <1>2, <1>3, <1>4, OnceRests

\* A call that leaves off handling and recording, or never was there; where it
\* was recording, a fault takes the row that is not saved.
LEMMA OnceLeavesOff ==
    ASSUME IInv, IInv', CallsFit, OnceInv, UNCHANGED runs, UNCHANGED inbox, UNCHANGED forgotten,
           NEW d \in Dispatchers, NEW c, call' = [call EXCEPT ![d] = c],
           c.step \notin {"handling", "recording"},
           \A e \in Dispatchers \ {d} : disp'[e] = disp[e],
           faults' >= faults,
           call[d].step = "recording" => faults' # faults
    PROVE  OnceInv'
<1>1. call'[d] = c /\ \A e \in Dispatchers \ {d} : call'[e] = call[e]
  BY DEF CallsFit, Bus!BusTypeOK
<1>2. ASSUME NEW k \in Dispatchers, NEW e, NEW step \in {"handling", "recording"}
      PROVE  /\ At(k, step, e)' => At(k, step, e)
             /\ k # d => (At(k, step, e) => At(k, step, e)')
  BY <1>1, <1>2 DEF At
<1>3. \A e \in Messages \X Handlers : Recorded(e)' => Recorded(e)
  BY <1>2 DEF Recorded
<1>4. \A e \in (Messages \X Handlers) \ forgotten' :
        faults' = faults => (Recorded(e) => Recorded(e)')
  BY <1>2 DEF Recorded, At
<1>. QED
  BY <1>2, <1>3, <1>4, OnceRests

\* Within a call, where leases hold: no other call is about the same message, so
\* what the lookup found still holds when the handler returns and is recorded.
LEMMA OnceInCall ==
    ASSUME IInv, IInv', CallsFit, OnceInv, LeaseHolds, NEW d \in Dispatchers, BusStep(d)
    PROVE  OnceInv'
<1> DEFINE m == disp[d].cur
           e == <<m, call[d].h>>
<1>1. disp[d].pc = "publishing" /\ UNCHANGED disp /\ m \in Messages
  BY PublisherFits DEF BusStep, vars
<1>2. /\ call \in [Dispatchers -> CallState] /\ runs \in [Messages \X Handlers -> 0..MaxRuns]
      /\ inbox \in [Messages \X Handlers -> Bus!NoRow..(Retention + 1)]
      /\ faults \in Nat
  BY OptionsAssumption DEF CallsFit, Bus!BusTypeOK, CallState, Handlers, IInv, TypeOK
<1>3. call[d].step \in {"lookup", "handling", "recording"} =>
        e \in Messages \X Handlers /\ call[d].h + 1 \in 1..(NumHandlers + 1)
  BY <1>1, BusAssumption DEF CallsFit, CallInv, CallFits, Handlers, Bus!Handlers
\* Nobody else handles or records this message.
<1>4. ASSUME NEW k \in Dispatchers \ {d}, NEW h, NEW step \in {"handling", "recording"}
      PROVE  ~At(k, step, <<m, h>>)
  <2> SUFFICES ASSUME At(k, step, <<m, h>>) PROVE FALSE
    OBVIOUS
  <2>1. disp[k].pc = "publishing"
    BY <1>4 DEF At, CallsFit, CallInv, CallFits
  <2>2. disp[k].cur # m
    BY <1>1, <1>4, <2>1, PublishersDiffer
  <2>. QED
    BY <2>2 DEF At
\* Steps that only end or carry on a call.
<1>5. ASSUME NEW c, call' = [call EXCEPT ![d] = c], c.step \notin {"handling", "recording"},
             UNCHANGED inbox, UNCHANGED runs, UNCHANGED forgotten, faults' >= faults,
             call[d].step = "recording" => faults' # faults
      PROVE  OnceInv'
  BY <1>1, <1>5, OnceLeavesOff
<1>6. Bus!Threw.step = "threw"
  BY DEF Bus!Threw
<1>. HIDE DEF m, e
<1>7. CASE Bus!PublishSingleAsync(d) /\ UNCHANGED vars
  <2>1. Bus!From(1).step \notin {"handling", "recording"}
    BY FromType, BusAssumption
  <2>2. /\ call[d].step = "none" /\ UNCHANGED inbox /\ UNCHANGED runs /\ UNCHANGED forgotten
        /\ faults' >= faults
    BY <1>2, <1>7 DEF Bus!PublishSingleAsync, vars
  <2>. QED
    BY <1>5, <1>6, <1>7, <2>1, <2>2 DEF Bus!PublishSingleAsync
<1>8. CASE Bus!ShouldSkipProcessedEventAsync(d, m) /\ UNCHANGED vars
  <2>1. /\ call[d].step = "lookup" /\ UNCHANGED inbox /\ UNCHANGED runs /\ UNCHANGED forgotten
        /\ UNCHANGED faults /\ faults' >= faults
    BY <1>2, <1>8 DEF Bus!ShouldSkipProcessedEventAsync, vars
  <2>2. CASE inbox[e] # Bus!NoRow
    <3>1. call' = [call EXCEPT ![d] = Bus!From(call[d].h + 1)]
      BY <1>8, <2>2 DEF Bus!ShouldSkipProcessedEventAsync, e
    <3>2. Bus!From(call[d].h + 1).step \notin {"handling", "recording"}
      BY <1>3, <2>1, FromType
    <3>. QED
      BY <1>5, <2>1, <3>1, <3>2
  <2>3. CASE inbox[e] = Bus!NoRow
    <3>1. call' = [call EXCEPT ![d] = [call[d] EXCEPT !.step = "handling"]]
      BY <1>8, <2>3 DEF Bus!ShouldSkipProcessedEventAsync, e
    <3>2. /\ call'[d].step = "handling" /\ call'[d].h = call[d].h
          /\ \A k \in Dispatchers \ {d} : call'[k] = call[k]
      BY <1>2, <3>1 DEF CallState
    <3>3. ASSUME NEW k \in Dispatchers, NEW x PROVE At(k, "recording", x)' <=> At(k, "recording", x)
      BY <1>1, <2>1, <3>2, <3>3 DEF At
    <3>4. \A x \in Messages \X Handlers : Recorded(x)' <=> Recorded(x)
      BY <2>1, <3>3 DEF Recorded
    <3>5. ~Recorded(e)
      <4>1. ~At(d, "recording", e)
        BY <2>1 DEF At
      <4>. QED
        BY <1>4, <2>3, <4>1 DEF Recorded, e
    <3>6. ASSUME NEW k \in Dispatchers, NEW x \in Messages \X Handlers, At(k, "handling", x)'
          PROVE  ~Recorded(x)'
      <4>1. CASE k = d
        <5>1. x = e
          BY <1>1, <3>2, <3>6, <4>1 DEF At, e, m
        <5>. QED
          BY <3>4, <3>5, <5>1
      <4>2. CASE k # d
        <5>1. At(k, "handling", x)
          BY <1>1, <3>2, <3>6, <4>2 DEF At
        <5>. QED
          BY <3>4, <5>1 DEF OnceInv
      <4>. QED
        BY <4>1, <4>2
    <3>7. ASSUME NEW x \in (Messages \X Handlers) \ forgotten'
          PROVE  IF Recorded(x)' THEN runs'[x] <= 1 + faults' ELSE runs'[x] <= faults'
      BY <2>1, <3>4 DEF OnceInv
    <3>. QED
      BY <3>6, <3>7 DEF OnceInv
  <2>. QED
    BY <2>2, <2>3
<1>9. CASE Bus!HandlerReturns(d, m) /\ UNCHANGED vars
  <2>1. /\ call[d].step = "handling" /\ UNCHANGED inbox /\ UNCHANGED forgotten /\ UNCHANGED faults
        /\ runs' = [runs EXCEPT ![e] = IF @ < MaxRuns THEN @ + 1 ELSE @]
        /\ call' = [call EXCEPT ![d] = [call[d] EXCEPT !.step = "recording"]]
    BY <1>2, <1>9 DEF Bus!HandlerReturns, vars, e
  <2>2. /\ call'[d].step = "recording" /\ call'[d].h = call[d].h
        /\ \A k \in Dispatchers \ {d} : call'[k] = call[k]
    BY <1>2, <2>1 DEF CallState
  <2>3. At(d, "handling", e) /\ ~Recorded(e)
    BY <1>3, <2>1 DEF At, OnceInv, e, m
  <2>4. ASSUME NEW x, x = e PROVE Recorded(x)'
    BY <1>1, <2>2, <2>4 DEF At, Recorded, e, m
  <2>5. ASSUME NEW k \in Dispatchers \ {d}, NEW x, NEW step
        PROVE  At(k, step, x)' <=> At(k, step, x)
    BY <1>1, <2>2, <2>5 DEF At
  <2>6. ASSUME NEW x \in Messages \X Handlers, x # e
        PROVE  ~At(d, "recording", x)' /\ ~At(d, "recording", x)
    BY <1>1, <2>1, <2>2, <2>6 DEF At, e, m
  <2>7. ASSUME NEW x \in Messages \X Handlers, x # e
        PROVE  (Recorded(x)' <=> Recorded(x)) /\ runs'[x] = runs[x]
    BY <1>2, <2>1, <2>5, <2>6, <2>7 DEF Recorded
  <2>8. ASSUME NEW x \in (Messages \X Handlers) \ forgotten'
        PROVE  IF Recorded(x)' THEN runs'[x] <= 1 + faults' ELSE runs'[x] <= faults'
    <3>1. CASE x = e
      <4>1. runs[e] \in Nat /\ runs[e] <= faults
        BY <1>2, <2>1, <2>3, <2>8, <3>1, BusAssumption DEF OnceInv
      <4>2. runs'[e] = runs[e] \/ runs'[e] = runs[e] + 1
        BY <1>2, <2>1, <2>8, <3>1
      <4>3. runs'[e] <= 1 + faults'
        BY <1>2, <2>1, <4>1, <4>2
      <4>. QED
        BY <2>4, <3>1, <4>3
    <3>2. CASE x # e
      BY <2>1, <2>7, <2>8, <3>2 DEF OnceInv
    <3>. QED
      BY <3>1, <3>2
  <2>9. ASSUME NEW k \in Dispatchers, NEW x \in Messages \X Handlers, At(k, "handling", x)'
        PROVE  ~Recorded(x)'
    <3>1. k # d
      BY <2>2, <2>9 DEF At
    <3>2. At(k, "handling", x)
      BY <2>5, <2>9, <3>1
    <3>3. x # e
      BY <1>4, <3>1, <3>2 DEF e
    <3>. QED
      BY <2>7, <3>2, <3>3 DEF OnceInv
  <2>. QED
    BY <2>8, <2>9 DEF OnceInv
<1>10. CASE Bus!HandlerThrows(d) /\ UNCHANGED vars
  <2>1. /\ call[d].step = "handling" /\ UNCHANGED inbox /\ UNCHANGED runs /\ UNCHANGED forgotten
        /\ faults' >= faults /\ call' = [call EXCEPT ![d] = Bus!Threw]
    BY <1>2, <1>10 DEF Bus!HandlerThrows, vars
  <2>. QED
    BY <1>5, <1>6, <2>1
<1>11. CASE Bus!MarkProcessedAsync(d, m) /\ UNCHANGED vars
  <2>1. /\ call[d].step = "recording" /\ UNCHANGED runs /\ UNCHANGED forgotten /\ UNCHANGED faults
        /\ inbox' = [inbox EXCEPT ![e] = IF @ = Bus!NoRow THEN 0 ELSE @]
        /\ call' = [call EXCEPT ![d] = Bus!From(call[d].h + 1)]
    BY <1>11 DEF Bus!MarkProcessedAsync, vars, e
  <2>2. /\ call'[d].step \notin {"handling", "recording"}
        /\ \A k \in Dispatchers \ {d} : call'[k] = call[k]
    BY <1>2, <1>3, <2>1, FromType
  <2>3. e \in Messages \X Handlers /\ At(d, "recording", e) /\ Recorded(e)
    BY <1>3, <2>1 DEF At, Recorded, e, m
  <2>a. /\ inbox'[e] # Bus!NoRow
        /\ \A x \in Messages \X Handlers : x # e => inbox'[x] = inbox[x]
    BY <1>2, <2>1, <2>3 DEF Bus!NoRow
  <2>5. ASSUME NEW k \in Dispatchers \ {d}, NEW x, NEW step
        PROVE  At(k, step, x)' <=> At(k, step, x)
    BY <1>1, <2>2, <2>5 DEF At
  <2>6. ASSUME NEW x \in Messages \X Handlers, x # e
        PROVE  ~At(d, "recording", x)' /\ ~At(d, "recording", x)
    BY <1>1, <2>1, <2>2, <2>6 DEF At, e, m
  <2>7. \A x \in Messages \X Handlers : Recorded(x)' <=> Recorded(x)
    <3> SUFFICES ASSUME NEW x \in Messages \X Handlers PROVE Recorded(x)' <=> Recorded(x)
      OBVIOUS
    <3>1. CASE x = e
      BY <2>a, <2>3, <3>1 DEF Recorded
    <3>2. CASE x # e
      BY <2>a, <2>5, <2>6, <3>2 DEF Recorded
    <3>. QED
      BY <3>1, <3>2
  <2>8. ASSUME NEW x \in (Messages \X Handlers) \ forgotten'
        PROVE  IF Recorded(x)' THEN runs'[x] <= 1 + faults' ELSE runs'[x] <= faults'
    BY <2>1, <2>7, <2>8 DEF OnceInv
  <2>9. ASSUME NEW k \in Dispatchers, NEW x \in Messages \X Handlers, At(k, "handling", x)'
        PROVE  ~Recorded(x)'
    <3>1. At(k, "handling", x)
      BY <2>2, <2>5, <2>9 DEF At
    <3>. QED
      BY <2>7, <3>1 DEF OnceInv
  <2>. QED
    BY <2>8, <2>9 DEF OnceInv
<1>12. CASE Bus!MarkProcessedFails(d) /\ faults' = faults + 1
  <2>1. /\ call[d].step = "recording" /\ UNCHANGED inbox /\ UNCHANGED runs /\ UNCHANGED forgotten
        /\ faults' >= faults /\ faults' # faults
    BY <1>2, <1>12 DEF Bus!MarkProcessedFails
  <2>2. Bus!From(call[d].h + 1).step \notin {"handling", "recording"}
    BY <1>3, <2>1, FromType
  <2>. QED
    BY <1>5, <1>6, <1>12, <2>1, <2>2 DEF Bus!MarkProcessedFails
<1>. QED
  BY <1>7, <1>8, <1>9, <1>10, <1>11, <1>12 DEF BusStep, m

\* Every other step leaves completed runs as known as they were, or is a fault.
LEMMA OnceKept ==
    ASSUME IInv, IInv', CallsFit, OnceInv, LeaseHolds, [EventingNext]_eventingVars
    PROVE  OnceInv'
<1>0. TypeOK /\ faults \in Nat
  BY OptionsAssumption DEF IInv, TypeOK
<1>1. ASSUME NEW d \in Dispatchers, LoopStep(d) PROVE OnceInv'
  <2>1. UNCHANGED call /\ UNCHANGED inbox /\ UNCHANGED runs /\ UNCHANGED forgotten
    BY <1>1 DEF LoopStep, busVars
  <2>. QED
    BY <1>0, <1>1, <2>1, LoopLeavesPublishers, OnceRestsQuietly
<1>2. CASE \/ \E m \in Messages : Produce(m)
           \/ Redrive
           \/ PurgeOutboxAsync /\ UNCHANGED busVars
           \/ UNCHANGED eventingVars
  <2>1. /\ UNCHANGED disp /\ UNCHANGED call /\ UNCHANGED inbox /\ UNCHANGED runs
        /\ UNCHANGED forgotten /\ UNCHANGED faults
    BY <1>2, Zenon DEF Produce, Redrive, AddAsync, RedriveLoad, RedriveSave, PurgeOutboxAsync,
                       eventingVars, busVars
  <2>. QED
    BY <1>0, <2>1, OnceRestsQuietly
<1>3. CASE (Bus!PurgeInboxAsync /\ UNCHANGED vars) \/ TimePasses
  <2>1. /\ UNCHANGED call /\ UNCHANGED runs /\ UNCHANGED disp /\ UNCHANGED published
        /\ UNCHANGED faults
        /\ Bus!PurgeInboxAsync \/ Bus!InboxAges
    BY <1>3, Zenon DEF TimePasses, Tick, Bus!PurgeInboxAsync, Bus!InboxAges, vars
  <2>2. /\ \A e \in Messages \X Handlers : inbox'[e] # Bus!NoRow => inbox[e] # Bus!NoRow
        /\ \A e \in Messages \X Handlers :
             e \notin forgotten' => (inbox[e] # Bus!NoRow => inbox'[e] # Bus!NoRow)
        /\ forgotten \subseteq forgotten'
    BY <2>1, InboxAlone
  <2>. QED
    BY <1>0, <2>1, <2>2, OnceRestsQuietly
<1>4. ASSUME NEW d \in Dispatchers, BusReturns(d) \/ BusThrows(d) \/ InstanceCrashes(d)
      PROVE  OnceInv'
  <2>1. /\ call' = [call EXCEPT ![d] = Bus!NotCalled]
        /\ UNCHANGED inbox /\ UNCHANGED runs /\ UNCHANGED forgotten
    BY <1>4 DEF BusReturns, BusThrows, InstanceCrashes, Bus!Ends
  <2>2. Bus!NotCalled.step \notin {"handling", "recording"}
    BY DEF Bus!NotCalled
  <2>3. \A e \in Dispatchers \ {d} : disp'[e] = disp[e]
    BY <1>0, <1>4
       DEF TypeOK, BusReturns, BusThrows, InstanceCrashes, PublishReturns, PublishThrows, Crash
  <2>4. faults' >= faults /\ (call[d].step = "recording" => faults' # faults)
    BY <1>0, <1>4 DEF BusReturns, BusThrows, InstanceCrashes, PublishReturns, PublishThrows, Crash
  <2>. QED
    BY <2>1, <2>2, <2>3, <2>4, OnceLeavesOff
<1>. QED
  BY <1>1, <1>2, <1>3, <1>4, OnceInCall DEF EventingNext, InstanceStep, RetentionStep

\* The inbox makes redelivery harmless: where leases hold, every completed run of
\* a handler but the first is excused by a crash, a failed save or retention.
THEOREM EventingSafeHolds == EventingSpec => []EventingSafe
<1> DEFINE Inv == IInv /\ CallsFit /\ (LeaseHolds => OnceInv)
<1>1. EventingInit => Inv
  <2> SUFFICES ASSUME EventingInit PROVE Inv
    OBVIOUS
  <2>1. IInv /\ CallsFit
    BY CallsStart
  <2>2. /\ runs = [e \in Messages \X Handlers |-> 0] /\ faults = 0
        /\ call = [d \in Dispatchers |-> Bus!NotCalled]
    BY DEF EventingInit, Init, Bus!BusInit, Handlers
  <2>3. OnceInv
    BY <2>2 DEF OnceInv, At, Bus!NotCalled
  <2>. QED
    BY <2>1, <2>3
<1>2. Inv /\ [EventingNext]_eventingVars => Inv'
  <2> SUFFICES ASSUME Inv, [EventingNext]_eventingVars PROVE Inv'
    OBVIOUS
  <2>1. IInv' /\ CallsFit'
    BY OutboxKept, CallsKept
  <2>2. (LeaseHolds => OnceInv)'
    BY <2>1, OnceKept
  <2>. QED
    BY <2>1, <2>2
<1>3. Inv => EventingSafe
  <2> SUFFICES ASSUME Inv PROVE EventingSafe
    OBVIOUS
  <2>1. ASSUME LeaseHolds, NEW e \in Messages \X Handlers, e \notin forgotten
        PROVE  runs[e] <= 1 + faults
    <3>1. runs[e] \in Nat /\ faults \in Nat
      BY BusAssumption, OptionsAssumption DEF CallsFit, Bus!BusTypeOK, Handlers, IInv, TypeOK
    <3>2. IF Recorded(e) THEN runs[e] <= 1 + faults ELSE runs[e] <= faults
      BY <2>1 DEF OnceInv
    <3>. QED
      BY <3>1, <3>2
  <2>2. EventingTypeOK
    BY DEF IInv, CallsFit, EventingTypeOK
  <2>. QED
    BY <2>1, <2>2 DEF EventingSafe, HandledOnce
<1>. QED
  BY <1>1, <1>2, <1>3, PTL DEF EventingSpec

-----------------------------------------------------------------------------
(* The tables implement at-least-once delivery. *)

\* Marks write to rows that are there and leave them there.
LEMMA MarksWriteStoredRows ==
    ASSUME TypeOK, RetryInv, LoopInv, NEW d \in Dispatchers,
           MarkAsProcessedAsync(d) \/ MarkAsFailedAsync(d)
    PROVE  /\ rows' = rows \/ rows[disp[d].cur].at = "stored"
           /\ disp[d].cur \in Messages
           /\ \A m \in Messages : rows'[m].at = rows[m].at
           /\ \A m \in Messages \ {disp[d].cur} : rows'[m] = rows[m]
           /\ \A e \in Dispatchers : disp'[e].batch \subseteq disp[e].batch
<1>a. ASSUME NEW m, NEW w, Saves(m, w) \/ SavesUnheard(m, w) \/ FailsToSave(m)
      PROVE  rows' = rows \/ rows[m].at = "stored"
  BY <1>a DEF Saves, SavesUnheard, FailsToSave
<1>1. CASE MarkAsProcessedAsync(d)
  <2> DEFINE m == disp[d].cur
             told == [disp[d] EXCEPT !.pc = "failing", !.copy[m].processed = TRUE]
  <2>1. m \in Messages
    BY <1>1, MarkAsProcessedEffect
  <2>2. PICK w \in Row :
          /\ w.at = rows[m].at
          /\ \/ /\ rows' = [rows EXCEPT ![m] = w]
                /\ disp' = [disp EXCEPT ![d] = Advanced(d)]
             \/ /\ rows' = rows \/ rows' = [rows EXCEPT ![m] = w]
                /\ disp' = [disp EXCEPT ![d] = told]
    BY <1>1, MarkAsProcessedEffect
  <2>3. rows' = rows \/ rows[m].at = "stored"
    BY <1>1, <1>a DEF MarkAsProcessedAsync
  <2>4. told.batch = disp[d].batch /\ Advanced(d).batch \subseteq disp[d].batch
    BY AdvancedType DEF TypeOK, DispatcherState
  <2> HIDE DEF told, m
  <2>5. \A e \in Dispatchers : disp'[e].batch \subseteq disp[e].batch
    BY <2>2, <2>4 DEF TypeOK
  <2>6. /\ \A k \in Messages : rows'[k].at = rows[k].at
        /\ \A k \in Messages \ {m} : rows'[k] = rows[k]
    BY <2>1, <2>2 DEF TypeOK
  <2>. QED
    BY <2>1, <2>3, <2>5, <2>6 DEF m
<1>2. CASE MarkAsFailedAsync(d)
  <2> DEFINE m == disp[d].cur
             told == [disp[d] EXCEPT !.pc = "failing", !.copy[m].retry = @ + 1]
  <2>1. m \in Messages
    BY <1>2, MarkAsFailedEffect
  <2>2. PICK w \in Row :
          /\ w.at = rows[m].at
          /\ \/ /\ rows' = [rows EXCEPT ![m] = w]
                /\ disp' = [disp EXCEPT ![d] = Advanced(d)]
             \/ /\ rows' = rows \/ rows' = [rows EXCEPT ![m] = w]
                /\ disp' = [disp EXCEPT ![d] = IF disp[d].pc = "poisoned" THEN told ELSE Idle]
    BY <1>2, MarkAsFailedEffect
  <2>3. rows' = rows \/ rows[m].at = "stored"
    BY <1>2, <1>a DEF MarkAsFailedAsync
  <2>4. /\ told.batch = disp[d].batch /\ Advanced(d).batch \subseteq disp[d].batch
        /\ Idle.batch = {}
    BY AdvancedType DEF TypeOK, DispatcherState, Idle
  <2> HIDE DEF told, m
  <2>5. \A e \in Dispatchers : disp'[e].batch \subseteq disp[e].batch
    BY <2>2, <2>4 DEF TypeOK
  <2>6. /\ \A k \in Messages : rows'[k].at = rows[k].at
        /\ \A k \in Messages \ {m} : rows'[k] = rows[k]
    BY <2>1, <2>2 DEF TypeOK
  <2>. QED
    BY <2>1, <2>3, <2>5, <2>6 DEF m
<1>. QED
  BY <1>1, <1>2

\* Rows are filled in only while they are stored, and leave only once processed.
LEMMA TableKept ==
    ASSUME IInv, TableInv, [EventingNext]_eventingVars
    PROVE  TableInv'
<1>0. TypeOK /\ RetryInv /\ LoopInv
  BY DEF IInv
<1>a. \A m \in Messages : rows[m] \in Row
  BY <1>0 DEF TypeOK
<1>b. \A d \in Dispatchers : disp[d] \in DispatcherState /\ disp[d].batch \subseteq Messages
  BY <1>0 DEF TypeOK, DispatcherState
\* It is enough to follow the rows and to see that batches only shrink.
<1>1. ASSUME \A m \in Messages :
               /\ rows'[m].at = "unsent" => rows[m].at = "unsent"
               /\ rows'[m].at = "unsent" => ~rows'[m].processed /\ ~rows'[m].dead
               /\ rows'[m].at = "purged" => rows'[m].processed,
             \A d \in Dispatchers : disp'[d].batch \subseteq disp[d].batch
      PROVE  TableInv'
  BY <1>1, <1>b DEF TableInv
<1>2. CASE UNCHANGED rows /\ \A d \in Dispatchers : disp'[d].batch \subseteq disp[d].batch
  <2>1. UNCHANGED rows
    BY <1>2
  <2>. QED
    BY <1>1, <1>2, <2>1 DEF TableInv
<1>3. CASE \/ \E m \in Messages : AddAsync(m)
           \/ PurgeOutboxAsync
           \/ Tick
  <2>1. UNCHANGED disp
    BY <1>3 DEF AddAsync, PurgeOutboxAsync, Tick
  <2>2. ASSUME NEW m \in Messages
        PROVE  /\ rows'[m].processed = rows[m].processed /\ rows'[m].dead = rows[m].dead
               /\ rows'[m].at = "purged" => (rows[m].at = "purged" \/ rows[m].processed)
    BY <1>0, <1>3, QuietRows
  <2>3. ASSUME NEW m \in Messages PROVE rows'[m].at = "unsent" => rows[m].at = "unsent"
    <3>1. CASE \E k \in Messages : AddAsync(k)
      <4>1. PICK k \in Messages : rows' = [rows EXCEPT ![k].at = "stored"]
        BY <3>1 DEF AddAsync
      <4>. QED
        BY <1>0, <1>a, <4>1 DEF TypeOK, Row
    <3>2. CASE PurgeOutboxAsync
      BY <1>a, <3>2 DEF PurgeOutboxAsync, Row
    <3>3. CASE Tick
      BY <1>a, <3>3 DEF Tick, Row
    <3>. QED
      BY <1>3, <3>1, <3>2, <3>3
  <2>. QED
    BY <1>1, <2>1, <2>2, <2>3 DEF TableInv
<1>4. ASSUME NEW d \in Dispatchers, ClaimBatchAsync(d)
      PROVE  TableInv'
  <2> DEFINE claimed == Oldest({m \in Messages : Claimable(m)}, BatchSize)
  <2>1. claimed \subseteq Messages /\ \A m \in claimed : rows[m].at = "stored"
    BY DEF Oldest, Claimable
  <2>2. /\ rows' = [m \in Messages |-> IF m \in claimed
                                      THEN [rows[m] EXCEPT !.lease = Lease] ELSE rows[m]]
        /\ disp'[d].batch = claimed /\ \A e \in Dispatchers \ {d} : disp'[e] = disp[e]
    BY <1>0, <1>4 DEF ClaimBatchAsync, TypeOK
  <2> HIDE DEF claimed
  <2>3. \A m \in Messages : /\ rows'[m].at = rows[m].at /\ rows'[m].dead = rows[m].dead
                            /\ rows'[m].processed = rows[m].processed
    BY <1>a, <2>2 DEF Row
  <2>. QED
    BY <1>b, <2>1, <2>2, <2>3 DEF TableInv
<1>5. ASSUME NEW d \in Dispatchers, MarkAsProcessedAsync(d) \/ MarkAsFailedAsync(d)
      PROVE  TableInv'
  <2>1. \A m \in Messages : rows'[m].at = rows[m].at
    BY <1>0, <1>5, MarksWriteStoredRows
  <2>2. \A m \in Messages : rows[m].at # "stored" => rows'[m] = rows[m]
    BY <1>0, <1>5, MarksWriteStoredRows
  <2>3. \A e \in Dispatchers : disp'[e].batch \subseteq disp[e].batch
    BY <1>0, <1>5, MarksWriteStoredRows
  <2>. QED
    BY <1>1, <2>1, <2>2, <2>3 DEF TableInv
<1>6. CASE RedriveSave
  <2>1. /\ \A m \in Messages : /\ rows'[m].processed = rows[m].processed
                               /\ rows'[m].at = rows[m].at
                               /\ rows'[m].dead => rows[m].dead
        /\ UNCHANGED disp
    BY <1>0, <1>6, RedriveEffect
  <2>. QED
    BY <1>1, <2>1 DEF TableInv
<1>7. ASSUME NEW d \in Dispatchers,
             \/ \E m \in Messages : TakeNext(d, m)
             \/ PublishReturns(d)
             \/ PublishThrows(d)
             \/ Crash(d)
      PROVE  UNCHANGED rows /\ \A e \in Dispatchers : disp'[e].batch \subseteq disp[e].batch
  <2>1. UNCHANGED rows
    BY <1>7, Zenon DEF TakeNext, PublishReturns, PublishThrows, Crash
  <2>2. \A e \in Dispatchers \ {d} : disp'[e] = disp[e]
    BY <1>0, <1>7 DEF TypeOK, TakeNext, PublishReturns, PublishThrows, Crash
  <2>3. disp'[d].batch \subseteq disp[d].batch
    <3>1. CASE \E m \in Messages : TakeNext(d, m)
      BY <1>0, <3>1 DEF TypeOK, DispatcherState, TakeNext
    <3>2. CASE PublishReturns(d) \/ PublishThrows(d)
      BY <1>0, <3>2, ZenonT(40) DEF TypeOK, DispatcherState, PublishReturns, PublishThrows
    <3>3. CASE Crash(d)
      BY <1>0, <3>3 DEF TypeOK, Crash, Idle
    <3>. QED
      BY <1>7, <3>1, <3>2, <3>3
  <2>. QED
    BY <2>1, <2>2, <2>3
<1>8. CASE RedriveLoad \/ UNCHANGED vars \/ UNCHANGED <<rows, disp, redrive, published, failures>>
  <2>1. UNCHANGED rows /\ UNCHANGED disp
    BY <1>8, Zenon DEF RedriveLoad, vars
  <2>. QED
    BY <1>2, <2>1
<1>. QED
  BY <1>2, <1>3, <1>4, <1>5, <1>6, <1>7, <1>8, StepsAreOutboxSteps DEF Next, DispatcherStep

\* What a delivery may do next, or nothing.
DeliveryStep == Delivery!Next \/ UNCHANGED Delivery!deliveryVars

\* Where no verdict and no completed run changes, the delivery stands still.
LEMMA DeliveryRests ==
    ASSUME UNCHANGED runs,
           \A m \in Messages : /\ rows'[m].at = rows[m].at /\ rows'[m].dead = rows[m].dead
                               /\ rows'[m].processed = rows[m].processed
    PROVE  DeliveryStep
<1>1. \A m \in Messages : DeliveryState(m)' = DeliveryState(m)
  BY DEF DeliveryState
<1>. QED
  BY <1>1 DEF DeliveryStep, Delivery!deliveryVars

\* Messages that go from one state to another, and all others stay.
LEMMA DeliveryMoves ==
    ASSUME UNCHANGED runs, NEW S \in SUBSET Messages, S # {}, NEW from, NEW to,
           \A m \in S : DeliveryState(m) = from /\ DeliveryState(m)' = to,
           \A m \in Messages \ S : DeliveryState(m)' = DeliveryState(m)
    PROVE  Delivery!Moves(S, from, to)
BY DEF Delivery!Moves

\* Outbox steps other than the marks.
LEMMA RowsDeliver ==
    ASSUME IInv, TableInv, UNCHANGED runs,
           \/ \E m \in Messages : AddAsync(m)
           \/ \E d \in Dispatchers : ClaimBatchAsync(d)
           \/ RedriveSave
           \/ PurgeOutboxAsync
           \/ Tick
    PROVE  DeliveryStep
<1>0. TypeOK /\ \A m \in Messages : rows[m] \in Row
  BY DEF IInv, TypeOK
<1>1. ASSUME NEW m \in Messages, AddAsync(m) PROVE DeliveryStep
  <2>1. rows[m].at = "unsent" /\ rows' = [rows EXCEPT ![m].at = "stored"]
    BY <1>1 DEF AddAsync
  <2>2. /\ rows'[m].at = "stored" /\ ~rows'[m].processed /\ ~rows'[m].dead
        /\ \A k \in Messages \ {m} : rows'[k] = rows[k]
    BY <1>0, <2>1 DEF TypeOK, Row, TableInv
  <2>3. DeliveryState(m) = "unsent" /\ DeliveryState(m)' = "owed"
    BY <2>1, <2>2 DEF DeliveryState
  <2>4. \A k \in Messages \ {m} : DeliveryState(k)' = DeliveryState(k)
    BY <2>2 DEF DeliveryState
  <2>5. Delivery!Moves({m}, "unsent", "owed")
    BY <2>3, <2>4, DeliveryMoves
  <2>. QED
    BY <2>5 DEF DeliveryStep, Delivery!Next, Delivery!Accept
<1>2. CASE (\E d \in Dispatchers : ClaimBatchAsync(d)) \/ Tick
  <2>1. \A m \in Messages : rows'[m].at = rows[m].at
    <3>1. CASE Tick
      BY <1>0, <3>1 DEF Tick, Row
    <3>2. ASSUME NEW d \in Dispatchers, ClaimBatchAsync(d), NEW m \in Messages
          PROVE  rows'[m].at = rows[m].at
      BY <1>0, <3>2 DEF ClaimBatchAsync, Row
    <3>. QED
      BY <1>2, <3>1, <3>2
  <2>2. \A m \in Messages : rows'[m].dead = rows[m].dead /\ rows'[m].processed = rows[m].processed
    BY <1>0, <1>2, QuietRows
  <2>. QED
    BY <2>1, <2>2, DeliveryRests
<1>3. CASE RedriveSave
  <2> DEFINE S == {m \in Messages : /\ rows[m].at = "stored" /\ ~rows[m].processed
                                    /\ rows[m].dead /\ ~rows'[m].dead}
  <2>1. \A m \in Messages : /\ rows'[m].processed = rows[m].processed
                            /\ rows'[m].at = rows[m].at
                            /\ rows'[m].dead => rows[m].dead
    BY <1>0, <1>3, RedriveEffect
  <2>2. \A m \in S : DeliveryState(m) = "parked" /\ DeliveryState(m)' = "owed"
    BY <2>1 DEF DeliveryState
  <2>3. \A m \in Messages \ S : DeliveryState(m)' = DeliveryState(m)
    BY <2>1 DEF DeliveryState
  <2>4. S \in SUBSET Messages
    OBVIOUS
  <2> HIDE DEF S
  <2>5. CASE S = {}
    BY <2>3, <2>5 DEF DeliveryStep, Delivery!deliveryVars
  <2>6. CASE S # {}
    <3>1. Delivery!Moves(S, "parked", "owed")
      BY <2>2, <2>3, <2>4, <2>6, DeliveryMoves
    <3>. QED
      BY <2>4, <3>1 DEF DeliveryStep, Delivery!Next, Delivery!PutBack
  <2>. QED
    BY <2>5, <2>6
<1>4. CASE PurgeOutboxAsync
  <2>1. PICK S \in SUBSET {m \in Messages : Expired(m)} :
          /\ S # {}
          /\ rows' = [m \in Messages |-> IF m \in S THEN [rows[m] EXCEPT !.at = "purged"]
                                                    ELSE rows[m]]
    BY <1>4 DEF PurgeOutboxAsync
  <2>2. \A m \in S : /\ rows[m].at = "stored" /\ rows[m].processed /\ m \in Messages
                     /\ rows'[m].at = "purged"
    BY <1>0, <2>1 DEF Expired, Row
  <2>3. \A m \in S : DeliveryState(m) = "settled" /\ DeliveryState(m)' = "forgotten"
    BY <2>2 DEF DeliveryState
  <2>4. \A m \in Messages \ S : DeliveryState(m)' = DeliveryState(m)
    BY <2>1 DEF DeliveryState
  <2>5. S \in SUBSET Messages
    BY <2>2
  <2>6. Delivery!Moves(S, "settled", "forgotten")
    BY <2>1, <2>3, <2>4, <2>5, DeliveryMoves
  <2>. QED
    BY <2>5, <2>6 DEF DeliveryStep, Delivery!Next, Delivery!Forget
<1>. QED
  BY <1>1, <1>2, <1>3, <1>4

\* One row is written: what its verdict was and becomes decides the move.
LEMMA RowDelivers ==
    ASSUME IInv, RanInv, UNCHANGED runs, NEW m \in Messages,
           rows[m].at = "stored", rows'[m].at = "stored",
           \A k \in Messages \ {m} : rows'[k] = rows[k],
           rows[m].processed => rows'[m].processed,
           rows'[m].processed /\ ~rows[m].processed => ~rows[m].dead /\ m \in published
    PROVE  DeliveryStep
<1>1. \A k \in Messages \ {m} : DeliveryState(k)' = DeliveryState(k)
  BY DEF DeliveryState
<1>2. CASE DeliveryState(m)' = DeliveryState(m)
  BY <1>1, <1>2 DEF DeliveryStep, Delivery!deliveryVars
<1>3. CASE DeliveryState(m) = "owed" /\ DeliveryState(m)' = "settled"
  <2>1. m \in published
    BY <1>3 DEF DeliveryState
  <2>2. {h \in Handlers : runs[<<m, h>>] > 0} = Handlers
    BY <2>1 DEF RanInv, AllRan
  <2>3. Delivery!Moves({m}, "owed", "settled")
    BY <1>1, <1>3, DeliveryMoves
  <2>. QED
    BY <2>2, <2>3 DEF DeliveryStep, Delivery!Next, Delivery!Settle
<1>4. CASE DeliveryState(m) = "owed" /\ DeliveryState(m)' = "parked"
  <2>1. Delivery!Moves({m}, "owed", "parked")
    BY <1>1, <1>4, DeliveryMoves
  <2>. QED
    BY <2>1 DEF DeliveryStep, Delivery!Next, Delivery!Park
<1>5. CASE DeliveryState(m) = "parked" /\ DeliveryState(m)' = "owed"
  <2>1. Delivery!Moves({m}, "parked", "owed")
    BY <1>1, <1>5, DeliveryMoves
  <2>. QED
    BY <2>1 DEF DeliveryStep, Delivery!Next, Delivery!PutBack
<1>. QED
  BY <1>2, <1>3, <1>4, <1>5 DEF DeliveryState

\* A mark settles, parks or, for a payload that another instance parked, puts back.
LEMMA MarksDeliver ==
    ASSUME IInv, RanInv, LeaseHolds, UNCHANGED runs, NEW d \in Dispatchers,
           MarkAsProcessedAsync(d) \/ MarkAsFailedAsync(d)
    PROVE  DeliveryStep
<1> DEFINE m == disp[d].cur
<1>0. TypeOK /\ RetryInv /\ LoopInv /\ PublishedInv /\ Held
  BY DEF IInv, Exclusion
<1>1. CASE rows' = rows
  BY <1>1, DeliveryRests
<1>2. CASE rows' # rows
  <2>1. /\ m \in Messages /\ rows[m].at = "stored" /\ rows'[m].at = "stored"
        /\ \A k \in Messages \ {m} : rows'[k] = rows[k]
    BY <1>0, <1>2, MarksWriteStoredRows
  <2>2. CASE MarkAsProcessedAsync(d)
    <3>1. m \notin Poison /\ m \in disp[d].batch /\ disp[d].pc = "marking"
      BY <1>0, <2>2, MarkAsProcessedEffect
    <3>2. \E w \in Row : /\ w.processed = TRUE
                         /\ rows' = rows \/ rows' = [rows EXCEPT ![m] = w]
      BY <1>0, <2>2, MarkAsProcessedEffect
    <3>3. rows'[m].processed
      BY <1>0, <1>2, <2>1, <3>2 DEF TypeOK
    <3>4. ~rows[m].dead /\ m \in published
      BY <1>0, <3>1 DEF Held, PublishedInv
    <3>. QED
      BY <2>1, <3>3, <3>4, RowDelivers
  <2>3. CASE MarkAsFailedAsync(d)
    <3>1. m \in disp[d].batch
      BY <1>0, <2>3, MarkAsFailedEffect
    <3>2. \E w \in Row : /\ w.processed = disp[d].copy[m].processed
                         /\ rows' = rows \/ rows' = [rows EXCEPT ![m] = w]
      BY <1>0, <2>3, MarkAsFailedEffect
    <3>3. rows'[m].processed = disp[d].copy[m].processed
      BY <1>0, <1>2, <2>1, <3>2 DEF TypeOK
    <3>4. disp[d].copy[m].processed => m \in published
      BY <1>0, <2>1 DEF PublishedInv
    <3>5. CASE m \in Poison
      <4>1. m \notin published
        BY <1>0, <3>5 DEF PublishedInv
      <4>2. ~rows[m].processed /\ ~rows'[m].processed
        BY <1>0, <2>1, <3>3, <3>4, <4>1 DEF PublishedInv, ProcessedWasPublished
      <4>. QED
        BY <2>1, <4>2, RowDelivers
    <3>6. CASE m \notin Poison
      <4>1. ~rows[m].dead /\ (rows[m].processed => disp[d].copy[m].processed)
        BY <1>0, <3>1, <3>6 DEF Held
      <4>. QED
        BY <2>1, <3>3, <3>4, <4>1, RowDelivers
    <3>. QED
      BY <3>5, <3>6
  <2>. QED
    BY <2>2, <2>3
<1>. QED
  BY <1>1, <1>2

\* A handler that returns completes an event that is owed.
LEMMA HandlersDeliver ==
    ASSUME IInv, CallsFit, TableInv, LeaseHolds, NEW d \in Dispatchers, BusStep(d)
    PROVE  DeliveryStep
<1> DEFINE m == disp[d].cur
           h == call[d].h
           e == <<m, h>>
<1>1. /\ disp[d].pc = "publishing" /\ UNCHANGED rows
      /\ m \in Messages \ Poison /\ m \in disp[d].batch
  BY PublisherFits DEF BusStep, vars
<1>2. CASE UNCHANGED runs
  BY <1>1, <1>2, DeliveryRests
<1>3. CASE Bus!HandlerReturns(d, m)
  <2>1. /\ call[d].step = "handling" /\ h \in Handlers
        /\ runs' = [runs EXCEPT ![e] = IF @ < MaxRuns THEN @ + 1 ELSE @]
    BY <1>3 DEF Bus!HandlerReturns, CallsFit, CallInv, CallFits
  <2>2. DeliveryState(m) = "owed"
    <3>1. ~rows[m].dead /\ ~rows[m].processed
      BY <1>1 DEF IInv, Exclusion, Held
    <3>2. rows[m].at = "stored"
      <4>1. rows[m].at \in {"unsent", "stored", "purged"}
        BY <1>1 DEF IInv, TypeOK, Row
      <4>. QED
        BY <1>1, <3>1, <4>1 DEF TableInv
    <3>. QED
      BY <3>1, <3>2 DEF DeliveryState
  <2>3. \A k \in Messages : DeliveryState(k)' = DeliveryState(k)
    BY <1>1 DEF DeliveryState
  <2>4. /\ runs \in [Messages \X Handlers -> 0..MaxRuns] /\ e \in Messages \X Handlers
        /\ \A x \in Messages \X Handlers : x # e => runs'[x] = runs[x]
        /\ runs'[e] > 0
    <3>1. runs \in [Messages \X Handlers -> 0..MaxRuns] /\ e \in Messages \X Handlers
      BY <1>1, <2>1 DEF CallsFit, Bus!BusTypeOK, Handlers
    <3> HIDE DEF e
    <3>. QED
      BY <2>1, <3>1, BusAssumption
  <2>5. \A k \in Messages : {x \in Handlers : runs'[<<k, x>>] > 0}
                              = IF k = m THEN {x \in Handlers : runs[<<k, x>>] > 0} \cup {h}
                                         ELSE {x \in Handlers : runs[<<k, x>>] > 0}
    BY <1>1, <2>1, <2>4
  <2> DEFINE state == [k \in Messages |-> DeliveryState(k)]
             done == [k \in Messages |-> {x \in Handlers : runs[<<k, x>>] > 0}]
  <2>6. /\ state[m] = "owed" /\ state' = state
        /\ done' = [k \in Messages |-> IF k = m THEN done[m] \cup {h} ELSE done[k]]
    BY <1>1, <2>2, <2>3, <2>5
  <2>7. done' = [done EXCEPT ![m] = done[m] \cup {h}]
    BY <2>6
  <2>8. PICK k \in Messages, x \in Handlers : k = m /\ x = h
    BY <1>1, <2>1
  <2>9. Delivery!Complete(k, x)
    <3> HIDE DEF m, h
    <3>. QED
      BY <2>6, <2>7, <2>8 DEF Delivery!Complete
  <2>. QED
    BY <2>9 DEF DeliveryStep, Delivery!Next
<1>. QED
  BY <1>2, <1>3
     DEF BusStep, Bus!PublishSingleAsync, Bus!ShouldSkipProcessedEventAsync, Bus!HandlerThrows,
         Bus!MarkProcessedAsync, Bus!MarkProcessedFails

\* Every step is a step of the delivery or none of its business.
LEMMA StepsDeliver ==
    ASSUME IInv, CallsFit, TableInv, LeaseHolds, [EventingNext]_eventingVars
    PROVE  DeliveryStep
<1>1. ASSUME NEW d \in Dispatchers, LoopStep(d) PROVE DeliveryStep
  <2>1. UNCHANGED runs /\ RanInv
    BY <1>1 DEF LoopStep, busVars, CallsFit
  <2>2. ASSUME NEW m \in Messages, TakeNext(d, m) PROVE DeliveryStep
    BY <2>1, <2>2, DeliveryRests DEF TakeNext
  <2>. QED
    BY <1>1, <2>1, <2>2, RowsDeliver, MarksDeliver DEF LoopStep
<1>2. CASE \/ \E m \in Messages : Produce(m)
           \/ RedriveSave /\ UNCHANGED busVars
           \/ PurgeOutboxAsync /\ UNCHANGED busVars
           \/ TimePasses
  <2>1. UNCHANGED runs
    BY <1>2 DEF Produce, TimePasses, Bus!InboxAges, busVars
  <2>. QED
    BY <1>2, <2>1, RowsDeliver DEF Produce, TimePasses
<1>3. CASE \/ \E d \in Dispatchers : BusReturns(d) \/ BusThrows(d) \/ InstanceCrashes(d)
           \/ RedriveLoad /\ UNCHANGED busVars
           \/ Bus!PurgeInboxAsync /\ UNCHANGED vars
           \/ UNCHANGED eventingVars
  <2>1. UNCHANGED rows /\ UNCHANGED runs
    BY <1>3, Zenon
       DEF BusReturns, BusThrows, InstanceCrashes, PublishReturns, PublishThrows, Crash, Bus!Ends,
           RedriveLoad, Bus!PurgeInboxAsync, busVars, vars, eventingVars
  <2>. QED
    BY <2>1, DeliveryRests
<1>. QED
  BY <1>1, <1>2, <1>3, HandlersDeliver
     DEF EventingNext, InstanceStep, Redrive, RetentionStep

\* What the tables and the dispatchers do is at-least-once delivery, step by
\* step, where leases hold: an accepted event is owed until every handler has
\* completed it or it is parked, a settled one is never owed again, and only a
\* settled one is forgotten.  (That none stays owed is left to the run.)
DeliveryHeld == Delivery!Init /\ [][Delivery!Next]_(Delivery!deliveryVars)

THEOREM StepsImplementDelivery == LeaseHolds => (EventingSpec => DeliveryHeld)
<1> SUFFICES ASSUME LeaseHolds PROVE EventingSpec => DeliveryHeld
  OBVIOUS
<1> DEFINE Inv == IInv /\ CallsFit /\ TableInv
<1>1. EventingInit => Inv
  <2> SUFFICES ASSUME EventingInit PROVE Inv
    OBVIOUS
  <2>1. TableInv
    BY DEF EventingInit, Init, TableInv, Idle
  <2>. QED
    BY <2>1, CallsStart
<1>2. Inv /\ [EventingNext]_eventingVars => Inv'
  <2> SUFFICES ASSUME Inv, [EventingNext]_eventingVars PROVE Inv'
    OBVIOUS
  <2>. QED
    BY OutboxKept, CallsKept, TableKept
<1>3. EventingInit => Delivery!Init
  <2> SUFFICES ASSUME EventingInit PROVE Delivery!Init
    OBVIOUS
  <2>1. \A m \in Messages : rows[m].at = "unsent" /\ \A h \in Handlers : ~(runs[<<m, h>>] > 0)
    BY DEF EventingInit, Init, Bus!BusInit, Handlers
  <2>. QED
    BY <2>1 DEF Delivery!Init, DeliveryState
<1>4. Inv /\ [EventingNext]_eventingVars => [Delivery!Next]_(Delivery!deliveryVars)
  BY StepsDeliver DEF DeliveryStep
<1>. QED
  BY <1>1, <1>2, <1>3, <1>4, PTL DEF EventingSpec, DeliveryHeld
=============================================================================
