------------------------ MODULE FileLifecycle_proofs ------------------------
(***************************************************************************)
(* Proofs about FileLifecycle for every set of files and of requests and   *)
(* every bound: what consumers are told is true, and purging leaves no     *)
(* object behind but by a failed removal or an upload that overran.        *)
(***************************************************************************)
EXTENDS FileLifecycle, TLAPS

\* A request about to announce has saved, and a verdict it carries is earned.
RequestFits(r) ==
    /\ req[r].pc = "tell" => req[r].f \in final
    /\ req[r].pc \in {"save", "tell"} /\ req[r].copy.status = "Available" => req[r].f \in vetted

ToldInv == EventsAreTrue /\ \A r \in Requests : RequestFits(r)

\* Storage holds nothing under the key, or what it holds is accounted for.
Removed(f) == object[f] = "none" \/ f \in unremoved \/ url[f].overran

\* The upload URL has expired and no other will be given out.
Closed(f) == row[f].at # "none" /\ ~url[f].valid

\* A purge works on files nobody can begin to upload to any more; those whose
\* removal it has tried stay removed, also when a late upload ends.
PurgeInv ==
    /\ \A f \in Files : row[f].expired => Closed(f)
    /\ \A f \in Files : row[f].at = "gone" => Closed(f) /\ Removed(f)
    /\ \A j \in Jobs : \A f \in job[j].files : Closed(f) /\ (f \notin job[j].left => Removed(f))

IInv == TypeOK /\ ToldInv /\ PurgeInv

-----------------------------------------------------------------------------
(* Frames: what leaves the two parts of the invariant alone. *)

RequestState == [pc : Positions, f : Files, copy : Columns]
JobState == [pc : {"idle", "removing"}, files : SUBSET Files, left : SUBSET Files]
UrlState == [valid : BOOLEAN, busy : BOOLEAN, overran : BOOLEAN]

\* A request that does not move keeps what it knows.
LEMMA RequestRests ==
    ASSUME NEW r \in Requests, RequestFits(r), req'[r] = req[r],
           vetted \subseteq vetted', final \subseteq final'
    PROVE  RequestFits(r)'
BY DEF RequestFits

\* A request that neither saves nor tells has nothing to account for.
LEMMA RequestIsQuiet ==
    ASSUME NEW r \in Requests, req'[r].pc \notin {"save", "tell"}
    PROVE  RequestFits(r)'
BY DEF RequestFits

\* Only one request moves, nothing is announced, and nothing vetted or final is lost.
LEMMA ToldRests ==
    ASSUME ToldInv, UNCHANGED told, vetted \subseteq vetted', final \subseteq final',
           NEW r, \A q \in Requests \ {r} : req'[q] = req[q],
           r \in Requests => RequestFits(r)'
    PROVE  ToldInv'
<1>1. EventsAreTrue'
  BY DEF ToldInv, EventsAreTrue
<1>2. \A q \in Requests \ {r} : RequestFits(q)'
  BY RequestRests DEF ToldInv
<1>. QED
  BY <1>1, <1>2 DEF ToldInv

\* No request moves.
LEMMA ToldRestsAll ==
    ASSUME ToldInv, UNCHANGED told, UNCHANGED req, UNCHANGED vetted, UNCHANGED final
    PROVE  ToldInv'
BY DEF ToldInv, EventsAreTrue, RequestFits

\* No job moves, no row goes, and what is closed and removed stays so.
LEMMA PurgeRests ==
    ASSUME PurgeInv, UNCHANGED job,
           \A f \in Files : Closed(f) => Closed(f)',
           \A f \in Files : Closed(f) /\ Removed(f) => Removed(f)',
           \A f \in Files : row'[f].expired => Closed(f)',
           \A f \in Files : row'[f].at = "gone" => row[f].at = "gone",
           TypeOK
    PROVE  PurgeInv'
<1>1. \A j \in Jobs : job[j].files \subseteq Files
  BY DEF TypeOK
<1>. QED
  BY <1>1 DEF PurgeInv

\* Nothing that purging looks at moves.
LEMMA PurgeRestsAll ==
    ASSUME PurgeInv, UNCHANGED job, UNCHANGED row, UNCHANGED url, UNCHANGED object,
           UNCHANGED unremoved
    PROVE  PurgeInv'
BY DEF PurgeInv, Closed, Removed

\* A request goes on.
LEMMA GoesEffect ==
    ASSUME TypeOK, NEW r \in Requests, NEW p \in Positions, Goes(r, p)
    PROVE  /\ req' \in [Requests -> RequestState]
           /\ req'[r].pc = p /\ req'[r].f = req[r].f /\ req'[r].copy = req[r].copy
           /\ \A q \in Requests \ {r} : req'[q] = req[q]
BY DEF TypeOK, Goes, RequestState

\* A request ends.
LEMMA EndsEffect ==
    ASSUME TypeOK, NEW r \in Requests, Ends(r)
    PROVE  /\ req' \in [Requests -> RequestState]
           /\ req'[r].pc = "idle"
           /\ \A q \in Requests \ {r} : req'[q] = req[q]
<1>1. req[r].f \in Files
  BY DEF TypeOK
<1>2. NoRequest(req[r].f) \in RequestState /\ NoRequest(req[r].f).pc = "idle"
  BY <1>1 DEF NoRequest, RequestState, Positions, Blank, Columns, Statuses
<1>3. req' = [req EXCEPT ![r] = NoRequest(req[r].f)]
  BY DEF Ends
<1>. QED
  BY <1>2, <1>3 DEF TypeOK, RequestState

-----------------------------------------------------------------------------
(* The client's side and the clocks. *)

\* What a row, a URL and an object are made of.
LEMMA RowParts ==
    ASSUME TypeOK, NEW f \in Files
    PROVE  /\ row[f] \in Row /\ row[f].cols \in Columns
           /\ row[f].at \in {"none", "live", "gone"}
           /\ row[f].deleted \in BOOLEAN /\ row[f].expired \in BOOLEAN
           /\ url[f] \in UrlState /\ object[f] \in Objects
BY DEF TypeOK, Row, UrlState

\* Asking for an upload URL: only for a file that has no row yet.
LEMMA RequestingKeepsIt ==
    ASSUME IInv, NEW f \in Files, NEW public \in BOOLEAN, RequestUploadUrl(f, public)
    PROVE  IInv'
<1>0. TypeOK /\ ToldInv /\ PurgeInv
  BY DEF IInv
<1>1. /\ row[f].at = "none"
      /\ url' = [url EXCEPT ![f].valid = TRUE]
      /\ UNCHANGED object /\ UNCHANGED req /\ UNCHANGED job /\ UNCHANGED told
      /\ UNCHANGED started /\ UNCHANGED faults /\ UNCHANGED vetted /\ UNCHANGED final
      /\ UNCHANGED unremoved
  BY DEF RequestUploadUrl
<1>2. /\ row' \in [Files -> Row] /\ row'[f].at = "live" /\ row'[f].expired = row[f].expired
      /\ \A g \in Files \ {f} : row'[g] = row[g]
  <2> DEFINE c == [row[f].cols EXCEPT !.public = public]
             n == [row[f] EXCEPT !.at = "live", !.cols = c]
  <2>1. c \in Columns
    BY <1>0, RowParts DEF Columns
  <2>2. row' = [row EXCEPT ![f] = n]
    BY DEF RequestUploadUrl
  <2> HIDE DEF c
  <2>3. n \in Row /\ n.at = "live" /\ n.expired = row[f].expired
    BY <1>0, <2>1, RowParts DEF Row
  <2> HIDE DEF n
  <2>. QED
    BY <1>0, <2>2, <2>3 DEF TypeOK
<1>3. /\ url' \in [Files -> UrlState] /\ url'[f].overran = url[f].overran
      /\ \A g \in Files \ {f} : url'[g] = url[g]
  BY <1>0, <1>1, RowParts DEF TypeOK, UrlState
<1>4. TypeOK'
  BY <1>0, <1>1, <1>2, <1>3 DEF TypeOK, UrlState
<1>5. ToldInv'
  BY <1>0, <1>1, ToldRestsAll
<1>6. ~Closed(f) /\ ~row[f].expired
  BY <1>0, <1>1 DEF Closed, PurgeInv
<1>7. \A g \in Files : (Closed(g) => g # f /\ Closed(g)') /\ (g # f => (Removed(g) => Removed(g)'))
  BY <1>1, <1>2, <1>3, <1>6 DEF Closed, Removed
<1>8. PurgeInv'
  <2>1. \A g \in Files : row'[g].expired => Closed(g)'
    BY <1>0, <1>2, <1>6, <1>7 DEF PurgeInv
  <2>2. \A g \in Files : row'[g].at = "gone" => row[g].at = "gone"
    BY <1>2
  <2>. QED
    BY <1>0, <1>1, <1>7, <2>1, <2>2, PurgeRests
<1>. QED
  BY <1>4, <1>5, <1>8 DEF IInv

\* An upload: one that ends after the deadline is marked so.
LEMMA UploadingKeepsIt ==
    ASSUME IInv, NEW f \in Files,
           PutBegins(f) \/ (\E bytes \in Objects \ {"none"} : PutEnds(f, bytes)) \/ DeadlinePasses(f)
    PROVE  IInv'
<1>0. TypeOK /\ ToldInv /\ PurgeInv
  BY DEF IInv
<1>1. /\ UNCHANGED row /\ UNCHANGED req /\ UNCHANGED job /\ UNCHANGED told
      /\ UNCHANGED started /\ UNCHANGED faults /\ UNCHANGED vetted /\ UNCHANGED final
      /\ UNCHANGED unremoved
  BY DEF PutBegins, PutEnds, DeadlinePasses, seen
<1> DEFINE Uploaded ==
             /\ url' \in [Files -> UrlState] /\ object' \in [Files -> Objects]
             /\ \A g \in Files \ {f} : url'[g] = url[g] /\ object'[g] = object[g]
             /\ url'[f].valid => url[f].valid
             /\ \/ object'[f] = object[f] /\ url'[f].overran = url[f].overran
                \/ ~url[f].valid /\ url'[f].overran
                \/ url[f].valid
<1>2. Uploaded
  <2>1. ASSUME NEW u \in UrlState, NEW bytes \in Objects,
               url' = [url EXCEPT ![f] = u], object' = [object EXCEPT ![f] = bytes],
               u.valid => url[f].valid,
               \/ bytes = object[f] /\ u.overran = url[f].overran
               \/ ~url[f].valid /\ u.overran
               \/ url[f].valid
        PROVE  Uploaded
    BY <1>0, <2>1 DEF TypeOK, UrlState
  <2>2. url[f] \in UrlState /\ object[f] \in Objects /\ object = [object EXCEPT ![f] = object[f]]
    BY <1>0, RowParts DEF TypeOK
  <2>3. CASE PutBegins(f)
    <3> DEFINE u == [url[f] EXCEPT !.busy = TRUE]
    <3>1. u \in UrlState /\ u.valid = url[f].valid /\ u.overran = url[f].overran
      BY <2>2 DEF UrlState
    <3>2. url' = [url EXCEPT ![f] = u] /\ object' = object
      BY <1>0, <2>3 DEF PutBegins, TypeOK
    <3> HIDE DEF u
    <3>. QED
      BY <2>1, <2>2, <3>1, <3>2
  <2>4. CASE DeadlinePasses(f)
    <3> DEFINE u == [url[f] EXCEPT !.valid = FALSE]
    <3>1. u \in UrlState /\ ~u.valid /\ u.overran = url[f].overran
      BY <2>2 DEF UrlState
    <3>2. url' = [url EXCEPT ![f] = u] /\ object' = object
      BY <1>0, <2>4 DEF DeadlinePasses, TypeOK
    <3> HIDE DEF u
    <3>. QED
      BY <2>1, <2>2, <3>1, <3>2
  <2>5. ASSUME NEW bytes \in Objects \ {"none"}, PutEnds(f, bytes) PROVE Uploaded
    <3> DEFINE over == url[f].overran \/ ~url[f].valid
               u == [url[f] EXCEPT !.busy = FALSE, !.overran = over]
    <3>1. over \in BOOLEAN /\ (~url[f].valid => over)
      OBVIOUS
    <3>2. url' = [url EXCEPT ![f] = u]
      BY <1>0, <2>5 DEF PutEnds, TypeOK
    <3>3. object' = [object EXCEPT ![f] = bytes]
      BY <2>5 DEF PutEnds
    <3> HIDE DEF over
    <3>4. u \in UrlState /\ u.valid = url[f].valid /\ u.overran = over
      BY <2>2, <3>1 DEF UrlState
    <3> HIDE DEF u
    <3>. QED
      BY <2>1, <2>2, <3>1, <3>2, <3>3, <3>4
  <2>. QED
    BY <2>3, <2>4, <2>5
<1>3. TypeOK'
  BY <1>0, <1>1, <1>2 DEF TypeOK, UrlState
<1>4. ToldInv'
  BY <1>0, <1>1, ToldRestsAll
<1>5. \A g \in Files : (Closed(g) => Closed(g)') /\ (Closed(g) /\ Removed(g) => Removed(g)')
  BY <1>1, <1>2 DEF Closed, Removed
<1>6. PurgeInv'
  BY <1>0, <1>1, <1>5, PurgeRests DEF PurgeInv
<1>. QED
  BY <1>3, <1>4, <1>6 DEF IInv

\* Retention counts from a deletion, and its URL has long expired by then.
LEMMA ExpiringKeepsIt ==
    ASSUME IInv, NEW f \in Files, RetentionPasses(f)
    PROVE  IInv'
<1>0. TypeOK /\ ToldInv /\ PurgeInv
  BY DEF IInv
<1>1. /\ row[f].at = "live" /\ ~url[f].valid
      /\ row' = [row EXCEPT ![f].expired = TRUE]
      /\ UNCHANGED url /\ UNCHANGED object /\ UNCHANGED req /\ UNCHANGED job /\ UNCHANGED told
      /\ UNCHANGED started /\ UNCHANGED faults /\ UNCHANGED vetted /\ UNCHANGED final
      /\ UNCHANGED unremoved
  BY DEF RetentionPasses, seen
<1>2. /\ row' \in [Files -> Row] /\ \A g \in Files : row'[g].at = row[g].at
      /\ \A g \in Files \ {f} : row'[g] = row[g]
  BY <1>0, <1>1, RowParts DEF TypeOK, Row
<1>3. TypeOK'
  BY <1>0, <1>1, <1>2 DEF TypeOK
<1>4. ToldInv'
  BY <1>0, <1>1, ToldRestsAll
<1>5. Closed(f)' /\ \A g \in Files : (Closed(g) => Closed(g)') /\ (Removed(g) => Removed(g)')
  BY <1>1, <1>2 DEF Closed, Removed
<1>6. \A g \in Files : row'[g].expired => Closed(g)'
  <2> SUFFICES ASSUME NEW g \in Files, row'[g].expired PROVE Closed(g)'
    OBVIOUS
  <2>1. CASE g = f
    BY <1>1, <1>2, <2>1 DEF Closed
  <2>2. CASE g # f
    BY <1>0, <1>2, <1>5, <2>2 DEF PurgeInv
  <2>. QED
    BY <2>1, <2>2
<1>7. PurgeInv'
  BY <1>0, <1>1, <1>2, <1>5, <1>6, PurgeRests
<1>. QED
  BY <1>3, <1>4, <1>7 DEF IInv

-----------------------------------------------------------------------------
(* Requests. *)

\* A handler that has read its row.
LEMMA LoadingKeepsIt ==
    ASSUME IInv, NEW r \in Requests, NEW f \in Files,
           \/ FinalizeLoads(r, f) \/ DeleteLoads(r, f) \/ RestoreLoads(r, f)
           \/ \E public \in BOOLEAN : ChangeVisibilityLoads(r, f, public)
    PROVE  IInv'
<1>0. TypeOK /\ ToldInv /\ PurgeInv
  BY DEF IInv
<1>1. PICK pc \in Positions \ {"save", "tell"} : Loads(r, f, pc)
  BY DEF FinalizeLoads, DeleteLoads, RestoreLoads, ChangeVisibilityLoads, Positions
<1>2. /\ started < MaxRequests /\ started' = started + 1
      /\ req' = [req EXCEPT ![r] = [pc |-> pc, f |-> f, copy |-> row[f].cols]]
      /\ UNCHANGED row /\ UNCHANGED url /\ UNCHANGED object /\ UNCHANGED job /\ UNCHANGED told
      /\ UNCHANGED faults /\ UNCHANGED vetted /\ UNCHANGED final /\ UNCHANGED unremoved
  BY <1>1 DEF Loads, seen
<1>3. /\ req' \in [Requests -> RequestState] /\ req'[r].pc = pc
      /\ \A q \in Requests \ {r} : req'[q] = req[q]
  BY <1>0, <1>2, RowParts DEF TypeOK, RequestState
<1>4. started' \in 0..MaxRequests
  BY <1>0, <1>2, BoundsAssumption DEF TypeOK
<1>5. TypeOK'
  BY <1>0, <1>2, <1>3, <1>4 DEF TypeOK, RequestState
<1>6. ToldInv'
  BY <1>0, <1>2, <1>3, RequestIsQuiet, ToldRests
<1>7. PurgeInv'
  BY <1>0, <1>2, PurgeRestsAll
<1>. QED
  BY <1>5, <1>6, <1>7 DEF IInv

\* The checks of a finalize change nothing but its position, and a scan that condemns nothing vets.
LEMMA CheckingKeepsIt ==
    ASSUME IInv, NEW r \in Requests,
           FinalizeHead(r) \/ FinalizePrefix(r) \/ \E scan \in Scans : FinalizeScan(r, scan)
    PROVE  IInv'
<1>0. TypeOK /\ ToldInv /\ PurgeInv
  BY DEF IInv
<1>1. /\ UNCHANGED row /\ UNCHANGED url /\ UNCHANGED object /\ UNCHANGED job /\ UNCHANGED told
      /\ UNCHANGED started /\ UNCHANGED faults /\ UNCHANGED final /\ UNCHANGED unremoved
  BY DEF FinalizeHead, FinalizePrefix, FinalizeScan, seen
<1>2. PurgeInv'
  BY <1>0, <1>1, PurgeRestsAll
<1>3. /\ req' \in [Requests -> RequestState] /\ \A q \in Requests \ {r} : req'[q] = req[q]
      /\ vetted' \subseteq Files /\ vetted \subseteq vetted'
      /\ RequestFits(r)'
  <2>1. CASE FinalizeHead(r) \/ FinalizePrefix(r)
    <3>1. Ends(r) \/ \E p \in Positions \ {"save", "tell"} : Goes(r, p)
      BY <2>1 DEF FinalizeHead, FinalizePrefix, Positions
    <3>2. /\ req' \in [Requests -> RequestState] /\ \A q \in Requests \ {r} : req'[q] = req[q]
          /\ req'[r].pc \notin {"save", "tell"}
      BY <1>0, <3>1, GoesEffect, EndsEffect
    <3>3. UNCHANGED vetted
      BY <2>1 DEF FinalizeHead, FinalizePrefix, seen
    <3>. QED
      BY <1>0, <3>2, <3>3, RequestIsQuiet DEF TypeOK
  <2>2. ASSUME NEW scan \in Scans, FinalizeScan(r, scan)
        PROVE  /\ req' \in [Requests -> RequestState] /\ \A q \in Requests \ {r} : req'[q] = req[q]
               /\ vetted' \subseteq Files /\ vetted \subseteq vetted'
               /\ RequestFits(r)'
    <3> DEFINE c == [req[r].copy EXCEPT !.status = MarkAvailable(scan)]
               s == [req[r] EXCEPT !.pc = "save", !.copy = c]
    <3>1. req[r] \in RequestState /\ req[r].copy \in Columns
      BY <1>0 DEF TypeOK, RequestState
    <3>2. MarkAvailable(scan) \in Statuses
      BY DEF MarkAvailable, Statuses
    <3>3. c \in Columns /\ c.status = MarkAvailable(scan)
      BY <3>1, <3>2 DEF Columns
    <3>4. req' = [req EXCEPT ![r] = s]
      <4>1. req' = [req EXCEPT ![r].pc = "save", ![r].copy.status = MarkAvailable(scan)]
        BY <2>2 DEF FinalizeScan
      <4>2. req \in [Requests -> RequestState]
        BY <1>0 DEF TypeOK, RequestState
      <4>. QED
        BY <4>1, <4>2, <3>1
    <3> HIDE DEF c
    <3>5. s \in RequestState /\ s.f = req[r].f /\ s.pc = "save" /\ s.copy = c
      BY <3>1, <3>3 DEF RequestState, Positions
    <3> HIDE DEF s
    <3>6. /\ req'[r].f = req[r].f /\ req'[r].pc = "save"
          /\ req'[r].copy.status = MarkAvailable(scan)
      BY <1>0, <3>3, <3>4, <3>5 DEF TypeOK
    <3>7. vetted' = IF scan \in Condemning THEN vetted ELSE vetted \cup {req[r].f}
      BY <2>2 DEF FinalizeScan
    <3>8. RequestFits(r)'
      BY <3>6, <3>7 DEF RequestFits, MarkAvailable
    <3>9. vetted' \subseteq Files /\ vetted \subseteq vetted'
      BY <1>0, <3>1, <3>7 DEF TypeOK, RequestState
    <3>10. req' \in [Requests -> RequestState] /\ \A q \in Requests \ {r} : req'[q] = req[q]
      BY <1>0, <3>4, <3>5 DEF TypeOK, RequestState
    <3>. QED
      BY <3>8, <3>9, <3>10
  <2>. QED
    BY <2>1, <2>2
<1>4. TypeOK'
  BY <1>0, <1>1, <1>3 DEF TypeOK, RequestState
<1>5. ToldInv'
  BY <1>0, <1>1, <1>3, ToldRests
<1>. QED
  BY <1>2, <1>4, <1>5 DEF IInv

\* A save keeps a row's place, and its retention starts anew or is left alone.
LEMMA SavedRowsRest ==
    ASSUME IInv, NEW r \in Requests, NEW w \in Row, Saves(r, w),
           w.at = row[req[r].f].at, w.expired => row[req[r].f].expired,
           UNCHANGED url, UNCHANGED object, UNCHANGED unremoved, UNCHANGED job
    PROVE  row' \in [Files -> Row] /\ PurgeInv'
<1>0. TypeOK /\ PurgeInv
  BY DEF IInv
<1>1. row' = row \/ row' = [row EXCEPT ![req[r].f] = w]
  BY DEF Saves
<1>2. row \in [Files -> Row] /\ req[r].f \in Files
  BY <1>0 DEF TypeOK
<1>3. /\ row' \in [Files -> Row] /\ \A f \in Files : row'[f].at = row[f].at
      /\ \A f \in Files : row'[f].expired => row[f].expired
  BY <1>1, <1>2
<1>4. \A f \in Files : (Closed(f) => Closed(f)') /\ (Removed(f) => Removed(f)')
  BY <1>3 DEF Closed, Removed
<1>5. PurgeInv'
  BY <1>0, <1>3, <1>4, PurgeRests DEF PurgeInv
<1>. QED
  BY <1>3, <1>5

\* A finalize saves the verdict that its scan earned.
LEMMA FinalizingKeepsIt ==
    ASSUME IInv, NEW r \in Requests, FinalizeSaves(r)
    PROVE  IInv'
<1> DEFINE f == req[r].f
           w == [row[f] EXCEPT !.cols.status = req[r].copy.status]
<1>0. TypeOK /\ ToldInv /\ PurgeInv
  BY DEF IInv
<1>1. /\ req[r].pc = "save" /\ Saves(r, w)
      /\ IF row[f].at = "live" THEN Goes(r, "tell") /\ final' = final \cup {f}
                               ELSE Ends(r) /\ UNCHANGED final
      /\ UNCHANGED url /\ UNCHANGED object /\ UNCHANGED job /\ UNCHANGED told
      /\ UNCHANGED started /\ UNCHANGED faults /\ UNCHANGED vetted /\ UNCHANGED unremoved
  BY DEF FinalizeSaves
<1>2. f \in Files /\ req[r].copy.status \in Statuses
  BY <1>0 DEF TypeOK, Columns
<1>3. w \in Row /\ w.at = row[f].at /\ w.expired = row[f].expired
  BY <1>0, <1>2, RowParts DEF Row, Columns
<1> HIDE DEF w
<1>4. row' \in [Files -> Row] /\ PurgeInv'
  BY <1>1, <1>3, SavedRowsRest
<1>5. final' \subseteq Files /\ final \subseteq final'
  BY <1>0, <1>1, <1>2 DEF TypeOK
<1>6. /\ req' \in [Requests -> RequestState] /\ \A q \in Requests \ {r} : req'[q] = req[q]
      /\ RequestFits(r)'
  <2>1. CASE row[f].at = "live"
    <3>1. Goes(r, "tell") /\ "tell" \in Positions /\ final' = final \cup {f}
      BY <1>1, <2>1 DEF Positions
    <3>2. /\ req' \in [Requests -> RequestState] /\ \A q \in Requests \ {r} : req'[q] = req[q]
          /\ req'[r].f = f /\ req'[r].copy = req[r].copy
      BY <1>0, <3>1, GoesEffect
    <3>3. req[r].copy.status = "Available" => f \in vetted
      BY <1>0, <1>1 DEF ToldInv, RequestFits
    <3>4. RequestFits(r)'
      BY <1>1, <3>1, <3>2, <3>3 DEF RequestFits
    <3>. QED
      BY <3>2, <3>4
  <2>2. CASE row[f].at # "live"
    BY <1>0, <1>1, <2>2, EndsEffect, RequestIsQuiet
  <2>. QED
    BY <2>1, <2>2
<1>7. TypeOK'
  BY <1>0, <1>1, <1>4, <1>5, <1>6 DEF TypeOK, RequestState
<1>8. ToldInv'
  BY <1>0, <1>1, <1>5, <1>6, ToldRests
<1>. QED
  BY <1>4, <1>7, <1>8 DEF IInv

\* The event says what was saved.
LEMMA TellingKeepsIt ==
    ASSUME IInv, NEW r \in Requests, FinalizeTells(r)
    PROVE  IInv'
<1>0. TypeOK /\ ToldInv /\ PurgeInv
  BY DEF IInv
<1>1. /\ req[r].pc = "tell" /\ Ends(r)
      /\ told' = [told EXCEPT ![req[r].f] = @ \cup {req[r].copy.status}]
      /\ UNCHANGED row /\ UNCHANGED url /\ UNCHANGED object /\ UNCHANGED job
      /\ UNCHANGED started /\ UNCHANGED faults /\ UNCHANGED vetted /\ UNCHANGED final
      /\ UNCHANGED unremoved
  BY DEF FinalizeTells, seen
<1>2. req[r].f \in Files /\ req[r].copy.status \in Statuses
  BY <1>0 DEF TypeOK, Columns
<1>3. /\ req' \in [Requests -> RequestState] /\ \A q \in Requests \ {r} : req'[q] = req[q]
      /\ req'[r].pc = "idle"
  BY <1>0, <1>1, EndsEffect
<1>4. told' \in [Files -> SUBSET Statuses]
  BY <1>0, <1>1, <1>2 DEF TypeOK
<1>5. TypeOK'
  BY <1>0, <1>1, <1>3, <1>4 DEF TypeOK, RequestState
<1>6. req[r].f \in final /\ (req[r].copy.status = "Available" => req[r].f \in vetted)
  BY <1>0, <1>1 DEF ToldInv, RequestFits
<1>7. EventsAreTrue'
  BY <1>0, <1>1, <1>6 DEF ToldInv, EventsAreTrue, TypeOK
<1>8. RequestFits(r)'
  BY <1>3, RequestIsQuiet
<1>9. \A q \in Requests \ {r} : RequestFits(q)'
  BY <1>0, <1>1, <1>3, RequestRests DEF ToldInv
<1>10. PurgeInv'
  BY <1>0, <1>1, PurgeRestsAll
<1>. QED
  BY <1>5, <1>7, <1>8, <1>9, <1>10 DEF IInv, ToldInv

\* A refusal takes the object away before it drops the row.
LEMMA RefusingKeepsIt ==
    ASSUME IInv, NEW r \in Requests, RefuseRemoves(r)
    PROVE  IInv'
<1>0. TypeOK /\ ToldInv /\ PurgeInv
  BY DEF IInv
<1>1. /\ object' = [object EXCEPT ![req[r].f] = "none"] /\ Goes(r, "drop")
      /\ UNCHANGED row /\ UNCHANGED url /\ UNCHANGED job /\ UNCHANGED told
      /\ UNCHANGED started /\ UNCHANGED faults /\ UNCHANGED vetted /\ UNCHANGED final
      /\ UNCHANGED unremoved
  BY DEF RefuseRemoves, seen
<1>2. "drop" \in Positions
  BY DEF Positions
<1>3. /\ req' \in [Requests -> RequestState] /\ \A q \in Requests \ {r} : req'[q] = req[q]
      /\ req'[r].pc = "drop"
  BY <1>0, <1>1, <1>2, GoesEffect
<1>4. /\ object' \in [Files -> Objects]
      /\ \A f \in Files : object'[f] = object[f] \/ object'[f] = "none"
  BY <1>0, <1>1 DEF TypeOK, Objects
<1>5. TypeOK'
  BY <1>0, <1>1, <1>3, <1>4 DEF TypeOK, RequestState
<1>6. ToldInv'
  BY <1>0, <1>1, <1>3, RequestIsQuiet, ToldRests
<1>7. \A f \in Files : (Closed(f) => Closed(f)') /\ (Removed(f) => Removed(f)')
  BY <1>1, <1>4 DEF Closed, Removed
<1>8. PurgeInv'
  BY <1>0, <1>1, <1>7, PurgeRests DEF PurgeInv
<1>. QED
  BY <1>5, <1>6, <1>8 DEF IInv

\* Deletes, restores and shares write what they write and end.
LEMMA WritingKeepsIt ==
    ASSUME IInv, NEW r \in Requests,
           SoftDeletes(r) \/ RestoreSaves(r) \/ ChangeVisibilitySaves(r)
    PROVE  IInv'
<1> DEFINE f == req[r].f
<1>0. TypeOK /\ ToldInv /\ PurgeInv
  BY DEF IInv
<1>1. /\ Ends(r) /\ UNCHANGED url /\ UNCHANGED object /\ UNCHANGED job /\ UNCHANGED told
      /\ UNCHANGED started /\ UNCHANGED faults /\ UNCHANGED vetted /\ UNCHANGED final
      /\ UNCHANGED unremoved
  BY DEF SoftDeletes, RestoreSaves, ChangeVisibilitySaves, seen
<1>2. f \in Files /\ req[r].copy \in Columns
  BY <1>0 DEF TypeOK
<1>3. \E w \in Row : /\ w.at = row[f].at /\ (w.expired => row[f].expired)
                     /\ Saves(r, w)
  <2>0. row[f] \in Row /\ row[f].cols \in Columns
    BY <1>0, <1>2, RowParts
  <2>1. CASE SoftDeletes(r)
    <3> DEFINE w == [row[f] EXCEPT !.cols = req[r].copy, !.deleted = TRUE, !.expired = FALSE]
    <3>1. w \in Row /\ w.at = row[f].at /\ ~w.expired
      BY <1>2, <2>0 DEF Row
    <3>2. Saves(r, w)
      BY <2>1 DEF SoftDeletes
    <3>. QED
      BY <3>1, <3>2
  <2>2. CASE RestoreSaves(r)
    <3> DEFINE w == [row[f] EXCEPT !.deleted = FALSE, !.expired = FALSE]
    <3>1. w \in Row /\ w.at = row[f].at /\ ~w.expired
      BY <2>0 DEF Row
    <3>2. Saves(r, w)
      BY <2>2 DEF RestoreSaves
    <3>. QED
      BY <3>1, <3>2
  <2>3. CASE ChangeVisibilitySaves(r)
    <3> DEFINE public == req[r].pc = "share"
               w == [row[f] EXCEPT !.cols.public = public]
    <3>0. public \in BOOLEAN
      OBVIOUS
    <3>2. Saves(r, w)
      BY <2>3 DEF ChangeVisibilitySaves
    <3> HIDE DEF public
    <3>1. w \in Row /\ w.at = row[f].at /\ w.expired = row[f].expired
      BY <2>0, <3>0 DEF Row, Columns
    <3>. QED
      BY <3>1, <3>2
  <2>. QED
    BY <2>1, <2>2, <2>3
<1>4. row' \in [Files -> Row] /\ PurgeInv'
  BY <1>1, <1>3, SavedRowsRest
<1>5. /\ req' \in [Requests -> RequestState] /\ \A q \in Requests \ {r} : req'[q] = req[q]
      /\ req'[r].pc = "idle"
  BY <1>0, <1>1, EndsEffect
<1>6. TypeOK'
  BY <1>0, <1>1, <1>4, <1>5 DEF TypeOK, RequestState
<1>7. ToldInv'
  BY <1>0, <1>1, <1>5, RequestIsQuiet, ToldRests
<1>. QED
  BY <1>4, <1>6, <1>7 DEF IInv

\* A request that dies leaves what it has done.
LEMMA DyingKeepsIt ==
    ASSUME IInv, NEW r \in Requests, RequestDies(r)
    PROVE  IInv'
<1>0. TypeOK /\ ToldInv /\ PurgeInv
  BY DEF IInv
<1>1. /\ Ends(r) /\ faults < MaxFaults /\ faults' = faults + 1
      /\ UNCHANGED row /\ UNCHANGED url /\ UNCHANGED object /\ UNCHANGED job /\ UNCHANGED told
      /\ UNCHANGED started /\ UNCHANGED vetted /\ UNCHANGED final /\ UNCHANGED unremoved
  BY DEF RequestDies, seen
<1>2. /\ req' \in [Requests -> RequestState] /\ \A q \in Requests \ {r} : req'[q] = req[q]
      /\ req'[r].pc = "idle"
  BY <1>0, <1>1, EndsEffect
<1>3. faults' \in 0..MaxFaults
  BY <1>0, <1>1, BoundsAssumption DEF TypeOK
<1>4. TypeOK'
  BY <1>0, <1>1, <1>2, <1>3 DEF TypeOK, RequestState
<1>5. ToldInv'
  BY <1>0, <1>1, <1>2, RequestIsQuiet, ToldRests
<1>6. PurgeInv'
  BY <1>0, <1>1, PurgeRestsAll
<1>. QED
  BY <1>4, <1>5, <1>6 DEF IInv

-----------------------------------------------------------------------------
(* The purge jobs. *)

\* What a purge picks up is closed: an orphan's deadline has passed, and a deleted
\* file's retention counted from a deletion after it.
LEMMA PickingKeepsIt ==
    ASSUME IInv, NEW j \in Jobs, PurgeLoads(j)
    PROVE  IInv'
<1> DEFINE n == [pc |-> "removing", files |-> Candidates(j), left |-> Candidates(j)]
<1>0. TypeOK /\ ToldInv /\ PurgeInv
  BY DEF IInv
<1>1. /\ job' = [job EXCEPT ![j] = n]
      /\ UNCHANGED row /\ UNCHANGED url /\ UNCHANGED object /\ UNCHANGED req /\ UNCHANGED told
      /\ UNCHANGED started /\ UNCHANGED faults /\ UNCHANGED vetted /\ UNCHANGED final
      /\ UNCHANGED unremoved
  BY DEF PurgeLoads, seen
<1>2. \A f \in Candidates(j) : f \in Files /\ Closed(f)
  BY <1>0 DEF Candidates, Live, Closed, PurgeInv
<1>3. n \in JobState /\ n.files = n.left /\ \A f \in n.files : Closed(f)
  BY <1>2 DEF JobState
<1> HIDE DEF n
<1>4. /\ job' \in [Jobs -> JobState] /\ job'[j] = n
      /\ \A k \in Jobs \ {j} : job'[k] = job[k]
  BY <1>0, <1>1, <1>3 DEF TypeOK, JobState
<1>5. TypeOK'
  BY <1>0, <1>1, <1>4 DEF TypeOK, JobState
<1>6. ToldInv'
  BY <1>0, <1>1, ToldRestsAll
<1>7. \A f : (Closed(f)' <=> Closed(f)) /\ (Removed(f)' <=> Removed(f))
  BY <1>1 DEF Closed, Removed
<1>8. \A k \in Jobs : \A f \in job'[k].files : Closed(f)' /\ (f \notin job'[k].left => Removed(f)')
  <2>1. \A f \in job'[j].files : Closed(f)' /\ (f \notin job'[j].left => Removed(f)')
    BY <1>3, <1>4, <1>7
  <2>2. \A k \in Jobs \ {j} : \A f \in job'[k].files :
          Closed(f)' /\ (f \notin job'[k].left => Removed(f)')
    BY <1>0, <1>4, <1>7 DEF PurgeInv
  <2>. QED
    BY <2>1, <2>2
<1>9. PurgeInv'
  BY <1>0, <1>1, <1>7, <1>8 DEF PurgeInv
<1>. QED
  BY <1>5, <1>6, <1>9 DEF IInv

\* A removal empties the key, or fails and is written down.
LEMMA RemovingKeepsIt ==
    ASSUME IInv, NEW j \in Jobs, NEW f \in Files, PurgeRemoves(j, f)
    PROVE  IInv'
<1> DEFINE n == [job[j] EXCEPT !.left = @ \ {f}]
<1>0. TypeOK /\ ToldInv /\ PurgeInv
  BY DEF IInv
<1>1. /\ job' = [job EXCEPT ![j].left = @ \ {f}]
      /\ UNCHANGED row /\ UNCHANGED url /\ UNCHANGED req /\ UNCHANGED told
      /\ UNCHANGED started /\ UNCHANGED vetted /\ UNCHANGED final
  BY DEF PurgeRemoves
<1>2. \/ object' = [object EXCEPT ![f] = "none"] /\ UNCHANGED faults /\ UNCHANGED unremoved
      \/ /\ faults < MaxFaults /\ faults' = faults + 1
         /\ unremoved' = unremoved \cup {f} /\ UNCHANGED object
  BY DEF PurgeRemoves
<1>3. job[j] \in JobState
  BY <1>0 DEF TypeOK, JobState
<1>4. n \in JobState /\ n.files = job[j].files /\ n.left = job[j].left \ {f}
  BY <1>3 DEF JobState
<1>5. job' = [job EXCEPT ![j] = n]
  BY <1>0, <1>1 DEF TypeOK
<1> HIDE DEF n
<1>6. /\ job' \in [Jobs -> JobState] /\ job'[j] = n
      /\ \A k \in Jobs \ {j} : job'[k] = job[k]
  BY <1>0, <1>4, <1>5 DEF TypeOK, JobState
<1>7. /\ object' \in [Files -> Objects] /\ unremoved' \subseteq Files
      /\ object'[f] = "none" \/ f \in unremoved'
      /\ \A g \in Files : (object'[g] = object[g] \/ object'[g] = "none")
      /\ unremoved \subseteq unremoved'
  BY <1>0, <1>2 DEF TypeOK, Objects
<1>8. faults' \in 0..MaxFaults
  BY <1>0, <1>2, BoundsAssumption DEF TypeOK
<1>9. TypeOK'
  BY <1>0, <1>1, <1>6, <1>7, <1>8 DEF TypeOK, JobState
<1>10. ToldInv'
  BY <1>0, <1>1, ToldRestsAll
<1>11. /\ Removed(f)'
       /\ \A g \in Files : (Closed(g) => Closed(g)') /\ (Removed(g) => Removed(g)')
  BY <1>1, <1>7 DEF Closed, Removed
<1>12. \A k \in Jobs : job[k].files \subseteq Files
  BY <1>0 DEF TypeOK
<1>13. \A k \in Jobs : \A g \in job'[k].files :
         Closed(g)' /\ (g \notin job'[k].left => Removed(g)')
  <2>1. \A g \in job'[j].files : Closed(g)' /\ (g \notin job'[j].left => Removed(g)')
    BY <1>0, <1>4, <1>6, <1>11, <1>12 DEF PurgeInv
  <2>2. \A k \in Jobs \ {j} : \A g \in job'[k].files :
          Closed(g)' /\ (g \notin job'[k].left => Removed(g)')
    BY <1>0, <1>6, <1>11, <1>12 DEF PurgeInv
  <2>. QED
    BY <2>1, <2>2
<1>14. PurgeInv'
  BY <1>0, <1>1, <1>11, <1>13 DEF PurgeInv
<1>. QED
  BY <1>9, <1>10, <1>14 DEF IInv

\* A job that ends, or dies, holds no file.
LEMMA NoRunEffect ==
    ASSUME TypeOK, NEW j \in Jobs, job' = [job EXCEPT ![j] = NoRun]
    PROVE  /\ job' \in [Jobs -> JobState] /\ job'[j].files = {}
           /\ \A k \in Jobs \ {j} : job'[k] = job[k]
BY DEF TypeOK, JobState, NoRun

\* The rows that go had their objects removed first.
LEMMA PurgingKeepsIt ==
    ASSUME IInv, NEW j \in Jobs, PurgeDeletes(j)
    PROVE  IInv'
<1> DEFINE goes(f) == f \in job[j].files /\ (j = "orphans" => ~row[f].deleted)
<1>0. TypeOK /\ ToldInv /\ PurgeInv
  BY DEF IInv
<1>1. /\ job[j].left = {} /\ job' = [job EXCEPT ![j] = NoRun]
      /\ row' = [f \in Files |-> IF goes(f) THEN [row[f] EXCEPT !.at = "gone"] ELSE row[f]]
      /\ UNCHANGED url /\ UNCHANGED object /\ UNCHANGED req /\ UNCHANGED told
      /\ UNCHANGED started /\ UNCHANGED faults /\ UNCHANGED vetted /\ UNCHANGED final
      /\ UNCHANGED unremoved
  BY DEF PurgeDeletes, seen
<1>2. \A f : goes(f) => Closed(f) /\ Removed(f)
  BY <1>0, <1>1 DEF PurgeInv
<1> HIDE DEF goes
<1>3. /\ row' \in [Files -> Row]
      /\ \A f \in Files : row'[f].at = row[f].at \/ (goes(f) /\ row'[f].at = "gone")
      /\ \A f \in Files : row'[f].expired = row[f].expired
  <2>1. ASSUME NEW f \in Files
        PROVE  /\ [row[f] EXCEPT !.at = "gone"] \in Row
               /\ [row[f] EXCEPT !.at = "gone"].at = "gone"
               /\ [row[f] EXCEPT !.at = "gone"].expired = row[f].expired
    BY <1>0, RowParts DEF Row
  <2>2. \A f \in Files : row[f] \in Row
    BY <1>0, RowParts
  <2>. QED
    BY <1>1, <2>1, <2>2
<1>4. /\ job' \in [Jobs -> JobState] /\ job'[j].files = {}
      /\ \A k \in Jobs \ {j} : job'[k] = job[k]
  BY <1>0, <1>1, NoRunEffect
<1>5. TypeOK'
  BY <1>0, <1>1, <1>3, <1>4 DEF TypeOK, JobState
<1>6. ToldInv'
  BY <1>0, <1>1, ToldRestsAll
<1>7. \A f \in Files : (Closed(f) => Closed(f)') /\ (Removed(f) => Removed(f)')
  BY <1>1, <1>3 DEF Closed, Removed
<1>8. \A f \in Files : row'[f].expired => Closed(f)'
  BY <1>0, <1>3, <1>7 DEF PurgeInv
<1>9. \A f \in Files : row'[f].at = "gone" => Closed(f)' /\ Removed(f)'
  BY <1>0, <1>2, <1>3, <1>7 DEF PurgeInv
<1>10. \A k \in Jobs : job[k].files \subseteq Files
  BY <1>0 DEF TypeOK
<1>11. \A k \in Jobs : \A f \in job'[k].files :
         Closed(f)' /\ (f \notin job'[k].left => Removed(f)')
  BY <1>0, <1>4, <1>7, <1>10 DEF PurgeInv
<1>12. PurgeInv'
  BY <1>8, <1>9, <1>11 DEF PurgeInv
<1>. QED
  BY <1>5, <1>6, <1>12 DEF IInv

\* A job that dies leaves what it has removed.
LEMMA JobDyingKeepsIt ==
    ASSUME IInv, NEW j \in Jobs, PurgeDies(j)
    PROVE  IInv'
<1>0. TypeOK /\ ToldInv /\ PurgeInv
  BY DEF IInv
<1>1. /\ job' = [job EXCEPT ![j] = NoRun] /\ faults < MaxFaults /\ faults' = faults + 1
      /\ UNCHANGED row /\ UNCHANGED url /\ UNCHANGED object /\ UNCHANGED req /\ UNCHANGED told
      /\ UNCHANGED started /\ UNCHANGED vetted /\ UNCHANGED final /\ UNCHANGED unremoved
  BY DEF PurgeDies, seen
<1>2. /\ job' \in [Jobs -> JobState] /\ job'[j].files = {}
      /\ \A k \in Jobs \ {j} : job'[k] = job[k]
  BY <1>0, <1>1, NoRunEffect
<1>3. faults' \in 0..MaxFaults
  BY <1>0, <1>1, BoundsAssumption DEF TypeOK
<1>4. TypeOK'
  BY <1>0, <1>1, <1>2, <1>3 DEF TypeOK, JobState
<1>5. ToldInv'
  BY <1>0, <1>1, ToldRestsAll
<1>6. \A f : (Closed(f)' <=> Closed(f)) /\ (Removed(f)' <=> Removed(f))
  BY <1>1 DEF Closed, Removed
<1>7. \A k \in Jobs : \A f \in job'[k].files : Closed(f)' /\ (f \notin job'[k].left => Removed(f)')
  BY <1>0, <1>2, <1>6 DEF PurgeInv
<1>8. PurgeInv'
  BY <1>0, <1>1, <1>6, <1>7 DEF PurgeInv
<1>. QED
  BY <1>4, <1>5, <1>8 DEF IInv

-----------------------------------------------------------------------------

\* No file has a row, no request and no job is under way.
LEMMA StartsIn == Init => IInv
<1> SUFFICES ASSUME Init PROVE IInv
  OBVIOUS
<1> DEFINE some == CHOOSE f \in Files : TRUE
<1>1. some \in Files
  BY BoundsAssumption
<1>2. Blank \in Columns /\ "idle" \in Positions /\ "none" \in Objects
  BY DEF Blank, Columns, Statuses, Positions, Objects
<1>3. NoRequest(some) \in RequestState /\ NoRequest(some).pc = "idle"
  BY <1>1, <1>2 DEF NoRequest, RequestState
<1> HIDE DEF some
<1>4. NoRun \in JobState /\ NoRun.files = {}
  BY DEF NoRun, JobState
<1>5. req \in [Requests -> RequestState] /\ \A r \in Requests : req[r].pc = "idle"
  BY <1>3 DEF Init, some
<1>6. job \in [Jobs -> JobState] /\ \A j \in Jobs : job[j].files = {}
  BY <1>4 DEF Init
<1>7. /\ row \in [Files -> Row]
      /\ \A f \in Files : row[f].at = "none" /\ ~row[f].expired
  BY <1>2 DEF Init, Row
<1>8. url \in [Files -> UrlState] /\ object \in [Files -> Objects]
  BY <1>2 DEF Init, UrlState
<1>9. /\ told \in [Files -> SUBSET Statuses] /\ \A f \in Files : told[f] = {}
      /\ started \in 0..MaxRequests /\ faults \in 0..MaxFaults
      /\ vetted \subseteq Files /\ final \subseteq Files /\ unremoved \subseteq Files
  BY BoundsAssumption DEF Init
<1>10. TypeOK
  BY <1>5, <1>6, <1>7, <1>8, <1>9 DEF TypeOK, RequestState, JobState, UrlState
<1>11. ToldInv
  BY <1>5, <1>9 DEF ToldInv, EventsAreTrue, RequestFits
<1>12. PurgeInv
  BY <1>6, <1>7 DEF PurgeInv
<1>. QED
  BY <1>10, <1>11, <1>12 DEF IInv

\* Every step, one lemma per kind of step.
LEMMA StaysIn == IInv /\ [Next]_vars => IInv'
<1> SUFFICES ASSUME IInv, [Next]_vars PROVE IInv'
  OBVIOUS
<1>1. CASE UNCHANGED vars
  <2>0. TypeOK /\ ToldInv /\ PurgeInv
    BY DEF IInv
  <2>1. /\ UNCHANGED row /\ UNCHANGED url /\ UNCHANGED object /\ UNCHANGED req /\ UNCHANGED job
        /\ UNCHANGED told /\ UNCHANGED started /\ UNCHANGED faults /\ UNCHANGED vetted
        /\ UNCHANGED final /\ UNCHANGED unremoved
    BY <1>1 DEF vars
  <2>2. TypeOK'
    BY <2>0, <2>1 DEF TypeOK
  <2>3. ToldInv' /\ PurgeInv'
    BY <2>0, <2>1, ToldRestsAll, PurgeRestsAll
  <2>. QED
    BY <2>2, <2>3 DEF IInv
<1>2. ASSUME NEW f \in Files, NEW public \in BOOLEAN, RequestUploadUrl(f, public) PROVE IInv'
  BY <1>2, RequestingKeepsIt
<1>3. ASSUME NEW f \in Files,
             \/ PutBegins(f) \/ (\E bytes \in Objects \ {"none"} : PutEnds(f, bytes))
             \/ DeadlinePasses(f)
      PROVE  IInv'
  BY <1>3, UploadingKeepsIt
<1>4. ASSUME NEW f \in Files, RetentionPasses(f) PROVE IInv'
  BY <1>4, ExpiringKeepsIt
<1>5. ASSUME NEW r \in Requests, NEW f \in Files,
             \/ FinalizeLoads(r, f) \/ DeleteLoads(r, f) \/ RestoreLoads(r, f)
             \/ \E public \in BOOLEAN : ChangeVisibilityLoads(r, f, public)
      PROVE  IInv'
  BY <1>5, LoadingKeepsIt
<1>6. ASSUME NEW r \in Requests, RequestStep(r) PROVE IInv'
  BY <1>6, CheckingKeepsIt, FinalizingKeepsIt, TellingKeepsIt, RefusingKeepsIt, WritingKeepsIt
     DEF RequestStep
<1>7. ASSUME NEW r \in Requests, RequestDies(r) PROVE IInv'
  BY <1>7, DyingKeepsIt
<1>8. ASSUME NEW j \in Jobs, JobStep(j) PROVE IInv'
  BY <1>8, PickingKeepsIt, RemovingKeepsIt, PurgingKeepsIt DEF JobStep
<1>9. ASSUME NEW j \in Jobs, PurgeDies(j) PROVE IInv'
  BY <1>9, JobDyingKeepsIt
<1>. QED
  BY <1>1, <1>2, <1>3, <1>4, <1>5, <1>6, <1>7, <1>8, <1>9 DEF Next

\* However finalizes, deletes, restores, uploads, purges, crashes and clocks
\* interleave: an announced file was saved, and was vetted when it is announced as
\* Available (FinalizeUploadCommandHandler.cs); an object without a row is one whose
\* removal failed or whose upload overran its deadline (the purge jobs).
THEOREM LifecycleSafeHolds == Spec => []LifecycleSafe
<1>1. IInv => LifecycleSafe
  BY DEF IInv, ToldInv, PurgeInv, LifecycleSafe, NoLeakedObject, Removed
<1>. QED
  BY <1>1, StartsIn, StaysIn, PTL DEF Spec
=============================================================================
