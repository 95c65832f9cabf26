------------------------- MODULE MotionExportsProofs -------------------------
(***************************************************************************)
(* Theorems about MotionExports, for any number of exports, songs and      *)
(* render slots.                                                           *)
(***************************************************************************)
EXTENDS MotionExports, FiniteSetTheorems, TLAPS

\* An admission is of a job that is not there yet, the renders it recovers
\* are still lost, and there is room for its own once they are gone.
AdmissionHolds(j) ==
  admitting[j] # NotAdmitting =>
    /\ state[j] = "none"
    /\ admitting[j].ended \subseteq Lost
    /\ Cardinality({q \in Jobs \ admitting[j].ended : slot[q] = "live"}) < MaxRenders

\* The admission mutex.
OneAdmission ==
  \A i, j \in Jobs : admitting[i] # NotAdmitting /\ admitting[j] # NotAdmitting => i = j

\* What was never asked for has no price, no reservation and no video.
Unasked(j) == state[j] = "none" => cost[j] = 0 /\ hold[j] = "none" /\ ~video[j]

IInv ==
  /\ TypeOK /\ HeldWhileActive /\ ChargedIffDelivered
  /\ OneAdmission
  /\ \A j \in Jobs : AdmissionHolds(j) /\ Unasked(j)
  /\ RendersBounded

-----------------------------------------------------------------------------
\* Leaving slots never needs more room, whatever is left out of the count.
LEMMA FewerRenders ==
  ASSUME NEW A, NEW B \in SUBSET Jobs, A \subseteq B
  PROVE  /\ IsFiniteSet(A) /\ Cardinality(A) \in Nat
         /\ Cardinality(B) \in Nat /\ Cardinality(A) <= Cardinality(B)
  <1>1. IsFiniteSet(B)
    BY JobsAssumption, FS_Subset
  <1> QED BY <1>1, FS_Subset, FS_CardinalityType

\* An admission that goes on while no slot is taken and no lost render found
\* again still has its room.
LEMMA RoomStays ==
  ASSUME TypeOK, NEW j \in Jobs, AdmissionHolds(j),
         admitting'[j] = admitting[j], state'[j] = state[j],
         \A q \in Jobs : slot'[q] = "live" => slot[q] = "live",
         \A q \in admitting[j].ended :
           state'[q] = state[q] /\ (lease[q] = "expired" => lease'[q] = "expired")
  PROVE  AdmissionHolds(j)'
  <1> DEFINE L == {q \in Jobs \ admitting[j].ended : slot[q] = "live"}
             M == {q \in Jobs \ admitting[j].ended : slot'[q] = "live"}
  <1>1. Cardinality(M) \in Nat /\ Cardinality(L) \in Nat /\ Cardinality(M) <= Cardinality(L)
    <2>1. M \subseteq L /\ L \in SUBSET Jobs
      OBVIOUS
    <2> HIDE DEF L, M
    <2> QED BY <2>1, FewerRenders
  <1>2. admitting[j] # NotAdmitting =>
          state'[j] = "none" /\ admitting[j].ended \subseteq Lost' /\ Cardinality(L) < MaxRenders
    BY DEF AdmissionHolds, Lost
  <1>3. admitting[j] # NotAdmitting => Cardinality(M) < MaxRenders
    <2> HIDE DEF L, M
    <2> QED BY <1>1, <1>2, JobsAssumption
  <1> QED BY <1>2, <1>3 DEF AdmissionHolds, NotAdmitting

\* ... and the slots taken stay within their number.
LEMMA BoundStays ==
  ASSUME RendersBounded, \A q \in Jobs : slot'[q] = "live" => slot[q] = "live"
  PROVE  RendersBounded'
  <1> DEFINE L == {q \in Jobs : slot[q] = "live"}
             M == {q \in Jobs : slot'[q] = "live"}
  <1>1. M \subseteq L /\ L \in SUBSET Jobs
    OBVIOUS
  <1>2. Cardinality(L) <= MaxRenders
    BY DEF RendersBounded
  <1> HIDE DEF L, M
  <1>3. Cardinality(M) <= MaxRenders
    BY <1>1, <1>2, FewerRenders, JobsAssumption
  <1> QED BY <1>3 DEF RendersBounded, M

\* Ending active jobs, while no admission holds the balance, returns what they
\* held and touches nothing else.
LEMMA EndingKeeps ==
  ASSUME IInv, BalanceFree, NEW ended \in SUBSET Jobs, NEW leaving \in SUBSET Jobs,
         NEW as \in {"failed", "cancelled", "interrupted"}, End(ended, as, leaving),
         worker' \in [Jobs -> {"none", "rendering", "storing"}],
         UNCHANGED <<admitting, song, cost, lease, video, trashed>>
  PROVE  IInv'
  <1> USE DEF IInv
  <1>1. TypeOK'
    BY DEF TypeOK, End, Returned
  <1>2. HeldWhileActive' /\ ChargedIffDelivered' /\ \A j \in Jobs : Unasked(j)'
    BY DEF HeldWhileActive, ChargedIffDelivered, Unasked, End, Returned, TypeOK
  <1>3. OneAdmission'
    BY DEF OneAdmission
  <1>4. \A q \in Jobs : slot'[q] = "live" => slot[q] = "live"
    BY DEF End
  <1>5. ASSUME NEW j \in Jobs PROVE AdmissionHolds(j)'
    <2>1. admitting'[j] = admitting[j] /\ admitting[j].ended = {}
      BY DEF BalanceFree
    <2>2. CASE admitting[j] = NotAdmitting
      BY <2>1, <2>2 DEF AdmissionHolds
    <2>3. CASE admitting[j] # NotAdmitting
      <3>1. state'[j] = state[j]
        BY <2>3 DEF AdmissionHolds, End
      <3> QED BY <1>4, <2>1, <3>1, RoomStays
    <2> QED BY <2>2, <2>3
  <1>6. RendersBounded'
    BY <1>4, BoundStays
  <1> QED BY <1>1, <1>2, <1>3, <1>5, <1>6

-----------------------------------------------------------------------------
\* The reading of an admission: the mutex was free, and there is room.
LEMMA ReadingKeeps ==
  ASSUME IInv, NEW j \in Jobs, NEW s \in Songs, AdmitReads(j, s)
  PROVE  IInv'
  <1> USE DEF IInv
  <1>1. Lost \in SUBSET Jobs /\ Price(s) \in {0, 1}
    BY DEF Lost, Price
  <1>2. TypeOK'
    BY <1>1 DEF TypeOK, AdmitReads
  <1>3. HeldWhileActive' /\ ChargedIffDelivered' /\ RendersBounded' /\ \A i \in Jobs : Unasked(i)'
    BY DEF HeldWhileActive, ChargedIffDelivered, RendersBounded, Unasked, AdmitReads
  <1>4. \A i \in Jobs : i # j => admitting'[i] = NotAdmitting
    BY DEF AdmitReads, MutexFree, TypeOK
  <1>5. OneAdmission'
    BY <1>4 DEF OneAdmission
  <1>6. ASSUME NEW i \in Jobs PROVE AdmissionHolds(i)'
    <2>1. CASE i # j
      BY <1>4, <2>1 DEF AdmissionHolds, NotAdmitting
    <2>2. CASE i = j
      <3>1. admitting'[j].ended = Lost /\ Lost' = Lost /\ state'[j] = "none" /\ slot' = slot
        BY DEF AdmitReads, TypeOK, Lost
      <3>2. Cardinality({q \in Jobs \ Lost : slot[q] = "live"}) < MaxRenders
        BY DEF AdmitReads
      <3> QED BY <2>2, <3>1, <3>2 DEF AdmissionHolds
    <2> QED BY <2>1, <2>2
  <1> QED BY <1>2, <1>3, <1>5, <1>6

\* The commit of an admission: the render it adds is in the room that was
\* counted, and no other admission waits.
LEMMA CommitKeeps ==
  ASSUME IInv, NEW j \in Jobs, AdmitCommits(j)
  PROVE  IInv'
  <1> USE DEF IInv
  <1> DEFINE a == admitting[j]
  <1>1. /\ a \in [song : Songs \cup {NoSong}, cost : {0, 1}, ended : SUBSET Jobs]
        /\ a # NotAdmitting /\ state[j] = "none" /\ a.ended \subseteq Lost /\ j \notin a.ended
    BY DEF TypeOK, AdmitCommits, AdmissionHolds, Lost
  <1>2. TypeOK'
    <2>1. NotAdmitting \in [song : Songs \cup {NoSong}, cost : {0, 1}, ended : SUBSET Jobs]
      BY DEF NotAdmitting
    <2>2. /\ admitting' \in [Jobs -> [song : Songs \cup {NoSong}, cost : {0, 1}, ended : SUBSET Jobs]]
          /\ song' \in [Jobs -> Songs \cup {NoSong}] /\ cost' \in [Jobs -> {0, 1}]
      BY <1>1, <2>1 DEF TypeOK, AdmitCommits
    <2>3. hold' \in [Jobs -> {"none", "held", "charged", "returned"}]
      BY DEF TypeOK, AdmitCommits, Returned
    <2>4. /\ state' \in [Jobs -> {"none", "active", "done", "failed", "cancelled",
                                   "interrupted", "archived"}]
          /\ slot' \in [Jobs -> {"none", "live", "expired"}]
      BY DEF TypeOK, AdmitCommits
    <2> QED BY <2>2, <2>3, <2>4 DEF TypeOK, AdmitCommits
  <1>3. /\ hold[j] = "none" /\ ~video[j] /\ cost' = [cost EXCEPT ![j] = a.cost] /\ video' = video
        /\ \A q \in a.ended : state[q] = "active"
        /\ state' = [q \in Jobs |-> CASE q = j -> "active"
                                      [] q \in a.ended -> "interrupted"
                                      [] OTHER -> state[q]]
        /\ hold' = [q \in Jobs |-> CASE q = j -> IF a.cost = 1 THEN "held" ELSE "none"
                                     [] q \in a.ended -> Returned(hold[q])
                                     [] OTHER -> hold[q]]
    BY <1>1 DEF AdmitCommits, Unasked, Lost
  <1>4. HeldWhileActive' /\ ChargedIffDelivered' /\ \A i \in Jobs : Unasked(i)'
    <2> HIDE DEF a
    <2>1. ASSUME NEW q \in Jobs
          PROVE  /\ hold'[q] = "held" <=> state'[q] = "active" /\ cost'[q] = 1
                 /\ hold'[q] = "charged" <=> state'[q] \in {"done", "archived"} /\ cost'[q] = 1
                 /\ video'[q] => state'[q] \in {"done", "archived"}
                 /\ state'[q] = "none" => cost'[q] = 0 /\ hold'[q] = "none" /\ ~video'[q]
      <3>1. CASE q = j
        BY <1>1, <1>3, <2>1, <3>1 DEF TypeOK
      <3>2. CASE q # j /\ q \in a.ended
        BY <1>1, <1>3, <2>1, <3>2 DEF TypeOK, HeldWhileActive, ChargedIffDelivered, Returned
      <3>3. CASE q # j /\ q \notin a.ended
        BY <1>1, <1>3, <2>1, <3>3 DEF TypeOK, HeldWhileActive, ChargedIffDelivered, Unasked
      <3> QED BY <3>1, <3>2, <3>3
    <2> QED BY <2>1 DEF HeldWhileActive, ChargedIffDelivered, Unasked
  <1>5. \A i \in Jobs : admitting'[i] = NotAdmitting
    BY <1>1 DEF AdmitCommits, OneAdmission, TypeOK
  <1>6. OneAdmission' /\ \A i \in Jobs : AdmissionHolds(i)'
    BY <1>5 DEF OneAdmission, AdmissionHolds, NotAdmitting
  <1>7. RendersBounded'
    <2> DEFINE L == {q \in Jobs \ a.ended : slot[q] = "live"}
               M == {q \in Jobs : slot'[q] = "live"}
    <2>1. M \subseteq L \cup {j} /\ L \in SUBSET Jobs
      BY <1>1 DEF AdmitCommits, TypeOK
    <2>2. Cardinality(L) < MaxRenders
      BY <1>1 DEF AdmissionHolds
    <2> HIDE DEF L, M
    <2>3. IsFiniteSet(L) /\ Cardinality(L) \in Nat
      BY <2>1, FewerRenders
    <2>4. Cardinality(L \cup {j}) \in Nat /\ Cardinality(L \cup {j}) <= Cardinality(L) + 1
      <3>1. Cardinality(L \cup {j}) = IF j \in L THEN Cardinality(L) ELSE Cardinality(L) + 1
        BY <2>3, FS_AddElement, Zenon
      <3> QED BY <2>3, <3>1
    <2>5. L \cup {j} \in SUBSET Jobs
      BY <2>1
    <2>6. Cardinality(M) \in Nat /\ Cardinality(M) <= Cardinality(L \cup {j})
      BY <2>1, <2>5, FewerRenders
    <2>7. Cardinality(M) <= MaxRenders
      BY <2>2, <2>3, <2>4, <2>6, JobsAssumption
    <2> QED BY <2>7 DEF RendersBounded, M
  <1> QED BY <1>2, <1>4, <1>6, <1>7

\* A step that leaves requests, reservations and admissions alone and takes no
\* slot: a lease or a slot runs out, a worker goes on or dies, a song is trashed.
LEMMA QuietKeeps ==
  ASSUME IInv, TypeOK', UNCHANGED <<admitting, state, cost, hold, video>>,
         \A q \in Jobs : slot'[q] = "live" => slot[q] = "live",
         \A q \in Jobs : lease[q] = "expired" => lease'[q] = "expired"
  PROVE  IInv'
  <1> USE DEF IInv
  <1>1. HeldWhileActive' /\ ChargedIffDelivered' /\ OneAdmission' /\ \A j \in Jobs : Unasked(j)'
    BY DEF HeldWhileActive, ChargedIffDelivered, OneAdmission, Unasked
  <1>2. ASSUME NEW j \in Jobs PROVE AdmissionHolds(j)'
    <2>1. \A q \in admitting[j].ended : q \in Jobs
      BY DEF TypeOK
    <2> QED BY <2>1, RoomStays
  <1>3. RendersBounded'
    BY BoundStays
  <1> QED BY <1>1, <1>2, <1>3

\* A step that holds the balance and changes one job that is not being admitted:
\* a publication, a browser export, a purchase.
LEMMA DeliveryKeeps ==
  ASSUME IInv, BalanceFree, NEW j \in Jobs,
         Publish(j) \/ \E s \in Songs : BrowserExport(j, s) \/ Unlock(j, s)
  PROVE  IInv'
  <1> USE DEF IInv
  <1>1. admitting[j] = NotAdmitting
    BY DEF Publish, Publishable, BrowserExport, Unlock, AdmissionHolds
  <1>2. UNCHANGED <<admitting, slot, lease>>
    BY DEF Publish, BrowserExport, Unlock
  <1>3. \A s \in Songs : Price(s) \in {0, 1}
    BY DEF Price
  <1>4. TypeOK'
    <2>1. CASE Publish(j)
      BY <2>1 DEF TypeOK, Publish, Charged
    <2>2. ASSUME NEW s \in Songs, BrowserExport(j, s) PROVE TypeOK'
      BY <1>3, <2>2 DEF TypeOK, BrowserExport
    <2>3. ASSUME NEW s \in Songs, Unlock(j, s) PROVE TypeOK'
      BY <2>3 DEF TypeOK, Unlock
    <2> QED BY <2>1, <2>2, <2>3
  <1>5. HeldWhileActive' /\ ChargedIffDelivered' /\ \A i \in Jobs : Unasked(i)'
    <2>1. CASE Publish(j)
      BY <2>1 DEF Publish, Publishable, Charged, HeldWhileActive, ChargedIffDelivered, Unasked, TypeOK
    <2>2. ASSUME NEW s \in Songs, BrowserExport(j, s)
          PROVE  HeldWhileActive' /\ ChargedIffDelivered' /\ \A i \in Jobs : Unasked(i)'
      BY <1>3, <2>2 DEF BrowserExport, HeldWhileActive, ChargedIffDelivered, Unasked, TypeOK
    <2>3. ASSUME NEW s \in Songs, Unlock(j, s)
          PROVE  HeldWhileActive' /\ ChargedIffDelivered' /\ \A i \in Jobs : Unasked(i)'
      BY <2>3 DEF Unlock, HeldWhileActive, ChargedIffDelivered, Unasked, TypeOK
    <2> QED BY <2>1, <2>2, <2>3
  <1>6. OneAdmission' /\ RendersBounded'
    BY <1>2 DEF OneAdmission, RendersBounded
  <1>7. ASSUME NEW i \in Jobs PROVE AdmissionHolds(i)'
    <2>1. admitting[i].ended = {} /\ admitting'[i] = admitting[i]
      BY <1>2 DEF BalanceFree
    <2>2. CASE i = j
      BY <1>1, <2>1, <2>2 DEF AdmissionHolds, NotAdmitting
    <2>3. CASE i # j
      <3>1. state'[i] = state[i]
        BY <2>3 DEF Publish, BrowserExport, Unlock, TypeOK
      <3> QED BY <1>2, <2>1, <3>1, RoomStays
    <2> QED BY <2>2, <2>3
  <1> QED BY <1>4, <1>5, <1>6, <1>7

-----------------------------------------------------------------------------
\* The invariant is inductive: every action keeps it.
LEMMA Invariance == Spec => []IInv
  <1>1. ASSUME Init PROVE IInv
    <2>1. {j \in Jobs : slot[j] = "live"} = {}
      BY <1>1 DEF Init
    <2>2. RendersBounded
      BY <2>1, FS_EmptySet, JobsAssumption DEF RendersBounded
    <2>3. NotAdmitting \in [song : Songs \cup {NoSong}, cost : {0, 1}, ended : SUBSET Jobs]
      BY DEF NotAdmitting
    <2>4. TypeOK
      BY <1>1, <2>3 DEF Init, TypeOK
    <2> QED BY <1>1, <2>2, <2>4 DEF Init, IInv, HeldWhileActive, ChargedIffDelivered,
                                     OneAdmission, AdmissionHolds, Unasked
  <1>2. ASSUME IInv, [Next]_vars PROVE IInv'
    <2> USE <1>2
    <2>1. ASSUME NEW j \in Jobs, NEW s \in Songs, AdmitReads(j, s) PROVE IInv'
      BY <2>1, ReadingKeeps
    <2>2. ASSUME NEW j \in Jobs, AdmitCommits(j) PROVE IInv'
      BY <2>2, CommitKeeps
    <2>3. ASSUME NEW j \in Jobs, AdmitFails(j) PROVE IInv'
      <3>1. TypeOK'
        <4>1. NotAdmitting \in [song : Songs \cup {NoSong}, cost : {0, 1}, ended : SUBSET Jobs]
          BY DEF NotAdmitting
        <4> QED BY <2>3, <4>1 DEF IInv, TypeOK, AdmitFails
      <3>2. HeldWhileActive' /\ ChargedIffDelivered' /\ RendersBounded' /\ \A i \in Jobs : Unasked(i)'
        BY <2>3 DEF IInv, AdmitFails, HeldWhileActive, ChargedIffDelivered, RendersBounded, Unasked
      <3>3. \A i \in Jobs : admitting'[i] = NotAdmitting \/ admitting'[i] = admitting[i]
        BY <2>3 DEF IInv, TypeOK, AdmitFails
      <3>4. OneAdmission'
        BY <3>3 DEF IInv, OneAdmission
      <3>5. ASSUME NEW i \in Jobs PROVE AdmissionHolds(i)'
        BY ZenonT(40), <2>3, <3>3 DEF IInv, AdmitFails, AdmissionHolds, Lost, NotAdmitting
      <3> QED BY <3>1, <3>2, <3>4, <3>5 DEF IInv
    <2>4. CASE Reconcile
      <3>1. Lost \in SUBSET Jobs
        BY DEF Lost
      <3> QED BY <2>4, <3>1, EndingKeeps DEF Reconcile, IInv, TypeOK
    <2>5. ASSUME NEW j \in Jobs, SlotExpires(j) PROVE IInv'
      <3>1. TypeOK' /\ \A q \in Jobs : slot'[q] = "live" => slot[q] = "live"
        BY <2>5 DEF IInv, TypeOK, SlotExpires
      <3> QED BY <2>5, <3>1, QuietKeeps DEF SlotExpires
    <2>6. ASSUME NEW j \in Jobs, LeaseExpires(j) PROVE IInv'
      <3>1. TypeOK' /\ \A q \in Jobs : lease[q] = "expired" => lease'[q] = "expired"
        BY <2>6 DEF IInv, TypeOK, LeaseExpires
      <3> QED BY <2>6, <3>1, QuietKeeps DEF LeaseExpires
    <2>7. ASSUME NEW j \in Jobs, Store(j) \/ Crash(j) PROVE IInv'
      <3>1. TypeOK'
        BY <2>7 DEF IInv, TypeOK, Store, Crash
      <3> QED BY <2>7, <3>1, QuietKeeps DEF Store, Crash
    <2>8. ASSUME NEW j \in Jobs, Publish(j) PROVE IInv'
      BY <2>8, DeliveryKeeps DEF Publish
    <2>9. ASSUME NEW j \in Jobs, WorkerEnds(j) PROVE IInv'
      <3>1. worker' \in [Jobs -> {"none", "rendering", "storing"}]
        BY <2>9 DEF IInv, TypeOK, WorkerEnds
      <3> QED BY <2>9, <3>1, EndingKeeps DEF WorkerEnds
    <2>10. ASSUME NEW j \in Jobs, Cancel(j) PROVE IInv'
      BY <2>10, EndingKeeps DEF Cancel, IInv, TypeOK
    <2>11. ASSUME NEW j \in Jobs, NEW s \in Songs, BrowserExport(j, s) \/ Unlock(j, s) PROVE IInv'
      BY <2>11, DeliveryKeeps DEF BrowserExport, Unlock
    <2>12. ASSUME NEW s \in Songs, Trash(s) PROVE IInv'
      <3>1. TypeOK'
        BY <2>12 DEF IInv, TypeOK, Trash
      <3> QED BY <2>12, <3>1, QuietKeeps DEF Trash
    <2>13. CASE UNCHANGED vars
      <3>1. TypeOK'
        BY <2>13 DEF vars, IInv, TypeOK
      <3> QED BY <2>13, <3>1, QuietKeeps DEF vars
    <2> QED BY <2>1, <2>2, <2>3, <2>4, <2>5, <2>6, <2>7, <2>8, <2>9, <2>10, <2>11, <2>12, <2>13
            DEF Next
  <1> QED BY <1>1, <1>2, PTL DEF Spec

-----------------------------------------------------------------------------
\* The values stay in their types.
THEOREM TypeCorrect == Spec => []TypeOK
  BY Invariance, PTL DEF IInv

\* Credits are on hold exactly for the paid renders that are still to end.
THEOREM HoldsFollowRenders == Spec => []HeldWhileActive
  BY Invariance, PTL DEF IInv

\* A charge stands exactly for a paid video in the library, or a purchase.
THEOREM ChargesFollowVideos == Spec => []ChargedIffDelivered
  BY Invariance, PTL DEF IInv

\* Admissions never take more render slots than there are.
THEOREM SlotsAreBounded == Spec => []RendersBounded
  BY Invariance, PTL DEF IInv

\* A render that has ended, and got its credits back, is never delivered.
THEOREM TheEndIsFinal == Spec => EndedStaysEnded
  <1> DEFINE Final == \A j \in Jobs : state[j] \in {"failed", "cancelled", "interrupted"} =>
                        state'[j] = state[j] /\ video'[j] = video[j] /\ hold'[j] = hold[j]
  <1>1. ASSUME IInv, [Next]_vars PROVE Final
    <2> USE <1>1 DEF IInv
    <2>1. ASSUME NEW i \in Jobs, AdmitCommits(i) PROVE Final
      <3>1. state[i] = "none" /\ \A q \in admitting[i].ended : state[q] = "active"
        BY <2>1 DEF AdmitCommits, AdmissionHolds, Lost
      <3> QED BY <2>1, <3>1 DEF AdmitCommits, TypeOK
    <2>2. ASSUME NEW i \in Jobs, Publish(i) PROVE Final
      BY <2>2 DEF Publish, Publishable, TypeOK
    <2>3. ASSUME NEW i \in Jobs, NEW s \in Songs, BrowserExport(i, s) \/ Unlock(i, s) PROVE Final
      BY <2>3 DEF BrowserExport, Unlock, TypeOK
    <2>4. CASE Reconcile
      BY <2>4 DEF Reconcile, End, TypeOK
    <2>5. ASSUME NEW i \in Jobs, WorkerEnds(i) \/ Cancel(i) PROVE Final
      BY <2>5 DEF WorkerEnds, Cancel, End, TypeOK
    <2>6. CASE UNCHANGED <<state, video, hold>>
      BY <2>6
    <2> QED BY <2>1, <2>2, <2>3, <2>4, <2>5, <2>6
            DEF Next, vars, AdmitReads, AdmitFails, SlotExpires, LeaseExpires, Store, Crash, Trash
  <1> QED BY <1>1, Invariance, PTL DEF Spec, EndedStaysEnded
=============================================================================
