---------------------------- MODULE MotionExports ----------------------------
(***************************************************************************)
(* Exporting a video of a song from the Motion studio (motion_billing.py,  *)
(* the hooks of motion_cloud.py, motion_browser_exports.py and the render  *)
(* slots of queue_limiter.py), for one account.  A video is rendered in    *)
(* the cloud under a lease, or encoded in the browser and archived; the    *)
(* first export of a song is to be paid, the later ones are free.          *)
(*                                                                         *)
(* Every transaction here locks the balance first and is one step, except  *)
(* an admission: under the global admission mutex it reads what the song   *)
(* costs, and waits for the balance only when it reserves credits, so that *)
(* other transactions commit in between (PostgreSQL, READ COMMITTED).      *)
(***************************************************************************)
EXTENDS Naturals, FiniteSets

CONSTANTS
  Jobs,       \* the exports and purchases asked for
  Songs,      \* the songs of the account
  NoSong,     \* of a job that was never asked for
  MaxRenders  \* MAX_CONCURRENT_RENDERS_PER_USER

ASSUME JobsAssumption == IsFiniteSet(Jobs) /\ MaxRenders \in Nat

VARIABLES
  admitting, \* what an admission under way has read
  song,      \* of each job
  state,     \* of its MotionExportRequest; "archived" is a browser export, which has none
  cost,      \* in purchases: 0 or 1
  hold,      \* of its CreditReservation
  lease,     \* lease_until of its MotionExportRequest: live or expired
  slot,      \* of its MotionRenderLease
  worker,    \* the render thread
  video,     \* it has a VideoExport
  trashed    \* the songs in Trash

vars == <<admitting, song, state, cost, hold, lease, slot, worker, video, trashed>>

NotAdmitting == [song |-> NoSong, cost |-> 0, ended |-> {}]

TypeOK ==
  /\ admitting \in [Jobs -> [song : Songs \cup {NoSong}, cost : {0, 1}, ended : SUBSET Jobs]]
  /\ song \in [Jobs -> Songs \cup {NoSong}]
  /\ state \in [Jobs -> {"none", "active", "done", "failed", "cancelled", "interrupted", "archived"}]
  /\ cost \in [Jobs -> {0, 1}]
  /\ hold \in [Jobs -> {"none", "held", "charged", "returned"}]
  /\ lease \in [Jobs -> {"live", "expired"}]
  /\ slot \in [Jobs -> {"none", "live", "expired"}]
  /\ worker \in [Jobs -> {"none", "rendering", "storing"}]
  /\ video \in [Jobs -> BOOLEAN]
  /\ trashed \subseteq Songs

Init ==
  /\ admitting = [j \in Jobs |-> NotAdmitting]
  /\ song = [j \in Jobs |-> NoSong]
  /\ state = [j \in Jobs |-> "none"]
  /\ cost = [j \in Jobs |-> 0]
  /\ hold = [j \in Jobs |-> "none"]
  /\ lease = [j \in Jobs |-> "expired"]
  /\ slot = [j \in Jobs |-> "none"]
  /\ worker = [j \in Jobs |-> "none"]
  /\ video = [j \in Jobs |-> FALSE]
  /\ trashed = {}
-----------------------------------------------------------------------------
(* Prices, locks and settlements *)

\* is_song_unlocked: a video, a finished request, or a paid one under way.
Unlocked(s) ==
  \E j \in Jobs :
    /\ song[j] = s
    /\ \/ video[j]
       \/ state[j] = "done"
       \/ state[j] = "active" /\ cost[j] = 1 /\ lease[j] = "live"

\* Slip: a request reserves under both of its kinds.
BothPrices(s) == IF Unlocked(s) THEN 0 ELSE 2

Price(s) == IF Unlocked(s) THEN 0 ELSE 1

\* Slip: admissions count the slots without taking turns.
NoMutex == TRUE

\* lock_admission: another admission waits for the commit.
MutexFree == \A j \in Jobs : admitting[j] = NotAdmitting

\* An admission that has recovered a lost render holds the balance.
BalanceFree == \A j \in Jobs : admitting[j].ended = {}

\* Slip: the settlement is left to the end of the worker.
ChargedLater(h) == h

\* Slip: the lost render keeps its reservation.
KeptHeld(h) == h

\* settle_reservation, for a reservation that is still held.
Charged(h) == IF h = "held" THEN "charged" ELSE h
Returned(h) == IF h = "held" THEN "returned" ELSE h

\* reconcile: the renders whose lease ran out.
Lost == {j \in Jobs : state[j] = "active" /\ lease[j] = "expired"}

\* Slip: a worker is not asked whether its request still waits for it.
Uploaded(j) == song[j] \notin trashed

\* publish: the request is still active, within its lease, its song not in Trash.
Publishable(j) == state[j] = "active" /\ lease[j] = "live" /\ song[j] \notin trashed

\* finish: what is still active ends, and its credits come back.
End(ended, as, leaving) ==
  LET open == {j \in ended : state[j] = "active"}
  IN /\ state' = [j \in Jobs |-> IF j \in open THEN as ELSE state[j]]
     /\ hold' = [j \in Jobs |-> IF j \in open THEN Returned(hold[j]) ELSE hold[j]]
     /\ slot' = [j \in Jobs |-> IF j \in leaving THEN "none" ELSE slot[j]]
-----------------------------------------------------------------------------
(* Cloud renders *)

\* admit up to credits.reserve: the lost renders to recover, the price, the slots.
AdmitReads(j, s) ==
  /\ state[j] = "none" /\ MutexFree /\ s \notin trashed
  /\ Cardinality({q \in Jobs \ Lost : slot[q] = "live"}) < MaxRenders
  /\ admitting' = [admitting EXCEPT ![j] = [song |-> s, cost |-> Price(s), ended |-> Lost]]
  /\ UNCHANGED <<song, state, cost, hold, lease, slot, worker, video, trashed>>

\* The reservation, the request and its slot are committed; the render starts.
AdmitCommits(j) ==
  LET a == admitting[j]
  IN /\ a # NotAdmitting
     /\ admitting' = [admitting EXCEPT ![j] = NotAdmitting]
     /\ song' = [song EXCEPT ![j] = a.song]
     /\ cost' = [cost EXCEPT ![j] = a.cost]
     /\ state' = [q \in Jobs |-> CASE q = j -> "active"
                                   [] q \in a.ended -> "interrupted"
                                   [] OTHER -> state[q]]
     /\ hold' = [q \in Jobs |-> CASE q = j -> IF a.cost = 1 THEN "held" ELSE "none"
                                  [] q \in a.ended -> Returned(hold[q])
                                  [] OTHER -> hold[q]]
     /\ slot' = [q \in Jobs |-> CASE q = j -> "live"
                                  [] q \in a.ended \/ slot[q] = "expired" -> "none"
                                  [] OTHER -> slot[q]]
     /\ lease' = [lease EXCEPT ![j] = "live"]
     /\ worker' = [worker EXCEPT ![j] = "rendering"]
     /\ UNCHANGED <<video, trashed>>

\* Not enough credits, or the connection is lost: everything is rolled back.
AdmitFails(j) ==
  /\ admitting[j] # NotAdmitting
  /\ admitting' = [admitting EXCEPT ![j] = NotAdmitting]
  /\ UNCHANGED <<song, state, cost, hold, lease, slot, worker, video, trashed>>

\* status (and /credits/history): recovers the lost renders of the account.
Reconcile ==
  /\ Lost # {} /\ BalanceFree
  /\ End(Lost, "interrupted", Lost)
  /\ UNCHANGED <<admitting, song, cost, lease, worker, video, trashed>>

\* The slot is taken just before the request, and renewed with the same deadline.
SlotExpires(j) ==
  /\ slot[j] = "live" /\ slot' = [slot EXCEPT ![j] = "expired"]
  /\ UNCHANGED <<admitting, song, state, cost, hold, lease, worker, video, trashed>>

LeaseExpires(j) ==
  /\ state[j] = "active" /\ lease[j] = "live" /\ slot[j] # "live"
  /\ lease' = [lease EXCEPT ![j] = "expired"]
  /\ UNCHANGED <<admitting, song, state, cost, hold, slot, worker, video, trashed>>

\* The video is complete and in storage: persist renews the lease once more.
Store(j) ==
  /\ worker[j] = "rendering" /\ slot[j] = "live"
  /\ state[j] = "active" /\ lease[j] = "live"
  /\ worker' = [worker EXCEPT ![j] = "storing"]
  /\ UNCHANGED <<admitting, song, state, cost, hold, lease, slot, video, trashed>>

\* publish: the video enters the library, the credits are charged.
Publish(j) ==
  /\ worker[j] = "storing" /\ ~video[j] /\ Publishable(j) /\ BalanceFree
  /\ video' = [video EXCEPT ![j] = TRUE]
  /\ state' = [state EXCEPT ![j] = "done"]
  /\ hold' = [hold EXCEPT ![j] = Charged(hold[j])]
  /\ UNCHANGED <<admitting, song, cost, lease, slot, worker, trashed>>

\* on_render_finish, after a publication or any failure, a lost lease included.
WorkerEnds(j) ==
  /\ worker[j] # "none" /\ BalanceFree
  /\ worker' = [worker EXCEPT ![j] = "none"]
  /\ End({j}, "failed", {j})
  /\ UNCHANGED <<admitting, song, cost, lease, video, trashed>>

\* The server stops under the render: only its leases tell.
Crash(j) ==
  /\ worker[j] # "none"
  /\ worker' = [worker EXCEPT ![j] = "none"]
  /\ UNCHANGED <<admitting, song, state, cost, hold, lease, slot, video, trashed>>

\* cancel_render; the thread is stopped, or finds out with its next heartbeat.
Cancel(j) ==
  /\ state[j] \notin {"none", "archived"} /\ BalanceFree
  /\ End({j}, "cancelled", {j})
  /\ UNCHANGED <<admitting, song, cost, lease, worker, video, trashed>>
-----------------------------------------------------------------------------
(* Browser exports, purchases and Trash *)

\* archive_browser_export: the uploaded video, its price and its charge in one commit.
BrowserExport(j, s) ==
  /\ state[j] = "none" /\ admitting[j] = NotAdmitting /\ s \notin trashed /\ BalanceFree
  /\ song' = [song EXCEPT ![j] = s]
  /\ state' = [state EXCEPT ![j] = "archived"]
  /\ cost' = [cost EXCEPT ![j] = Price(s)]
  /\ hold' = [hold EXCEPT ![j] = IF Price(s) = 0 THEN "none" ELSE "charged"]
  /\ video' = [video EXCEPT ![j] = TRUE]
  /\ UNCHANGED <<admitting, lease, slot, worker, trashed>>

\* unlock_song_export: buys the song without a video; asks again under the lock.
Unlock(j, s) ==
  /\ state[j] = "none" /\ admitting[j] = NotAdmitting /\ s \notin trashed /\ BalanceFree
  /\ ~Unlocked(s)
  /\ song' = [song EXCEPT ![j] = s]
  /\ state' = [state EXCEPT ![j] = "done"]
  /\ cost' = [cost EXCEPT ![j] = 1]
  /\ hold' = [hold EXCEPT ![j] = "charged"]
  /\ UNCHANGED <<admitting, lease, slot, worker, video, trashed>>

\* The song's version is moved to Trash, or restored.
Trash(s) ==
  /\ trashed' = IF s \in trashed THEN trashed \ {s} ELSE trashed \cup {s}
  /\ UNCHANGED <<admitting, song, state, cost, hold, lease, slot, worker, video>>

Next ==
  \/ \E j \in Jobs, s \in Songs : AdmitReads(j, s)
  \/ \E j \in Jobs : AdmitCommits(j)
  \/ \E j \in Jobs : AdmitFails(j)
  \/ Reconcile
  \/ \E j \in Jobs : SlotExpires(j)
  \/ \E j \in Jobs : LeaseExpires(j)
  \/ \E j \in Jobs : Store(j)
  \/ \E j \in Jobs : Publish(j)
  \/ \E j \in Jobs : WorkerEnds(j)
  \/ \E j \in Jobs : Crash(j)
  \/ \E j \in Jobs : Cancel(j)
  \/ \E j \in Jobs, s \in Songs : BrowserExport(j, s)
  \/ \E j \in Jobs, s \in Songs : Unlock(j, s)
  \/ \E s \in Songs : Trash(s)

Spec == Init /\ [][Next]_vars
-----------------------------------------------------------------------------
(* Properties *)

\* Credits are out on hold exactly for the paid renders that are still to end:
\* whatever way a render is lost, they come back once (settle_reservation).
HeldWhileActive ==
  \A j \in Jobs : hold[j] = "held" <=> state[j] = "active" /\ cost[j] = 1

\* A charge stands exactly for a paid video that was delivered, or for a
\* purchase; and no other job has a video (publish, archive_browser_export).
ChargedIffDelivered ==
  \A j \in Jobs :
    /\ hold[j] = "charged" <=> state[j] \in {"done", "archived"} /\ cost[j] = 1
    /\ video[j] => state[j] \in {"done", "archived"}

\* Admissions that run at once never take more slots than there are
\* (check_render_admission counts under the mutex, before they are taken).
RendersBounded == Cardinality({j \in Jobs : slot[j] = "live"}) <= MaxRenders

\* What was failed, cancelled or interrupted, and its credits returned, stays
\* so: a worker that comes late publishes nothing (publish, finish).
EndedStaysEnded ==
  [][\A j \in Jobs : state[j] \in {"failed", "cancelled", "interrupted"} =>
       state'[j] = state[j] /\ video'[j] = video[j] /\ hold'[j] = hold[j]]_vars

\* "The first export of the song costs 10 credits, later ones are free"
\* (docs/BILLING_POLICY.md:28): a song that has a video, and no export under
\* way, has been paid exactly once.
BoughtOnce ==
  \A s \in Songs :
    LET own == {j \in Jobs : song[j] = s \/ admitting[j].song = s}
    IN (\E j \in own : video[j]) /\ (\A j \in own : state[j] \notin {"none", "active"})
         => Cardinality({j \in own : hold[j] = "charged"}) = 1
=============================================================================
