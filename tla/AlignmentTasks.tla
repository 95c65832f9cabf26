--------------------------- MODULE AlignmentTasks ---------------------------
(***************************************************************************)
(* Alignment of imported songs: Task rows, their AlignmentExecution leases *)
(* and credit holds, the import requests that prepare them, the Celery     *)
(* workers or fallback threads that run them, and the owner's requests to  *)
(* retry, realign, trash, restore and delete.                              *)
(*                                                                         *)
(* Each transaction is one step.  Reading the task's status early in a     *)
(* retry or realign request and committing it late are two.  The token of  *)
(* an execution is the number of the attempt it was drawn for.  Leases are *)
(* kept relative: the time left until lease_until, 0 once it is reached.   *)
(***************************************************************************)
EXTENDS Integers, FiniteSets

CONSTANTS
  Tasks,
  Workers,     \* processes or threads that execute process_song_task
  NoTask,      \* the task of an idle worker
  Lease,       \* LEASE_SECONDS, in ticks
  QueueLease,  \* QUEUE_SECONDS, in ticks
  MaxAttempts  \* bound on the tokens drawn for a task

ASSUME AlignmentAssumption ==
  /\ NoTask \notin Tasks
  /\ Lease \in Nat \ {0}
  /\ QueueLease \in Nat \ {0}
  /\ MaxAttempts \in Nat \ {0}

VARIABLES
  status,     \* Task.status; none before the import and after deletion
  version,    \* whether the version is absent, live, in Trash or deleted
  exec,       \* AlignmentExecution rows
  hold,       \* CreditReservation.state of the alignment
  importing,  \* tasks whose import request is preparing files
  asked,      \* requests that have read a status which permits them
  sent,       \* attempts handed to Celery, which may deliver them repeatedly
  worker,     \* what each worker is doing
  reports,    \* attempts whose request is about to record their failure
  file,       \* whose alignment JSON is in storage (one key per task)
  result,     \* history: the attempt that was charged
  lost        \* history: attempts that were ended without a result

vars == <<status, version, exec, hold, importing, asked, sent, worker,
          reports, file, result, lost>>

Tokens == 1..MaxAttempts
None == 0
Active == {"pending", "processing"}
Status == Active \cup {"none", "completed", "failed"}
\* Slip: reconcile looks for running attempts only.
LeasedRunning == {"running"}
Leased == {"preparing", "queued", "running"}

ExecType == [phase : Leased \cup {"none", "expired"}, token : {None} \cup Tokens,
             lease : 0..(Lease + QueueLease)]
WorkerType == [pc : {"idle", "claimed", "aligning", "uploaded", "failing", "raised"},
               task : Tasks \cup {NoTask}, token : {None} \cup Tokens]

Idle == [pc |-> "idle", task |-> NoTask, token |-> None]

-----------------------------------------------------------------------------
(* Some definitions come with a slip: a mistake the code could plausibly   *)
(* have made there.  Nothing uses a slip; a run's property must notice it. *)

\* Slip: the hold stays.
ReleasedNot(t) == hold[t]
Released(t) == IF hold[t] = "held" THEN "released" ELSE hold[t]

\* The attempt that ends when an active task is failed, replaced or deleted.
Ended(t) == IF status[t] \in Active THEN {<<t, exec[t].token>>} ELSE {}

\* Slip: it asks for nothing.
FailAlways(t) ==
  /\ status' = [status EXCEPT ![t] = IF @ = "none" THEN @ ELSE "failed"]
  /\ hold' = [hold EXCEPT ![t] = Released(t)]
  /\ lost' = lost \cup Ended(t)

\* fail_task_and_refund: it asks for the status, not for the attempt.
FailAndRefund(t) ==
  IF status[t] \in Active
    THEN /\ status' = [status EXCEPT ![t] = "failed"]
         /\ hold' = [hold EXCEPT ![t] = Released(t)]
         /\ lost' = lost \cup Ended(t)
    ELSE UNCHANGED <<status, hold, lost>>

\* Slip: the update asks for the status of the task only.
GuardedByStatus(t, k) == status[t] \in Active /\ version[t] = "live"

\* guard, with the rest of the WHERE clause of _update_task_status.
Guarded(t, k) ==
  /\ status[t] \in Active
  /\ exec[t].token = k /\ exec[t].phase = "running" /\ exec[t].lease > 0
  /\ version[t] = "live"

\* _dispatch_task after the commit: Celery or a thread takes the attempt, no
\* thread can start, or the request is killed before it gets there.
Dispatch(t, k) ==
  \/ sent' = sent \cup {<<t, k>>} /\ UNCHANGED reports
  \/ reports' = reports \cup {<<t, k>>} /\ UNCHANGED sent
  \/ UNCHANGED <<sent, reports>>

-----------------------------------------------------------------------------
Init ==
  /\ status = [t \in Tasks |-> "none"]
  /\ version = [t \in Tasks |-> "absent"]
  /\ exec = [t \in Tasks |-> [phase |-> "none", token |-> None, lease |-> 0]]
  /\ hold = [t \in Tasks |-> "none"]
  /\ importing = {}
  /\ asked = [t \in Tasks |-> {}]
  /\ sent = {}
  /\ worker = [w \in Workers |-> Idle]
  /\ reports = {}
  /\ file = [t \in Tasks |-> None]
  /\ result = [t \in Tasks |-> None]
  /\ lost = {}

(* Import.                                                                 *)

\* _reserve_import: task, execution and hold, before any file is fetched.
Import(t) ==
  /\ version[t] = "absent"
  /\ status' = [status EXCEPT ![t] = "pending"]
  /\ version' = [version EXCEPT ![t] = "live"]
  /\ exec' = [exec EXCEPT ![t] = [phase |-> "preparing", token |-> 1, lease |-> Lease]]
  /\ hold' = [hold EXCEPT ![t] = "held"]
  /\ importing' = importing \cup {t}
  /\ UNCHANGED <<asked, sent, worker, reports, file, result, lost>>

\* The body of _prepare_import raises, or its process is killed.
PrepareFails(t) ==
  /\ t \in importing
  /\ importing' = importing \ {t}
  /\ reports' \in {reports, reports \cup {<<t, 1>>}}
  /\ UNCHANGED <<status, version, exec, hold, asked, sent, worker, file, result, lost>>

\* _commit_and_dispatch.
Handoff(t) ==
  /\ t \in importing
  /\ importing' = importing \ {t}
  /\ IF status[t] = "pending" /\ exec[t].phase = "preparing" /\ exec[t].lease > 0
       THEN /\ exec' = [exec EXCEPT ![t].phase = "queued", ![t].lease = QueueLease]
            /\ Dispatch(t, exec[t].token)
       ELSE /\ reports' = reports \cup {<<t, 1>>}
            /\ UNCHANGED <<exec, sent>>
  /\ UNCHANGED <<status, version, hold, asked, worker, file, result, lost>>

\* The except clauses of the import and retry requests.
Report(t, k) ==
  /\ <<t, k>> \in reports
  /\ reports' = reports \ {<<t, k>>}
  /\ FailAndRefund(t)
  /\ UNCHANGED <<version, exec, importing, asked, sent, worker, file, result>>

(* Requests of the owner.                                                  *)

\* One task of reconcile; its time comes when the lease is reached.
Reconcile(t) ==
  /\ status[t] \in Active
  /\ exec[t].phase \in Leased /\ exec[t].lease = 0
  /\ exec' = [exec EXCEPT ![t].phase = "expired"]
  /\ FailAndRefund(t)
  /\ UNCHANGED <<version, importing, asked, sent, worker, reports, file, result>>

\* retry_task and realign_lyrics read the task; other requests may commit
\* while they check storage.
Ask(t, request) ==
  /\ version[t] = "live"
  /\ \/ request = "retry" /\ status[t] = "failed"
     \/ request = "realign" /\ status[t] \in {"failed", "completed"}
  /\ asked' = [asked EXCEPT ![t] = @ \cup {request}]
  /\ UNCHANGED <<status, version, exec, hold, importing, sent, worker, reports,
                 file, result, lost>>

NewAttempt(t) ==
  /\ exec[t].token < MaxAttempts
  /\ status' = [status EXCEPT ![t] = "pending"]
  /\ exec' = [exec EXCEPT ![t] = [phase |-> "queued", token |-> exec[t].token + 1,
                                  lease |-> QueueLease]]
  /\ hold' = [hold EXCEPT ![t] = "held"]
  /\ UNCHANGED <<version, importing, asked, worker, file, result>>

\* retry_task asks for the status again when it commits, but not for Trash.
Retry(t) ==
  /\ "retry" \in asked[t]
  /\ status[t] = "failed"
  /\ NewAttempt(t)
  /\ Dispatch(t, exec[t].token + 1)
  /\ UNCHANGED lost

\* realign_lyrics does not: it replaces whatever attempt there is, sharing
\* its hold, and reopens a settled reservation.
Realign(t) ==
  /\ "realign" \in asked[t]
  /\ version[t] # "deleted"
  /\ NewAttempt(t)
  /\ lost' = lost \cup Ended(t)
  /\ sent' \in {sent, sent \cup {<<t, exec[t].token + 1>>}}
  /\ UNCHANGED reports

Trash(t) ==
  /\ version[t] = "live"
  /\ version' = [version EXCEPT ![t] = "trashed"]
  /\ FailAndRefund(t)
  /\ UNCHANGED <<exec, importing, asked, sent, worker, reports, file, result>>

Restore(t) ==
  /\ version[t] = "trashed"
  /\ version' = [version EXCEPT ![t] = "live"]
  /\ UNCHANGED <<status, exec, hold, importing, asked, sent, worker, reports,
                 file, result, lost>>

\* delete_task; the version may have been trashed since it was looked up.
Delete(t) ==
  /\ version[t] \in {"live", "trashed"}
  /\ version' = [version EXCEPT ![t] = "deleted"]
  /\ hold' = [hold EXCEPT ![t] = IF status[t] \in Active THEN Released(t) ELSE @]
  /\ lost' = lost \cup Ended(t)
  /\ status' = [status EXCEPT ![t] = "none"]
  /\ exec' = [exec EXCEPT ![t].phase = "none", ![t].lease = 0]
  /\ file' = [file EXCEPT ![t] = None]
  /\ UNCHANGED <<importing, asked, sent, worker, reports, result>>

\* The same request fails after it deleted the file: the rows roll back.
DeleteFails(t) ==
  /\ version[t] \in {"live", "trashed"}
  /\ file[t] # None
  /\ file' = [file EXCEPT ![t] = None]
  /\ UNCHANGED <<status, version, exec, hold, importing, asked, sent, worker,
                 reports, result, lost>>

-----------------------------------------------------------------------------
(* Workers.                                                                *)

At(w, pc) == worker' = [worker EXCEPT ![w].pc = pc]
Leave(w) == worker' = [worker EXCEPT ![w] = Idle]

\* Slip: a running attempt may be claimed again.
ClaimableAgain(t, k) ==
  /\ status[t] \in Active
  /\ exec[t].token = k /\ exec[t].lease > 0

Claimable(t, k) ==
  /\ status[t] = "pending"
  /\ exec[t].token = k /\ exec[t].phase = "queued" /\ exec[t].lease > 0

\* managed_worker: of all deliveries of an attempt one may start it.
Claim(w, t, k) ==
  /\ worker[w].pc = "idle"
  /\ <<t, k>> \in sent
  /\ Claimable(t, k)
  /\ exec' = [exec EXCEPT ![t].phase = "running", ![t].lease = Lease]
  /\ worker' = [worker EXCEPT ![w] = [pc |-> "claimed", task |-> t, token |-> k]]
  /\ UNCHANGED <<status, version, hold, importing, asked, sent, reports, file, result, lost>>

\* The first update: processing, or RuntimeError.
Begin(w) ==
  LET t == worker[w].task
  IN  /\ worker[w].pc = "claimed"
      /\ IF Guarded(t, worker[w].token)
           THEN /\ status' = [status EXCEPT ![t] = "processing"]
                /\ At(w, "aligning")
           ELSE /\ At(w, "failing")
                /\ UNCHANGED status
      /\ UNCHANGED <<version, exec, hold, importing, asked, sent, reports, file, result, lost>>

\* The pipeline ends and its JSON is saved under the task's key, unguarded.
Upload(w) ==
  /\ worker[w].pc = "aligning"
  /\ file' = [file EXCEPT ![worker[w].task] = worker[w].token]
  /\ At(w, "uploaded")
  /\ UNCHANGED <<status, version, exec, hold, importing, asked, sent, reports, result, lost>>

\* The last update: completed and charged in one transaction, or
\* RuntimeError.  A lost acknowledgement looks like an error to the worker.
Complete(w) ==
  LET t == worker[w].task
  IN  /\ worker[w].pc = "uploaded"
      /\ IF Guarded(t, worker[w].token)
           THEN /\ status' = [status EXCEPT ![t] = "completed"]
                /\ hold' = [hold EXCEPT ![t] = IF @ = "held" THEN "settled" ELSE @]
                /\ result' = [result EXCEPT ![t] = worker[w].token]
                /\ \/ Leave(w)
                   \/ At(w, "failing")
           ELSE /\ At(w, "failing")
                /\ UNCHANGED <<status, hold, result>>
      /\ UNCHANGED <<version, exec, importing, asked, sent, reports, file, lost>>

\* Any exception of the pipeline, storage or database.
Throw(w) ==
  /\ worker[w].pc \in {"claimed", "aligning", "uploaded"}
  /\ At(w, "failing")
  /\ UNCHANGED <<status, version, exec, hold, importing, asked, sent, reports,
                 file, result, lost>>

\* The handler of process_song_task records the failure and raises again; a
\* fallback thread then records it a second time.
RecordFailure(w) ==
  /\ worker[w].pc = "failing"
  /\ FailAndRefund(worker[w].task)
  /\ \/ Leave(w)
     \/ At(w, "raised")
  /\ UNCHANGED <<version, exec, importing, asked, sent, reports, file, result>>

RecordAgain(w) ==
  /\ worker[w].pc = "raised"
  /\ FailAndRefund(worker[w].task)
  /\ Leave(w)
  /\ UNCHANGED <<version, exec, importing, asked, sent, reports, file, result>>

\* The handler cannot reach the database.
RecordFails(w) ==
  /\ worker[w].pc \in {"failing", "raised"}
  /\ \/ Leave(w)
     \/ worker[w].pc = "failing" /\ At(w, "raised")
  /\ UNCHANGED <<status, version, exec, hold, importing, asked, sent, reports,
                 file, result, lost>>

\* The worker's process is killed; another takes its place.
Crash(w) ==
  /\ worker[w].pc # "idle"
  /\ Leave(w)
  /\ UNCHANGED <<status, version, exec, hold, importing, asked, sent, reports,
                 file, result, lost>>

\* The heartbeat thread of a preparing import or of a worker that has claimed.
Beating(t, k, phase) ==
  \/ t \in importing /\ k = 1 /\ phase = "preparing"
  \/ phase = "running" /\ \E w \in Workers :
       worker[w].task = t /\ worker[w].token = k /\ worker[w].pc # "raised"

\* Slip: the new lease is added to the old one.
HeartbeatExtends(t, phase) ==
  /\ Beating(t, exec[t].token, phase)
  /\ exec[t].phase = phase /\ exec[t].lease > 0
  /\ exec' = [exec EXCEPT ![t].lease = @ + Lease]
  /\ UNCHANGED <<status, version, hold, importing, asked, sent, worker, reports,
                 file, result, lost>>

Heartbeat(t, phase) ==
  /\ Beating(t, exec[t].token, phase)
  /\ exec[t].phase = phase /\ exec[t].lease > 0
  /\ exec' = [exec EXCEPT ![t].lease = Lease]
  /\ UNCHANGED <<status, version, hold, importing, asked, sent, worker, reports,
                 file, result, lost>>

Tick ==
  /\ \E t \in Tasks : exec[t].lease > 0
  /\ exec' = [t \in Tasks |-> IF exec[t].lease > 0
                                THEN [exec[t] EXCEPT !.lease = @ - 1] ELSE exec[t]]
  /\ UNCHANGED <<status, version, hold, importing, asked, sent, worker, reports,
                 file, result, lost>>

-----------------------------------------------------------------------------
OwnerStep(t) ==
  \/ Import(t) \/ Retry(t) \/ Realign(t) \/ Trash(t) \/ Restore(t)
  \/ Delete(t) \/ DeleteFails(t)
  \/ \E request \in {"retry", "realign"} : Ask(t, request)

WorkerStep(w) ==
  \/ Begin(w) \/ Upload(w) \/ Complete(w) \/ RecordFailure(w) \/ RecordAgain(w)

WorkerTrouble(w) == Throw(w) \/ RecordFails(w) \/ Crash(w)

Next ==
  \/ \E t \in Tasks :
       \/ OwnerStep(t) \/ PrepareFails(t) \/ Handoff(t) \/ Reconcile(t)
       \/ \E k \in Tokens : Report(t, k)
       \/ \E phase \in {"preparing", "running"} : Heartbeat(t, phase)
       \/ \E w \in Workers, k \in Tokens : Claim(w, t, k)
  \/ \E w \in Workers : WorkerStep(w) \/ WorkerTrouble(w)
  \/ Tick

Spec == Init /\ [][Next]_vars

\* Time passes, the owner's pages keep asking, import requests end, and a
\* worker's step ends (Celery's time limit bounds it).  Neither heartbeats
\* nor deliveries are fair: an attempt that is never delivered expires.
Fairness ==
  /\ WF_vars(Tick)
  /\ \A t \in Tasks : WF_vars(Reconcile(t)) /\ WF_vars(Handoff(t))
  /\ \A w \in Workers : WF_vars(WorkerStep(w))

FairSpec == Spec /\ Fairness

-----------------------------------------------------------------------------
(* Properties.                                                             *)

TypeOK ==
  /\ status \in [Tasks -> Status]
  /\ version \in [Tasks -> {"absent", "live", "trashed", "deleted"}]
  /\ exec \in [Tasks -> ExecType]
  /\ hold \in [Tasks -> {"none", "held", "settled", "released"}]
  /\ importing \subseteq Tasks
  /\ asked \in [Tasks -> SUBSET {"retry", "realign"}]
  /\ sent \subseteq Tasks \X Tokens
  /\ worker \in [Workers -> WorkerType]
  /\ reports \subseteq Tasks \X Tokens
  /\ file \in [Tasks -> {None} \cup Tokens]
  /\ result \in [Tasks -> {None} \cup Tokens]
  /\ lost \subseteq Tasks \X Tokens

\* A song's credits are held exactly while its task is pending or processing:
\* whatever import, retry, realignment, Trash or deletion do to each other,
\* nothing is aligned unpaid and no hold outlives its task.
HeldWhileActive == \A t \in Tasks : status[t] \in Active <=> hold[t] = "held"

\* Credits are charged for completed alignments only, and every completed
\* alignment is charged; failure handlers that run later take neither back.
ChargedIffCompleted ==
  \A t \in Tasks :
    /\ status[t] = "completed" => hold[t] = "settled"
    /\ hold[t] = "settled" => status[t] = "completed" \/ version[t] = "deleted"

\* However often Celery delivers an attempt, one worker executes it.
OneWorkerPerAttempt ==
  \A v, w \in Workers :
    /\ worker[v].pc # "idle"
    /\ worker[v].task = worker[w].task /\ worker[v].token = worker[w].token
    => v = w

\* An attempt that was ended (expired, trashed, failed, replaced, deleted) is
\* never the one that completes the task, however late its worker comes.
LostAttemptsNeverComplete == \A t \in Tasks : <<t, result[t]>> \notin lost

\* A completed task stays completed until its owner realigns or deletes it.
CompletedUntilRealigned ==
  [][\A t \in Tasks : status[t] = "completed"
       => \/ status'[t] = "completed"
          \/ version'[t] = "deleted"
          \/ status'[t] = "pending" /\ exec'[t].token > exec[t].token]_vars

\* Held credits come back or are charged even when the import request or the
\* worker dies, or the delivery is lost, provided the owner comes back.
EveryHoldEnds == \A t \in Tasks : hold[t] = "held" ~> hold[t] # "held"

\* A failure callback ends its own attempt: one that is late or repeated does
\* not refund the attempt which has replaced it.
OwnFailuresOnly ==
  [][\A t \in Tasks, k \in Tokens :
       /\ hold[t] = "held" /\ hold'[t] = "released"
       /\ \/ <<t, k>> \in reports \ reports'
          \/ \E w \in Workers : /\ worker[w].pc \in {"failing", "raised"}
                                /\ worker[w].task = t /\ worker[w].token = k
                                /\ worker'[w] # worker[w]
       => k = exec[t].token]_vars

\* The alignment a completed task serves is the one that was charged: an
\* expired or replaced attempt cannot publish over it.
AlignmentIsTheChargedOne ==
  \A t \in Tasks :
    status[t] = "completed" /\ file[t] # None => file[t] = result[t]
=============================================================================
