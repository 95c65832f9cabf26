----------------------------- MODULE ExportJobs -----------------------------
(***************************************************************************)
(* Paid lyric-video exports of one account: the ExportJob rows and their   *)
(* leases, the workers that render them, the credit reservation of each    *)
(* job, the export library and the video files in object storage.          *)
(*                                                                         *)
(* Every request handler and every call of change or publish is one        *)
(* database transaction and one step here.  A worker (one call of run) is  *)
(* a process of its own between these steps: it may be late, be killed, or *)
(* lose the acknowledgement of a commit.  Task deletion holds its locks    *)
(* for a long time and is split where other transactions can commit.       *)
(*                                                                         *)
(* Leases are kept relative: job[j].lease is the time left until           *)
(* lease_until, -1 once it lies in the past.  So a lease is live when      *)
(* positive, and reconcile may take it when negative.                      *)
(***************************************************************************)
EXTENDS Integers, FiniteSets

CONSTANTS
  Jobs,        \* export requests (the job id is a hash of the request id)
  Tasks,       \* song versions
  TaskOf,      \* the version a request renders
  MaxRenders,  \* MAX_CONCURRENT_RENDERS_PER_USER
  Lease,       \* LEASE_SECONDS, in ticks
  MaxAttempts  \* bound on the attempts of a job

ASSUME ExportAssumption ==
  /\ TaskOf \in [Jobs -> Tasks]
  /\ MaxRenders \in Nat \ {0}
  /\ Lease \in Nat \ {0}
  /\ MaxAttempts \in Nat \ {0}

VARIABLES
  job,       \* ExportJob rows
  hold,      \* CreditReservation.state of each job, at a price above zero
  library,   \* VideoExport of each job: its state and whose file it links
  objects,   \* video files in storage, named by job and run token
  run,       \* the workers: run r of job j, started by its r-th attempt
  task,      \* the version: live, in Trash, or deleted
  deleting,  \* versions a delete request has locked, having seen no export job
  lost       \* history: runs whose token was taken from them

vars == <<job, hold, library, objects, run, task, deleting, lost>>

Runs == 1..MaxAttempts
NoRun == 0                                   \* run_token IS NULL

Active == {"queued", "running", "uploading"}
Retryable == {"failed", "interrupted"}
Status == Active \cup Retryable \cup {"none", "completed", "dismissed"}

Working == {"waiting", "loading", "rendering", "saving", "publishing"}
Phase == Working \cup {"idle", "scheduled", "failing", "cleaning", "done", "dead"}

JobType == [status : Status, token : {NoRun} \cup Runs, attempt : {0} \cup Runs,
            lease : -1..Lease]
RunType == [pc : Phase, keyed : BOOLEAN, beatFailed : BOOLEAN]

-----------------------------------------------------------------------------
(* The conditions the code's statements test.                              *)

(* Some definitions come with a slip: a mistake the code could plausibly   *)
(* have made there.  Nothing uses a slip; a run's property must notice it. *)

\* Slip: without the token, any attempt owns the active job.
OwnsAnyToken(j, r) == job[j].status \in Active /\ job[j].lease > 0

\* The WHERE clause of change and publish: the attempt still owns its job.
Owns(j, r) ==
  /\ job[j].token = r
  /\ job[j].status \in Active
  /\ job[j].lease > 0

\* Slips: reconcile takes finished jobs too; it overlooks the ones that no
\* worker ever claimed.
ExpiredAnyStatus(j) == job[j].status # "none" /\ job[j].lease < 0
ExpiredClaimed(j) == job[j].status \in Active \ {"queued"} /\ job[j].lease < 0

\* The WHERE clause of reconcile.
Expired(j) == job[j].status \in Active /\ job[j].lease < 0

\* Slip: finish without its guard on the state.
ReleasedAlways(j) == "released"
Released(j) == IF hold[j] = "held" THEN "released" ELSE hold[j]

\* A run that holds the token when it is cleared has lost the job.
Owner(j) == {<<j, r>> : r \in {job[j].token} \ {NoRun}}

\* Slips: the token stays with the interrupted run; the hold stays.
InterruptedWithToken(S) ==
  [j \in Jobs |-> IF j \in S THEN [job[j] EXCEPT !.status = "interrupted"] ELSE job[j]]
HoldsKept(S) == hold

\* reconcile: the jobs, holds and lost runs after expired leases are taken.
Interrupted(S) ==
  [j \in Jobs |-> IF j \in S
     THEN [job[j] EXCEPT !.status = "interrupted", !.token = NoRun]
     ELSE job[j]]
HoldsReleased(S) == [j \in Jobs |-> IF j \in S THEN Released(j) ELSE hold[j]]
Owners(S) == UNION {Owner(j) : j \in S}
ExpiredJobs == {j \in Jobs : Expired(j)}

\* check_render_admission, after the caller's reconcile.
LiveJobs == {j \in Jobs : job[j].status \in Active /\ job[j].lease > 0}
\* Slip: off by one at the cap.
AdmittedAtCap == Cardinality(LiveJobs) <= MaxRenders
Admitted == Cardinality(LiveJobs) < MaxRenders

InTask(t) == {j \in Jobs : TaskOf[j] = t /\ job[j].status # "none"}
\* Slip: trash_version interrupts the finished jobs too.
ActiveInAny(t) == InTask(t)
ActiveIn(t) == {j \in InTask(t) : job[j].status \in Active}

-----------------------------------------------------------------------------
Init ==
  /\ job = [j \in Jobs |-> [status |-> "none", token |-> NoRun, attempt |-> 0, lease |-> -1]]
  /\ hold = [j \in Jobs |-> "none"]
  /\ library = [j \in Jobs |-> [state |-> "none", file |-> NoRun]]
  /\ objects = {}
  /\ run = [j \in Jobs |-> [r \in Runs |->
              [pc |-> "idle", keyed |-> FALSE, beatFailed |-> FALSE]]]
  /\ task = [t \in Tasks |-> "live"]
  /\ deleting = {}
  /\ lost = {}

(* Requests of the owner.                                                  *)

\* A status or list request: reconcile and commit.  Replayed create and
\* retry requests come to this as well.
Reconcile ==
  /\ ExpiredJobs # {}
  /\ job' = Interrupted(ExpiredJobs)
  /\ hold' = HoldsReleased(ExpiredJobs)
  /\ lost' = lost \cup Owners(ExpiredJobs)
  /\ UNCHANGED <<library, objects, run, task, deleting>>

\* create: the row, its hold and its worker.  The route looked at the task
\* before the admission lock was granted: it may be in Trash by now, and a
\* delete that saw no job does not stop the insert.
Create(j) ==
  /\ job[j].status = "none"
  /\ task[TaskOf[j]] # "deleted"
  /\ Admitted
  /\ job' = [Interrupted(ExpiredJobs) EXCEPT
               ![j] = [status |-> "queued", token |-> NoRun, attempt |-> 1, lease |-> Lease]]
  /\ hold' = [HoldsReleased(ExpiredJobs) EXCEPT ![j] = "held"]
  /\ lost' = lost \cup Owners(ExpiredJobs)
  /\ run' = [run EXCEPT ![j][1].pc = "scheduled"]
  /\ UNCHANGED <<library, objects, task, deleting>>

\* retry: a new attempt of a failed or interrupted job, held again.  retry looks
\* for the version in Trash, but nothing keeps it from going there before the
\* job is queued again.
Retry(j) ==
  LET before == Interrupted(ExpiredJobs)[j]
  IN  /\ before.status \in Retryable
      /\ before.attempt < MaxAttempts
      /\ task[TaskOf[j]] # "deleted"
      /\ Admitted
      /\ job' = [Interrupted(ExpiredJobs) EXCEPT
                   ![j] = [status |-> "queued", token |-> NoRun,
                           attempt |-> before.attempt + 1, lease |-> Lease]]
      /\ hold' = [HoldsReleased(ExpiredJobs) EXCEPT ![j] = "held"]
      /\ lost' = lost \cup Owners(ExpiredJobs)
      /\ run' = [run EXCEPT ![j][before.attempt + 1].pc = "scheduled"]
      /\ UNCHANGED <<library, objects, task, deleting>>

Dismiss(j) ==
  /\ Interrupted(ExpiredJobs)[j].status \in Retryable
  /\ job' = [Interrupted(ExpiredJobs) EXCEPT ![j].status = "dismissed"]
  /\ hold' = HoldsReleased(ExpiredJobs)
  /\ lost' = lost \cup Owners(ExpiredJobs)
  /\ UNCHANGED <<library, objects, run, task, deleting>>

\* trash_version locks the task, then its jobs, then the balance.
Trash(t) ==
  /\ task[t] = "live" /\ t \notin deleting
  /\ task' = [task EXCEPT ![t] = "trashed"]
  /\ job' = Interrupted(ActiveIn(t))
  /\ hold' = HoldsReleased(ActiveIn(t))
  /\ lost' = lost \cup Owners(ActiveIn(t))
  /\ UNCHANGED <<library, objects, run, deleting>>

Restore(t) ==
  /\ task[t] = "trashed" /\ t \notin deleting
  /\ task' = [task EXCEPT ![t] = "live"]
  /\ UNCHANGED <<job, hold, library, objects, run, deleting, lost>>

\* delete_export removes the file first and commits the mark afterwards.
EraseFile(j) ==
  /\ library[j].state \in {"ready", "erasing"}
  /\ objects' = objects \ {<<j, library[j].file>>}
  /\ library' = [library EXCEPT ![j].state = "erasing"]
  /\ UNCHANGED <<job, hold, run, task, deleting, lost>>

MarkErased(j) ==
  /\ library[j].state = "erasing"
  /\ library' = [library EXCEPT ![j].state = "erased"]
  /\ UNCHANGED <<job, hold, objects, run, task, deleting, lost>>

\* delete_task of a version with export jobs: their rows and the balance stay
\* locked from the first look to the commit, so the request is one step.  The
\* version may have gone to Trash since the request looked it up.
DeleteTask(t) ==
  /\ task[t] # "deleted" /\ t \notin deleting
  /\ InTask(t) # {}
  /\ task' = [task EXCEPT ![t] = "deleted"]
  /\ hold' = HoldsReleased(InTask(t))
  /\ lost' = lost \cup Owners(InTask(t))
  /\ objects' = objects \ {<<j, library[j].file>> : j \in InTask(t)}
  /\ library' = [j \in Jobs |-> IF j \in InTask(t)
                                  THEN [state |-> "none", file |-> NoRun] ELSE library[j]]
  /\ job' = [j \in Jobs |-> IF j \in InTask(t)
                              THEN [job[j] EXCEPT !.status = "none", !.token = NoRun]
                              ELSE job[j]]
  /\ UNCHANGED <<run, deleting>>

\* The same request fails half-way: files are gone, the rows are rolled back.
DeleteTaskFails(t) ==
  /\ task[t] # "deleted" /\ t \notin deleting
  /\ \E S \in SUBSET {j \in InTask(t) : library[j].state = "ready"} :
       /\ S # {}
       /\ objects' = objects \ {<<j, library[j].file>> : j \in S}
       /\ library' = [j \in Jobs |-> IF j \in S
                        THEN [library[j] EXCEPT !.state = "erasing"] ELSE library[j]]
  /\ UNCHANGED <<job, hold, run, task, deleting, lost>>

\* delete_task that sees no export job locks only the task row ...
DeleteTaskStart(t) ==
  /\ task[t] # "deleted" /\ t \notin deleting
  /\ InTask(t) = {}
  /\ deleting' = deleting \cup {t}
  /\ UNCHANGED <<job, hold, library, objects, run, task, lost>>

\* ... and removes every job of the task, the ones created meanwhile included.
DeleteTaskFinish(t) ==
  /\ t \in deleting
  /\ deleting' = deleting \ {t}
  /\ task' = [task EXCEPT ![t] = "deleted"]
  /\ lost' = lost \cup Owners(InTask(t))
  /\ job' = [j \in Jobs |-> IF j \in InTask(t)
                              THEN [job[j] EXCEPT !.status = "none", !.token = NoRun]
                              ELSE job[j]]
  /\ UNCHANGED <<hold, library, objects, run>>

-----------------------------------------------------------------------------
(* Run r of job j.                                                         *)

Goto(j, r, pc) == run' = [run EXCEPT ![j][r].pc = pc]

\* Take a queued job that no run holds, or return.  Any scheduled run may:
\* a late first run can take the place of the second.
Claim(j, r) ==
  /\ run[j][r].pc = "scheduled"
  /\ IF job[j].status = "queued" /\ job[j].token = NoRun /\ job[j].lease > 0
       THEN /\ job' = [job EXCEPT ![j].token = r, ![j].lease = Lease]
            /\ Goto(j, r, "waiting")
       ELSE /\ Goto(j, r, "done")
            /\ UNCHANGED job
  /\ UNCHANGED <<hold, library, objects, task, deleting, lost>>

\* change: renew the lease and enter the next phase, or learn it was taken.
Change(j, r, from, to, status) ==
  /\ run[j][r].pc = from
  /\ IF Owns(j, r)
       THEN /\ job' = [job EXCEPT ![j].status = status, ![j].lease = Lease]
            /\ Goto(j, r, to)
       ELSE /\ Goto(j, r, "failing")
            /\ UNCHANGED job
  /\ UNCHANGED <<hold, library, objects, task, deleting, lost>>

StartLoading(j, r) == Change(j, r, "waiting", "loading", "running")
StartRendering(j, r) == Change(j, r, "loading", "rendering", "running")
StartUploading(j, r) ==
  /\ ~run[j][r].beatFailed
  /\ Change(j, r, "rendering", "saving", "uploading")

\* Slip: the new lease is added to the old one.
HeartbeatExtends(j, r) ==
  /\ run[j][r].pc \in Working
  /\ ~run[j][r].beatFailed
  /\ Owns(j, r)
  /\ job' = [job EXCEPT ![j].lease = @ + Lease]
  /\ UNCHANGED <<hold, library, objects, run, task, deleting, lost>>

\* The heartbeat of a working run: once it has failed it stays silent.
Heartbeat(j, r) ==
  /\ run[j][r].pc \in Working
  /\ ~run[j][r].beatFailed
  /\ IF Owns(j, r)
       THEN /\ job' = [job EXCEPT ![j].lease = Lease]
            /\ UNCHANGED run
       ELSE /\ run' = [run EXCEPT ![j][r].beatFailed = TRUE]
            /\ UNCHANGED job
  /\ UNCHANGED <<hold, library, objects, task, deleting, lost>>

HeartbeatBreaks(j, r) ==
  /\ run[j][r].pc \in Working
  /\ ~run[j][r].beatFailed
  /\ run' = [run EXCEPT ![j][r].beatFailed = TRUE]
  /\ UNCHANGED <<job, hold, library, objects, task, deleting, lost>>

\* The key is set before the upload, so a failed upload is cleaned up too.
Save(j, r) ==
  /\ run[j][r].pc = "saving"
  /\ objects' = objects \cup {<<j, r>>}
  /\ run' = [run EXCEPT ![j][r] = [@ EXCEPT !.pc = "publishing", !.keyed = TRUE]]
  /\ UNCHANGED <<job, hold, library, task, deleting, lost>>

\* Slip: the failed upload is swallowed.
SaveFailsUnnoticed(j, r) ==
  /\ run[j][r].pc = "saving"
  /\ run' = [run EXCEPT ![j][r] = [@ EXCEPT !.pc = "publishing", !.keyed = TRUE]]
  /\ UNCHANGED <<job, hold, library, objects, task, deleting, lost>>

SaveFails(j, r) ==
  /\ run[j][r].pc = "saving"
  /\ objects' \in {objects, objects \cup {<<j, r>>}}
  /\ run' = [run EXCEPT ![j][r] = [@ EXCEPT !.pc = "failing", !.keyed = TRUE]]
  /\ UNCHANGED <<job, hold, library, task, deleting, lost>>

Publishable(j, r) ==
  /\ Owns(j, r)
  /\ task[TaskOf[j]] = "live"
  /\ library[j].state = "none"

\* publish: the library entry, the completed job and the charge commit
\* together, under the task lock.  The acknowledgement may be lost: then the
\* run goes on as if it had failed.
Publish(j, r) ==
  /\ run[j][r].pc = "publishing"
  /\ TaskOf[j] \notin deleting
  /\ Publishable(j, r)
  /\ library' = [library EXCEPT ![j] = [state |-> "ready", file |-> r]]
  /\ job' = [job EXCEPT ![j].status = "completed", ![j].token = NoRun]
  /\ hold' = [hold EXCEPT ![j] = IF @ = "held" THEN "settled" ELSE @]
  /\ \E pc \in {"done", "failing"} : Goto(j, r, pc)
  /\ UNCHANGED <<objects, task, deleting, lost>>

PublishRefused(j, r) ==
  /\ run[j][r].pc = "publishing"
  /\ TaskOf[j] \notin deleting
  /\ ~Publishable(j, r)
  /\ Goto(j, r, "failing")
  /\ UNCHANGED <<job, hold, library, objects, task, deleting, lost>>

\* Any exception of the body: a render error, a failed heartbeat seen after
\* the render, storage or database trouble, a graceful shutdown.
Throw(j, r) ==
  /\ run[j][r].pc \in Working
  /\ Goto(j, r, "failing")
  /\ UNCHANGED <<job, hold, library, objects, task, deleting, lost>>

AfterFailing(j, r) == IF run[j][r].keyed THEN "cleaning" ELSE "done"

\* The handlers: report the attempt failed, or interrupted on shutdown, and
\* return the hold, provided the attempt still owns the job.
ReportFailure(j, r) ==
  /\ run[j][r].pc = "failing"
  /\ Goto(j, r, AfterFailing(j, r))
  /\ IF Owns(j, r)
       THEN /\ \E status \in Retryable :
                 job' = [job EXCEPT ![j].status = status, ![j].token = NoRun,
                                    ![j].lease = Lease]
            /\ hold' = [hold EXCEPT ![j] = Released(j)]
            /\ lost' = lost \cup {<<j, r>>}
       ELSE UNCHANGED <<job, hold, lost>>
  /\ UNCHANGED <<library, objects, task, deleting>>

\* The report itself cannot reach the database: the lease will expire.
ReportFails(j, r) ==
  /\ run[j][r].pc = "failing"
  /\ Goto(j, r, AfterFailing(j, r))
  /\ UNCHANGED <<job, hold, library, objects, task, deleting, lost>>

\* The finally block: delete the file of an unpublished run, unless a library
\* entry links it (the commit had succeeded after all).
\* Slip: the clean-up trusts the missing acknowledgement.
NeverLinked(j, r) == FALSE
Linked(j, r) == library[j].state \in {"ready", "erasing"} /\ library[j].file = r

CleanUp(j, r) ==
  /\ run[j][r].pc = "cleaning"
  /\ objects' = IF Linked(j, r) THEN objects ELSE objects \ {<<j, r>>}
  /\ Goto(j, r, "done")
  /\ UNCHANGED <<job, hold, library, task, deleting, lost>>

CleanUpFails(j, r) ==
  /\ run[j][r].pc = "cleaning"
  /\ Goto(j, r, "done")
  /\ UNCHANGED <<job, hold, library, objects, task, deleting, lost>>

\* The process of the run is killed, perhaps before it ever started it.
Crash(j, r) ==
  /\ run[j][r].pc \notin {"idle", "done", "dead"}
  /\ Goto(j, r, "dead")
  /\ UNCHANGED <<job, hold, library, objects, task, deleting, lost>>

Tick ==
  /\ \E j \in Jobs : job[j].lease >= 0
  /\ job' = [j \in Jobs |-> IF job[j].lease >= 0
                              THEN [job[j] EXCEPT !.lease = @ - 1] ELSE job[j]]
  /\ UNCHANGED <<hold, library, objects, run, task, deleting, lost>>

-----------------------------------------------------------------------------
OwnerStep ==
  \/ Reconcile
  \/ \E j \in Jobs : Create(j) \/ Retry(j) \/ Dismiss(j) \/ EraseFile(j) \/ MarkErased(j)
  \/ \E t \in Tasks : \/ Trash(t) \/ Restore(t)
                      \/ DeleteTask(t) \/ DeleteTaskFails(t)
                      \/ DeleteTaskStart(t) \/ DeleteTaskFinish(t)

WorkerStep(j, r) ==
  \/ Claim(j, r)
  \/ StartLoading(j, r) \/ StartRendering(j, r) \/ StartUploading(j, r)
  \/ Save(j, r) \/ Publish(j, r) \/ PublishRefused(j, r)
  \/ ReportFailure(j, r) \/ CleanUp(j, r)

WorkerTrouble(j, r) ==
  \/ Heartbeat(j, r) \/ HeartbeatBreaks(j, r)
  \/ Throw(j, r) \/ SaveFails(j, r) \/ ReportFails(j, r) \/ CleanUpFails(j, r)
  \/ Crash(j, r)

Next ==
  \/ OwnerStep
  \/ \E j \in Jobs, r \in Runs : WorkerStep(j, r) \/ WorkerTrouble(j, r)
  \/ Tick

Spec == Init /\ [][Next]_vars

\* Time passes, the owner's pages keep asking for the status, event loops run
\* their tasks, and requests end.  A heartbeat needs no fairness.
Fairness ==
  /\ WF_vars(Tick)
  /\ WF_vars(Reconcile)
  /\ \A j \in Jobs, r \in Runs :
       /\ WF_vars(WorkerStep(j, r))
       /\ WF_vars(run[j][r].beatFailed /\ Throw(j, r))
  /\ \A t \in Tasks : WF_vars(DeleteTaskFinish(t))

FairSpec == Spec /\ Fairness

-----------------------------------------------------------------------------
(* Properties.                                                             *)

TypeOK ==
  /\ job \in [Jobs -> JobType]
  /\ hold \in [Jobs -> {"none", "held", "settled", "released"}]
  /\ library \in [Jobs -> [state : {"none", "ready", "erasing", "erased"},
                           file : {NoRun} \cup Runs]]
  /\ objects \subseteq Jobs \X Runs
  /\ run \in [Jobs -> [Runs -> RunType]]
  /\ task \in [Tasks -> {"live", "trashed", "deleted"}]
  /\ deleting \subseteq Tasks
  /\ lost \subseteq Jobs \X Runs

\* Through expiry, retry, Trash, cancellation and late workers, a job is
\* active exactly while its credits are held: no render runs unpaid, and no
\* hold outlives its job (but for a deleted version, see DeletionReleases).
HeldWhileActive ==
  \A j \in Jobs :
    /\ job[j].status \in Active => hold[j] = "held"
    /\ hold[j] = "held" => job[j].status \in Active \/ task[TaskOf[j]] = "deleted"

\* The charge, the completed job and the library entry come together or not
\* at all, and no later failure handler takes one of them back.
ChargedIffDelivered ==
  \A j \in Jobs :
    /\ job[j].status = "completed" => hold[j] = "settled" /\ library[j].state # "none"
    /\ library[j].state # "none" => job[j].status = "completed"
    /\ hold[j] = "settled" => job[j].status = "completed" \/ task[TaskOf[j]] = "deleted"

\* A library entry links a file that exists until its owner asks for its
\* deletion; in particular a run that lost the acknowledgement of its
\* publication, and cleans up, does not delete it.
ReadyFilesExist ==
  \A j \in Jobs : library[j].state = "ready" => <<j, library[j].file>> \in objects

\* A run whose job was taken away (expired, retried, trashed or reported
\* failed) never publishes, however late it finishes.
LostRunsNeverPublish ==
  \A j \in Jobs : library[j].state # "none" => <<j, library[j].file>> \notin lost

\* Why that is so.  A run is started at most once and holds the token of its
\* job at most once: runs come in the order of the attempts, one that has not
\* started neither holds a token nor lost one, a token is never given to a
\* run that lost it, and a completed job has none.
Fencing ==
  \A j \in Jobs :
    /\ job[j].status = "none" /\ task[TaskOf[j]] # "deleted" => job[j].attempt = 0
    /\ job[j].status = "completed" => job[j].token = NoRun /\ TaskOf[j] \notin deleting
    /\ job[j].token # NoRun => <<j, job[j].token>> \notin lost
    /\ \A r \in Runs :
         /\ run[j][r].pc \in {"idle", "scheduled"} => job[j].token # r /\ <<j, r>> \notin lost
         /\ r > job[j].attempt => run[j][r].pc = "idle"

\* A run that is about to publish has uploaded its file, nobody else removes
\* it, and the run whose file is in the library never publishes again.
Uploads ==
  \A j \in Jobs :
    /\ \A r \in Runs : run[j][r].pc = "publishing" => <<j, r>> \in objects
    /\ library[j].state # "none" =>
         /\ library[j].file \in Runs
         /\ run[j][library[j].file].pc \in {"failing", "cleaning", "done", "dead"}

\* No interleaving of admissions, retries, expiries and late heartbeats has
\* more renders with live leases than the account's cap.
CapRespected == Cardinality(LiveJobs) <= MaxRenders

\* Releasing reserved credits is part of deleting an unfinished project.
DeletionReleases ==
  \A j \in Jobs : task[TaskOf[j]] = "deleted" => hold[j] # "held"

\* A completed export stays completed until its version is deleted.
CompletedIsFinal ==
  [][\A j \in Jobs : job[j].status = "completed"
       => job'[j].status = "completed" \/ task'[TaskOf[j]] = "deleted"]_vars

\* What a buyer sees of a job: the state of the payment and of the video.
payment ==
  [j \in Jobs |-> CASE hold[j] = "none" -> "idle"
                    [] hold[j] = "held" -> "reserved"
                    [] hold[j] = "settled" -> "charged"
                    [] hold[j] = "released" -> "returned"]
video ==
  [j \in Jobs |-> CASE library[j].state = "ready" -> "ready"
                    [] library[j].state \in {"erasing", "erased"} -> "gone"
                    [] OTHER -> IF hold[j] = "settled" THEN "gone" ELSE "absent"]

\* The exports, with their leases, retries, late workers and deletions,
\* deliver what PaidDelivery promises.
Delivery == INSTANCE PaidDelivery WITH payment <- payment, video <- video
DeliversAsPromised == Delivery!Spec

\* Reserved credits never stay reserved: the video is delivered or the hold
\* returns, even if the worker dies, as long as the owner comes back to look.
EveryHoldEnds ==
  \A j \in Jobs :
    hold[j] = "held" ~> (hold[j] # "held" \/ task[TaskOf[j]] = "deleted")
=============================================================================
