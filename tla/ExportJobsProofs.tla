-------------------------- MODULE ExportJobsProofs --------------------------
(***************************************************************************)
(* Theorems about ExportJobs for any number of jobs, versions, attempts    *)
(* and render slots, and any lease.                                        *)
(***************************************************************************)
EXTENDS ExportJobs, FiniteSetTheorems, TLAPS

-----------------------------------------------------------------------------
(* Types.                                                                  *)

\* What expiry and the requests that end a version leave are still rows.
LEMMA EndingTypes ==
  ASSUME TypeOK, NEW S \in SUBSET Jobs
  PROVE  /\ Interrupted(S) \in [Jobs -> JobType]
         /\ HoldsReleased(S) \in [Jobs -> {"none", "held", "settled", "released"}]
         /\ Owners(S) \subseteq Jobs \X Runs
  <1>1. ASSUME NEW j \in Jobs PROVE Interrupted(S)[j] \in JobType
    <2>1. job[j] \in JobType
      BY DEF TypeOK
    <2>2. [job[j] EXCEPT !.status = "interrupted", !.token = NoRun] \in JobType
      BY <2>1 DEF JobType, Status, Active, Retryable
    <2> QED BY <2>1, <2>2 DEF Interrupted
  <1>2. HoldsReleased(S) \in [Jobs -> {"none", "held", "settled", "released"}]
    BY DEF TypeOK, HoldsReleased, Released
  <1>3. ASSUME NEW j \in Jobs PROVE Owner(j) \subseteq Jobs \X Runs
    <2>1. job[j].token \in {NoRun} \cup Runs
      BY DEF TypeOK, JobType
    <2> QED BY <2>1 DEF Owner
  <1>4. Owners(S) \subseteq Jobs \X Runs
    BY <1>3 DEF Owners
  <1> QED BY <1>1, <1>2, <1>4 DEF Interrupted

\* Deleting the rows of a version leaves rows.
LEMMA DeletingTypes ==
  ASSUME TypeOK, NEW S \in SUBSET Jobs
  PROVE  [j \in Jobs |-> IF j \in S
            THEN [job[j] EXCEPT !.status = "none", !.token = NoRun] ELSE job[j]]
         \in [Jobs -> JobType]
  <1>1. ASSUME NEW j \in Jobs
        PROVE  /\ job[j] \in JobType
               /\ [job[j] EXCEPT !.status = "none", !.token = NoRun] \in JobType
    BY ZenonT(40) DEF TypeOK, JobType, Status
  <1> QED BY <1>1

\* A run may go from any phase to any other without losing its type.
LEMMA RunTypes ==
  ASSUME TypeOK, NEW j \in Jobs, NEW r \in Runs, NEW pc \in Phase,
         \/ Goto(j, r, pc)
         \/ run' = [run EXCEPT ![j][r] = [@ EXCEPT !.pc = pc, !.keyed = TRUE]]
         \/ run' = [run EXCEPT ![j][r].beatFailed = TRUE]
  PROVE  run' \in [Jobs -> [Runs -> RunType]]
  <1>1. run[j][r] \in RunType /\ run[j] \in [Runs -> RunType]
    BY DEF TypeOK
  <1>2. /\ [run[j][r] EXCEPT !.pc = pc] \in RunType
        /\ [run[j][r] EXCEPT !.pc = pc, !.keyed = TRUE] \in RunType
        /\ [run[j][r] EXCEPT !.beatFailed = TRUE] \in RunType
    BY <1>1 DEF RunType
  <1>3. run \in [Jobs -> [Runs -> RunType]]
    BY DEF TypeOK
  <1>4. CASE Goto(j, r, pc)
    BY <1>2, <1>3, <1>4 DEF Goto
  <1>5. CASE run' = [run EXCEPT ![j][r] = [@ EXCEPT !.pc = pc, !.keyed = TRUE]]
    BY <1>2, <1>3, <1>5
  <1>6. CASE run' = [run EXCEPT ![j][r].beatFailed = TRUE]
    BY <1>2, <1>3, <1>6
  <1> QED BY <1>4, <1>5, <1>6

\* So may a job: to any status, token, attempt and lease in their ranges.
LEMMA JobTypes ==
  ASSUME TypeOK, NEW j \in Jobs, NEW s \in Status, NEW k \in {NoRun} \cup Runs,
         NEW l \in -1..Lease
  PROVE  /\ [job EXCEPT ![j].status = s] \in [Jobs -> JobType]
         /\ [job EXCEPT ![j].lease = l] \in [Jobs -> JobType]
         /\ [job EXCEPT ![j].token = k, ![j].lease = l] \in [Jobs -> JobType]
         /\ [job EXCEPT ![j].status = s, ![j].lease = l] \in [Jobs -> JobType]
         /\ [job EXCEPT ![j].status = s, ![j].token = k] \in [Jobs -> JobType]
         /\ [job EXCEPT ![j].status = s, ![j].token = k, ![j].lease = l] \in [Jobs -> JobType]
  <1>1. job[j] \in JobType
    BY DEF TypeOK
  <1>2. /\ [job[j] EXCEPT !.status = s] \in JobType
        /\ [job[j] EXCEPT !.lease = l] \in JobType
        /\ [job[j] EXCEPT !.token = k, !.lease = l] \in JobType
        /\ [job[j] EXCEPT !.status = s, !.lease = l] \in JobType
        /\ [job[j] EXCEPT !.status = s, !.token = k] \in JobType
        /\ [job[j] EXCEPT !.status = s, !.token = k, !.lease = l] \in JobType
    BY <1>1 DEF JobType
  <1> QED BY <1>1, <1>2 DEF TypeOK

\* Every row keeps its type.
THEOREM TypeCorrect == Spec => []TypeOK
  <1>1. Init => TypeOK
    <2> SUFFICES ASSUME Init PROVE TypeOK
      OBVIOUS
    <2>1. job \in [Jobs -> JobType]
      BY ExportAssumption DEF Init, JobType, Status, NoRun
    <2>2. run \in [Jobs -> [Runs -> RunType]]
      BY DEF Init, RunType, Phase
    <2> QED BY <2>1, <2>2 DEF Init, TypeOK
  <1>2. TypeOK /\ [Next]_vars => TypeOK'
    <2> SUFFICES ASSUME TypeOK, [Next]_vars PROVE TypeOK'
      OBVIOUS
    <2>0. /\ NoRun \in {NoRun} \cup Runs /\ 1 \in Runs /\ Lease \in -1..Lease
          /\ Active \subseteq Status /\ Retryable \subseteq Status
          /\ {"none", "completed", "dismissed", "interrupted"} \subseteq Status
          /\ Working \subseteq Phase
          /\ {"scheduled", "waiting", "loading", "rendering", "saving", "publishing",
              "failing", "cleaning", "done", "dead"} \subseteq Phase
      BY ExportAssumption DEF Runs, Status, Active, Retryable, Phase, Working
    <2>1. CASE Reconcile
      BY <2>1, EndingTypes DEF Reconcile, TypeOK, ExpiredJobs
    <2>2. ASSUME NEW j \in Jobs, Create(j) PROVE TypeOK'
      <3>1. [status |-> "queued", token |-> NoRun, attempt |-> 1, lease |-> Lease] \in JobType
        BY <2>0 DEF JobType, Active
      <3>2. ExpiredJobs \in SUBSET Jobs
        BY DEF ExpiredJobs
      <3>3. run' \in [Jobs -> [Runs -> RunType]]
        BY <2>0, <2>2, RunTypes DEF Create, Goto
      <3>4. job' \in [Jobs -> JobType]
        BY <2>2, <3>1, <3>2, EndingTypes DEF Create
      <3> QED BY <2>2, <3>2, <3>3, <3>4, EndingTypes DEF Create, TypeOK
    <2>3. ASSUME NEW j \in Jobs, Retry(j) PROVE TypeOK'
      <3> DEFINE next == Interrupted(ExpiredJobs)[j].attempt + 1
      <3>1. ExpiredJobs \in SUBSET Jobs
        BY DEF ExpiredJobs
      <3>2. Interrupted(ExpiredJobs)[j].attempt \in {0} \cup Runs
        BY <3>1, EndingTypes DEF JobType
      <3>3. next \in Runs
        BY <2>3, <3>2, ExportAssumption DEF Retry, Runs
      <3>4. [status |-> "queued", token |-> NoRun, attempt |-> next, lease |-> Lease] \in JobType
        BY <2>0, <3>3 DEF JobType, Active
      <3>5. run' \in [Jobs -> [Runs -> RunType]]
        BY <2>0, <2>3, <3>3, RunTypes DEF Retry, Goto
      <3>6. job' \in [Jobs -> JobType]
        BY <2>3, <3>1, <3>4, EndingTypes DEF Retry
      <3> QED BY <2>3, <3>1, <3>5, <3>6, EndingTypes DEF Retry, TypeOK
    <2>4. ASSUME NEW j \in Jobs, Dismiss(j) PROVE TypeOK'
      <3>1. ExpiredJobs \in SUBSET Jobs
        BY DEF ExpiredJobs
      <3>2. [Interrupted(ExpiredJobs)[j] EXCEPT !.status = "dismissed"] \in JobType
        BY <2>0, <3>1, EndingTypes DEF JobType
      <3>3. job' \in [Jobs -> JobType]
        BY <2>4, <3>1, <3>2, EndingTypes DEF Dismiss
      <3> QED BY <2>4, <3>1, <3>3, EndingTypes DEF Dismiss, TypeOK
    <2>5. ASSUME NEW j \in Jobs, EraseFile(j) \/ MarkErased(j) PROVE TypeOK'
      <3>1. library' \in [Jobs -> [state : {"none", "ready", "erasing", "erased"},
                                   file : {NoRun} \cup Runs]]
        <4>1. library \in [Jobs -> [state : {"none", "ready", "erasing", "erased"},
                                    file : {NoRun} \cup Runs]]
          BY DEF TypeOK
        <4>2. \A s \in {"erasing", "erased"} :
                [library[j] EXCEPT !.state = s] \in [state : {"none", "ready", "erasing", "erased"},
                                                     file : {NoRun} \cup Runs]
          BY <4>1
        <4> QED BY <2>5, <4>1, <4>2 DEF EraseFile, MarkErased
      <3> QED BY <2>5, <3>1 DEF EraseFile, MarkErased, TypeOK
    <2>6. ASSUME NEW t \in Tasks, Trash(t) \/ Restore(t) PROVE TypeOK'
      <3>1. ActiveIn(t) \in SUBSET Jobs
        BY DEF ActiveIn, InTask
      <3> QED BY ZenonT(40), <2>6, <3>1, EndingTypes DEF Trash, Restore, TypeOK
    <2>7. ASSUME NEW t \in Tasks, DeleteTask(t) PROVE TypeOK'
      <3>1. InTask(t) \in SUBSET Jobs
        BY DEF InTask
      <3>2. job' \in [Jobs -> JobType]
        BY <2>7, <3>1, DeletingTypes DEF DeleteTask
      <3> QED BY <2>7, <3>1, <3>2, EndingTypes DEF DeleteTask, TypeOK
    <2>8. ASSUME NEW t \in Tasks, DeleteTaskFails(t) PROVE TypeOK'
      BY <2>8 DEF DeleteTaskFails, TypeOK
    <2>9. ASSUME NEW t \in Tasks, DeleteTaskStart(t) \/ DeleteTaskFinish(t) PROVE TypeOK'
      <3>1. InTask(t) \in SUBSET Jobs
        BY DEF InTask
      <3>2. CASE DeleteTaskStart(t)
        BY <3>2 DEF DeleteTaskStart, TypeOK
      <3>3. CASE DeleteTaskFinish(t)
        <4>1. job' \in [Jobs -> JobType]
          BY <3>1, <3>3, DeletingTypes DEF DeleteTaskFinish
        <4> QED BY <3>1, <3>3, <4>1, EndingTypes DEF DeleteTaskFinish, TypeOK
      <3> QED BY <2>9, <3>2, <3>3
    <2>10. ASSUME NEW j \in Jobs, NEW r \in Runs, WorkerStep(j, r) PROVE TypeOK'
      <3>1. CASE Claim(j, r)
        <4>1. job' \in [Jobs -> JobType]
          <5>1. job \in [Jobs -> JobType]
            BY DEF TypeOK
          <5>2. [job EXCEPT ![j].token = r, ![j].lease = Lease] \in [Jobs -> JobType]
            BY <2>0, JobTypes
          <5> QED BY <3>1, <5>1, <5>2 DEF Claim
        <4>2. run' \in [Jobs -> [Runs -> RunType]]
          BY <2>0, <3>1, RunTypes DEF Claim
        <4> QED BY <3>1, <4>1, <4>2 DEF Claim, TypeOK
      <3>2. ASSUME NEW from, NEW to \in Phase, NEW s \in Status, Change(j, r, from, to, s)
            PROVE  TypeOK'
        <4>1. job' \in [Jobs -> JobType]
          <5>1. job \in [Jobs -> JobType]
            BY DEF TypeOK
          <5>2. [job EXCEPT ![j].status = s, ![j].lease = Lease] \in [Jobs -> JobType]
            BY <2>0, <3>2, JobTypes
          <5> QED BY <3>2, <5>1, <5>2 DEF Change
        <4>2. run' \in [Jobs -> [Runs -> RunType]]
          BY <2>0, <3>2, RunTypes DEF Change
        <4> QED BY <3>2, <4>1, <4>2 DEF Change, TypeOK
      <3>3. CASE Save(j, r)
        <4>1. run' \in [Jobs -> [Runs -> RunType]]
          BY <2>0, <3>3, RunTypes DEF Save
        <4> QED BY <3>3, <4>1 DEF Save, TypeOK
      <3>4. CASE Publish(j, r)
        <4>1. job' \in [Jobs -> JobType]
          BY <2>0, <3>4, JobTypes DEF Publish
        <4>2. run' \in [Jobs -> [Runs -> RunType]]
          BY <2>0, <3>4, RunTypes DEF Publish
        <4> QED BY <3>4, <4>1, <4>2 DEF Publish, TypeOK
      <3>5. CASE PublishRefused(j, r) \/ CleanUp(j, r)
        <4>1. run' \in [Jobs -> [Runs -> RunType]]
          BY <2>0, <3>5, RunTypes DEF PublishRefused, CleanUp
        <4> QED BY <3>5, <4>1 DEF PublishRefused, CleanUp, TypeOK
      <3>6. CASE ReportFailure(j, r)
        <4>1. job' \in [Jobs -> JobType]
          <5>1. CASE Owns(j, r)
            <6>1. PICK s \in Retryable :
                    job' = [job EXCEPT ![j].status = s, ![j].token = NoRun, ![j].lease = Lease]
              BY <3>6, <5>1 DEF ReportFailure
            <6>2. [job EXCEPT ![j].status = s, ![j].token = NoRun, ![j].lease = Lease]
                    \in [Jobs -> JobType]
              BY <2>0, JobTypes
            <6> QED BY <6>1, <6>2
          <5>2. CASE ~Owns(j, r)
            BY <3>6, <5>2 DEF ReportFailure, TypeOK
          <5> QED BY <5>1, <5>2
        <4>2. run' \in [Jobs -> [Runs -> RunType]]
          BY <2>0, <3>6, RunTypes DEF ReportFailure, AfterFailing
        <4>3. hold' \in [Jobs -> {"none", "held", "settled", "released"}]
          <5>1. hold \in [Jobs -> {"none", "held", "settled", "released"}]
            BY DEF TypeOK
          <5> QED BY <3>6, <5>1 DEF ReportFailure, Released
        <4>4. lost' \subseteq Jobs \X Runs
          <5>1. lost \subseteq Jobs \X Runs /\ <<j, r>> \in Jobs \X Runs
            BY DEF TypeOK
          <5> QED BY <3>6, <5>1 DEF ReportFailure
        <4> QED BY <3>6, <4>1, <4>2, <4>3, <4>4 DEF ReportFailure, TypeOK
      <3> QED BY <2>0, <2>10, <3>1, <3>2, <3>3, <3>4, <3>5, <3>6
              DEF WorkerStep, StartLoading, StartRendering, StartUploading, Active
    <2>11. ASSUME NEW j \in Jobs, NEW r \in Runs, WorkerTrouble(j, r) PROVE TypeOK'
      <3>1. CASE Heartbeat(j, r) \/ HeartbeatBreaks(j, r)
        <4>1. job' \in [Jobs -> JobType]
          <5>1. job \in [Jobs -> JobType]
            BY DEF TypeOK
          <5>2. [job EXCEPT ![j].lease = Lease] \in [Jobs -> JobType]
            BY <2>0, JobTypes
          <5> QED BY <3>1, <5>1, <5>2 DEF Heartbeat, HeartbeatBreaks
        <4>2. run' \in [Jobs -> [Runs -> RunType]]
          <5>1. CASE run' = run
            BY <5>1 DEF TypeOK
          <5>2. CASE run' = [run EXCEPT ![j][r].beatFailed = TRUE]
            BY <2>0, <5>2, RunTypes
          <5> QED BY <3>1, <5>1, <5>2 DEF Heartbeat, HeartbeatBreaks
        <4> QED BY <3>1, <4>1, <4>2 DEF Heartbeat, HeartbeatBreaks, TypeOK
      <3>2. CASE Throw(j, r) \/ ReportFails(j, r) \/ CleanUpFails(j, r) \/ Crash(j, r)
        <4>1. run' \in [Jobs -> [Runs -> RunType]]
          BY <2>0, <3>2, RunTypes DEF Throw, ReportFails, CleanUpFails, Crash, AfterFailing
        <4> QED BY <3>2, <4>1 DEF Throw, ReportFails, CleanUpFails, Crash, TypeOK
      <3>3. CASE SaveFails(j, r)
        <4>1. run' \in [Jobs -> [Runs -> RunType]]
          BY <2>0, <3>3, RunTypes DEF SaveFails
        <4> QED BY <3>3, <4>1 DEF SaveFails, TypeOK
      <3> QED BY <2>11, <3>1, <3>2, <3>3 DEF WorkerTrouble
    <2>12. CASE Tick
      <3>1. ASSUME NEW j \in Jobs PROVE job'[j] \in JobType
        <4>1. job[j] \in JobType
          BY DEF TypeOK
        <4>2. job[j].lease >= 0 => [job[j] EXCEPT !.lease = @ - 1] \in JobType
          BY <4>1, ExportAssumption DEF JobType
        <4> QED BY <2>12, <4>1, <4>2 DEF Tick
      <3>2. job' \in [Jobs -> JobType]
        BY <2>12, <3>1 DEF Tick
      <3> QED BY <2>12, <3>2 DEF Tick, TypeOK
    <2>13. CASE UNCHANGED vars
      BY <2>13 DEF vars, TypeOK
    <2> QED BY <2>1, <2>2, <2>3, <2>4, <2>5, <2>6, <2>7, <2>8, <2>9, <2>10, <2>11,
               <2>12, <2>13 DEF Next, OwnerStep
  <1> QED BY <1>1, <1>2, PTL DEF Spec

-----------------------------------------------------------------------------
(* What a step may do to one job.  The invariants follow from this list.   *)

Unlost(i) == \A r \in Runs : <<i, r>> \in lost' <=> <<i, r>> \in lost
LosesToken(i) == \A r \in Runs : <<i, r>> \in lost' <=> <<i, r>> \in lost \/ r = job[i].token

\* No run starts, and none goes back to its start.
RunsGoOn(i) ==
  \A r \in Runs : /\ run'[i][r].pc = "idle" <=> run[i][r].pc = "idle"
                  /\ run'[i][r].pc = "scheduled" => run[i][r].pc = "scheduled"

SameVersion(i) ==
  /\ task'[TaskOf[i]] = "deleted" <=> task[TaskOf[i]] = "deleted"
  /\ TaskOf[i] \in deleting' <=> TaskOf[i] \in deleting

SameGoods(i) == hold'[i] = hold[i] /\ library'[i] = library[i]

Keeps(i) ==
  /\ \/ job'[i].status = job[i].status
     \/ job[i].status \in Active /\ job'[i].status \in Active
  /\ job'[i].token = job[i].token /\ job'[i].attempt = job[i].attempt
  /\ SameGoods(i) /\ Unlost(i) /\ RunsGoOn(i)
  /\ \/ SameVersion(i)
     \/ job[i].status = "none" /\ (task[TaskOf[i]] = "deleted" => task'[TaskOf[i]] = "deleted")

Claimed(i) ==
  /\ job[i].status \in Active /\ job'[i].status = job[i].status
  /\ \E r \in Runs : /\ run[i][r].pc = "scheduled" /\ run'[i][r].pc \notin {"idle", "scheduled"}
                     /\ job'[i].token = r
  /\ job'[i].attempt = job[i].attempt
  /\ SameGoods(i) /\ Unlost(i) /\ RunsGoOn(i) /\ SameVersion(i)

Ends(i) ==
  /\ job[i].status \in Active /\ job'[i].status \in Retryable \cup {"dismissed"}
  /\ job'[i].token = NoRun /\ job'[i].attempt = job[i].attempt
  /\ hold'[i] = Released(i) /\ library'[i] = library[i]
  /\ LosesToken(i) /\ RunsGoOn(i) /\ SameVersion(i)

Dismissed(i) ==
  /\ job[i].status \in Retryable /\ job'[i].status = "dismissed"
  /\ job'[i].token = job[i].token /\ job'[i].attempt = job[i].attempt
  /\ SameGoods(i) /\ Unlost(i) /\ RunsGoOn(i) /\ SameVersion(i)

Starts(i) ==
  /\ task[TaskOf[i]] # "deleted"
  /\ job'[i].status = "queued" /\ job'[i].token = NoRun
  /\ job'[i].attempt \in Runs
  /\ job'[i].attempt = IF job[i].status = "none" THEN 1 ELSE job[i].attempt + 1
  /\ hold'[i] = "held" /\ library'[i] = library[i]
  /\ \/ job[i].status \in {"none"} \cup Retryable /\ Unlost(i)
     \/ job[i].status \in Active /\ LosesToken(i)
  /\ \A r \in Runs : r # job'[i].attempt => run'[i][r].pc = run[i][r].pc
  /\ SameVersion(i)

Delivers(i) ==
  /\ job[i].status \in Active /\ job'[i].status = "completed"
  /\ job'[i].token = NoRun /\ job'[i].attempt = job[i].attempt
  /\ hold'[i] = (IF hold[i] = "held" THEN "settled" ELSE hold[i])
  /\ job[i].token \in Runs /\ library[i].state = "none"
  /\ library'[i] = [state |-> "ready", file |-> job[i].token]
  /\ Unlost(i) /\ RunsGoOn(i)
  /\ TaskOf[i] \notin deleting /\ SameVersion(i)

Erases(i) ==
  /\ job'[i] = job[i] /\ hold'[i] = hold[i]
  /\ library[i].state \in {"ready", "erasing"} /\ library'[i].state \in {"erasing", "erased"}
  /\ library'[i].file = library[i].file
  /\ Unlost(i) /\ run'[i] = run[i] /\ SameVersion(i)

Removes(i) ==
  /\ job[i].status # "none" /\ job'[i].status = "none"
  /\ job'[i].token = NoRun /\ job'[i].attempt = job[i].attempt
  /\ task'[TaskOf[i]] = "deleted" /\ TaskOf[i] \notin deleting'
  /\ LosesToken(i) /\ RunsGoOn(i)
  /\ \/ hold'[i] = Released(i) /\ library'[i].state = "none"
     \/ TaskOf[i] \in deleting /\ SameGoods(i)

JobStep(i) ==
  \/ Keeps(i) \/ Claimed(i) \/ Ends(i) \/ Dismissed(i) \/ Starts(i)
  \/ Delivers(i) \/ Erases(i) \/ Removes(i)

\* The fields of a row.
LEMMA RowParts ==
  ASSUME TypeOK, NEW i \in Jobs
  PROVE  /\ job[i] \in [status : Status, token : {NoRun} \cup Runs,
                        attempt : {0} \cup Runs, lease : -1..Lease]
         /\ library[i] \in [state : {"none", "ready", "erasing", "erased"},
                            file : {NoRun} \cup Runs]
         /\ DOMAIN job = Jobs /\ DOMAIN hold = Jobs /\ DOMAIN library = Jobs
         /\ TaskOf[i] \in Tasks /\ task \in [Tasks -> {"live", "trashed", "deleted"}]
  BY ExportAssumption DEF TypeOK, JobType

\* What expiry and the requests that end a version do to one job.
LEMMA EndingParts ==
  ASSUME TypeOK, NEW S \in SUBSET Jobs, NEW i \in Jobs
  PROVE  /\ i \notin S => Interrupted(S)[i] = job[i] /\ HoldsReleased(S)[i] = hold[i]
         /\ i \in S => /\ Interrupted(S)[i].status = "interrupted"
                       /\ Interrupted(S)[i].token = NoRun
                       /\ Interrupted(S)[i].attempt = job[i].attempt
                       /\ HoldsReleased(S)[i] = Released(i)
         /\ DOMAIN Interrupted(S) = Jobs /\ DOMAIN HoldsReleased(S) = Jobs
         /\ Interrupted(S)[i] \in JobType
  <1>1. Interrupted(S)[i] \in JobType
    BY EndingTypes
  <1> QED BY <1>1, RowParts DEF Interrupted, HoldsReleased

\* Who loses a token: the current holders of the ended jobs.
LEMMA OwnerParts ==
  ASSUME TypeOK, NEW S \in SUBSET Jobs, NEW i \in Jobs, lost' = lost \cup Owners(S)
  PROVE  IF i \in S THEN LosesToken(i) ELSE Unlost(i)
  <1>1. \A r \in Runs : <<i, r>> \in Owners(S) <=> i \in S /\ r = job[i].token
    <2>1. \A r \in Runs : r # NoRun
      BY ExportAssumption DEF Runs, NoRun
    <2> QED BY <2>1 DEF Owners, Owner
  <1> QED BY <1>1 DEF LosesToken, Unlost

\* Only run r of job j changes its phase.
Moves(j, r, pc) ==
  \A i \in Jobs, q \in Runs : /\ i = j /\ q = r => run'[i][q].pc = pc
                              /\ i # j \/ q # r => run'[i][q].pc = run[i][q].pc

\* No run changes its phase.
Stays == \A i \in Jobs, q \in Runs : run'[i][q].pc = run[i][q].pc

\* A run that goes to another phase, with or without its key, moves alone.
LEMMA RunPcs ==
  ASSUME TypeOK, NEW j \in Jobs, NEW r \in Runs, NEW pc \in Phase,
         \/ Goto(j, r, pc)
         \/ run' = [run EXCEPT ![j][r] = [@ EXCEPT !.pc = pc, !.keyed = TRUE]]
  PROVE  Moves(j, r, pc)
  <1> SUFFICES ASSUME NEW i \in Jobs, NEW q \in Runs
               PROVE  run'[i][q].pc = IF i = j /\ q = r THEN pc ELSE run[i][q].pc
    BY DEF Moves
  <1>1. /\ run \in [Jobs -> [Runs -> RunType]]
        /\ run[j][r] \in [pc : Phase, keyed : BOOLEAN, beatFailed : BOOLEAN]
    BY DEF TypeOK, RunType
  <1>2. CASE Goto(j, r, pc)
    <2>1. [run[j][r] EXCEPT !.pc = pc].pc = pc
      BY <1>1
    <2>2. run'[i][q] = IF i = j /\ q = r THEN [run[j][r] EXCEPT !.pc = pc] ELSE run[i][q]
      BY <1>1, <1>2 DEF Goto
    <2> QED BY <2>1, <2>2
  <1>3. CASE run' = [run EXCEPT ![j][r] = [@ EXCEPT !.pc = pc, !.keyed = TRUE]]
    <2>1. [run[j][r] EXCEPT !.pc = pc, !.keyed = TRUE].pc = pc
      BY <1>1
    <2>2. run'[i][q] = IF i = j /\ q = r
                         THEN [run[j][r] EXCEPT !.pc = pc, !.keyed = TRUE] ELSE run[i][q]
      BY <1>1, <1>3
    <2> QED BY <2>1, <2>2
  <1> QED BY <1>2, <1>3

\* A failed heartbeat changes no phase.
LEMMA BeatPcs ==
  ASSUME TypeOK, NEW j \in Jobs, NEW r \in Runs, run' = [run EXCEPT ![j][r].beatFailed = TRUE]
  PROVE  Stays
  <1> SUFFICES ASSUME NEW i \in Jobs, NEW q \in Runs PROVE run'[i][q].pc = run[i][q].pc
    BY DEF Stays
  <1>1. /\ run \in [Jobs -> [Runs -> RunType]]
        /\ run[j][r] \in [pc : Phase, keyed : BOOLEAN, beatFailed : BOOLEAN]
    BY DEF TypeOK, RunType
  <1>2. [run[j][r] EXCEPT !.beatFailed = TRUE].pc = run[j][r].pc
    BY <1>1
  <1>3. run'[i][q] = IF i = j /\ q = r
                       THEN [run[j][r] EXCEPT !.beatFailed = TRUE] ELSE run[i][q]
    BY <1>1
  <1> QED BY <1>2, <1>3

\* A run that leaves a phase does not go back to its start.
LEMMA RunParts ==
  ASSUME TypeOK, NEW j \in Jobs, NEW r \in Runs, NEW pc \in Phase \ {"idle", "scheduled"},
         run[j][r].pc # "idle", NEW i \in Jobs,
         \/ Goto(j, r, pc)
         \/ run' = [run EXCEPT ![j][r] = [@ EXCEPT !.pc = pc, !.keyed = TRUE]]
         \/ run' = [run EXCEPT ![j][r].beatFailed = TRUE]
         \/ run' = run
  PROVE  RunsGoOn(i)
  <1>1. CASE Moves(j, r, pc)
    BY <1>1 DEF Moves, RunsGoOn
  <1>2. CASE Stays \/ run' = run
    BY <1>2 DEF Stays, RunsGoOn
  <1> QED BY <1>1, <1>2, RunPcs, BeatPcs

\* A step that leaves a job, its hold and its version alone keeps it.
LEMMA QuietStep ==
  ASSUME NEW i \in Jobs, RunsGoOn(i), UNCHANGED <<hold, library, task, deleting, lost>>,
         job'[i].status = job[i].status,
         job'[i].token = job[i].token, job'[i].attempt = job[i].attempt
  PROVE  Keeps(i)
  BY DEF Keeps, SameGoods, Unlost, SameVersion

\* A request that interrupts the active jobs in S ends or keeps each job.
LEMMA EndingStep ==
  ASSUME TypeOK, NEW S \in SUBSET Jobs, \A j \in S : job[j].status \in Active,
         NEW i \in Jobs, RunsGoOn(i), SameVersion(i),
         job'[i] = Interrupted(S)[i], hold'[i] = HoldsReleased(S)[i],
         lost' = lost \cup Owners(S), library' = library
  PROVE  IF i \in S THEN Ends(i) ELSE Keeps(i)
  <1>1. CASE i \in S
    <2>1. LosesToken(i)
      BY <1>1, OwnerParts
    <2> QED BY <1>1, <2>1, EndingParts DEF Ends, Retryable
  <1>2. CASE i \notin S
    <2>1. Unlost(i)
      BY <1>2, OwnerParts
    <2> QED BY <1>2, <2>1, EndingParts DEF Keeps, SameGoods
  <1> QED BY <1>1, <1>2

\* A job that starts or starts again runs its next attempt.
LEMMA StartingRuns ==
  ASSUME TypeOK, NEW j \in Jobs, NEW r \in Runs, run' = [run EXCEPT ![j][r].pc = "scheduled"],
         NEW i \in Jobs
  PROVE  /\ i # j => RunsGoOn(i)
         /\ \A q \in Runs : q # r => run'[i][q].pc = run[i][q].pc
  <1>1. run \in [Jobs -> [Runs -> RunType]]
    BY DEF TypeOK
  <1> QED BY <1>1 DEF RunsGoOn

\* The same for the steps of the workers.
LEMMA RunSteps ==
  ASSUME TypeOK, NEW j \in Jobs, NEW r \in Runs, WorkerStep(j, r) \/ WorkerTrouble(j, r),
         NEW i \in Jobs
  PROVE  JobStep(i)
  <1> USE DEF JobStep
  <1>0. /\ run' = run => RunsGoOn(i)
        /\ UNCHANGED <<task, deleting>> => SameVersion(i)
        /\ UNCHANGED lost => Unlost(i)
    BY DEF RunsGoOn, SameVersion, Unlost
  <1>1. /\ \A pc \in {"waiting", "loading", "rendering", "saving", "publishing", "failing",
                      "cleaning", "done", "dead"} : pc \in Phase \ {"idle", "scheduled"}
        /\ \A pc \in Working : pc # "idle"
    BY DEF Phase, Working
  <1>2. ASSUME NEW pc \in Phase \ {"idle", "scheduled"}, run[j][r].pc # "idle", Goto(j, r, pc)
        PROVE  RunsGoOn(i) /\ run'[j][r].pc = pc
    <2>1. run \in [Jobs -> [Runs -> RunType]] /\ run[j][r] \in RunType
      BY DEF TypeOK
    <2>2. run'[j][r].pc = pc
      BY <1>2, <2>1 DEF Goto, RunType
    <2> QED BY <1>2, <2>2, RunParts
  <1>3. CASE Claim(j, r)
    <2>1. RunsGoOn(i) /\ run'[j][r].pc \in {"waiting", "done"}
      BY <1>1, <1>2, <1>3 DEF Claim
    <2>2. CASE job' = job
      BY <1>3, <2>1, <2>2, QuietStep DEF Claim
    <2>3. CASE /\ job[j].status = "queued"
               /\ job' = [job EXCEPT ![j].token = r, ![j].lease = Lease]
      <3>1. CASE i # j
        <4>1. job'[i] = job[i]
          BY <2>3, <3>1, RowParts
        <4> QED BY <1>3, <2>1, <4>1, QuietStep DEF Claim
      <3>2. CASE i = j
        <4>1. /\ job'[i].status = job[i].status /\ job'[i].attempt = job[i].attempt
              /\ job'[i].token = r
          BY <2>3, <3>2, RowParts
        <4> QED BY <1>0, <1>3, <2>1, <2>3, <3>2, <4>1 DEF Claim, Claimed, Active, SameGoods
      <3> QED BY <3>1, <3>2
    <2> QED BY <1>3, <2>2, <2>3 DEF Claim
  <1>4. ASSUME NEW from, NEW to \in Phase \ {"idle", "scheduled"}, NEW s \in Active,
               from # "idle", Change(j, r, from, to, s)
        PROVE  JobStep(i)
    <2>1. RunsGoOn(i)
      BY <1>1, <1>2, <1>4 DEF Change
    <2>2. CASE job' = job
      BY <1>4, <2>1, <2>2, QuietStep DEF Change
    <2>3. CASE Owns(j, r) /\ job' = [job EXCEPT ![j].status = s, ![j].lease = Lease]
      <3>1. CASE i # j
        <4>1. job'[i] = job[i]
          BY <2>3, <3>1, RowParts
        <4> QED BY <1>4, <2>1, <4>1, QuietStep DEF Change
      <3>2. CASE i = j
        <4>1. /\ job'[i].status = s /\ job'[i].attempt = job[i].attempt
              /\ job'[i].token = job[i].token
          BY <2>3, <3>2, RowParts
        <4> QED BY <1>0, <1>4, <2>1, <2>3, <3>2, <4>1 DEF Change, Owns, Keeps, SameGoods
      <3> QED BY <3>1, <3>2
    <2> QED BY <1>4, <2>2, <2>3 DEF Change
  <1>5. CASE StartLoading(j, r) \/ StartRendering(j, r) \/ StartUploading(j, r)
    <2>1. {"running", "uploading"} \subseteq Active
      BY DEF Active
    <2> QED BY <1>1, <1>4, <1>5, <2>1 DEF StartLoading, StartRendering, StartUploading
  <1>6. CASE Heartbeat(j, r)
    <2>1. RunsGoOn(i)
      BY <1>0, <1>1, <1>6, RunParts DEF Heartbeat
    <2>2. CASE job' = job
      BY <1>6, <2>1, <2>2, QuietStep DEF Heartbeat
    <2>3. CASE job' = [job EXCEPT ![j].lease = Lease]
      <3>1. /\ job'[i].status = job[i].status /\ job'[i].token = job[i].token
            /\ job'[i].attempt = job[i].attempt
        BY <2>3, RowParts
      <3> QED BY <1>6, <2>1, <3>1, QuietStep DEF Heartbeat
    <2> QED BY <1>6, <2>2, <2>3 DEF Heartbeat
  <1>7. CASE HeartbeatBreaks(j, r)
    <2>1. RunsGoOn(i)
      BY <1>1, <1>7, RunParts DEF HeartbeatBreaks
    <2> QED BY <1>7, <2>1, QuietStep DEF HeartbeatBreaks
  <1>8. CASE Save(j, r) \/ SaveFails(j, r)
    <2>1. PICK pc \in {"publishing", "failing"} :
            run' = [run EXCEPT ![j][r] = [@ EXCEPT !.pc = pc, !.keyed = TRUE]]
      BY <1>8 DEF Save, SaveFails
    <2>2. RunsGoOn(i)
      BY <1>1, <1>8, <2>1, RunParts DEF Save, SaveFails
    <2> QED BY <1>8, <2>2, QuietStep DEF Save, SaveFails
  <1>9. CASE \/ PublishRefused(j, r) \/ CleanUp(j, r) \/ Throw(j, r) \/ ReportFails(j, r)
             \/ CleanUpFails(j, r) \/ Crash(j, r)
    <2>1. AfterFailing(j, r) \in {"cleaning", "done"}
      BY DEF AfterFailing
    <2>2. RunsGoOn(i)
      BY <1>1, <1>2, <1>9, <2>1
         DEF PublishRefused, CleanUp, Throw, ReportFails, CleanUpFails, Crash
    <2> QED BY <1>9, <2>2, QuietStep
            DEF PublishRefused, CleanUp, Throw, ReportFails, CleanUpFails, Crash
  <1>10. CASE Publish(j, r)
    <2>1. RunsGoOn(i)
      BY <1>1, <1>2, <1>10 DEF Publish
    <2>2. CASE i # j
      <3>1. job'[i] = job[i] /\ hold'[i] = hold[i] /\ library'[i] = library[i]
        BY <1>10, <2>2, RowParts DEF Publish
      <3> QED BY <1>0, <1>10, <2>1, <3>1 DEF Publish, Keeps, SameGoods
    <2>3. CASE i = j
      <3>1. /\ job'[i].status = "completed" /\ job'[i].token = NoRun
            /\ job'[i].attempt = job[i].attempt
            /\ library'[i] = [state |-> "ready", file |-> r]
            /\ hold'[i] = (IF hold[i] = "held" THEN "settled" ELSE hold[i])
        BY <1>10, <2>3, RowParts DEF Publish
      <3> QED BY <1>0, <1>10, <2>1, <2>3, <3>1 DEF Publish, Publishable, Owns, Delivers
    <2> QED BY <2>2, <2>3
  <1>11. CASE ReportFailure(j, r)
    <2>1. AfterFailing(j, r) \in {"cleaning", "done"}
      BY DEF AfterFailing
    <2>2. RunsGoOn(i)
      BY <1>1, <1>2, <1>11, <2>1 DEF ReportFailure
    <2>3. CASE ~Owns(j, r)
      BY <1>11, <2>2, <2>3, QuietStep DEF ReportFailure
    <2>4. CASE Owns(j, r)
      <3>0. /\ hold' = [hold EXCEPT ![j] = Released(j)]
            /\ lost' = lost \cup {<<j, r>>}
        BY <1>11, <2>4 DEF ReportFailure
      <3>1. PICK s \in Retryable :
              job' = [job EXCEPT ![j].status = s, ![j].token = NoRun, ![j].lease = Lease]
        BY <1>11, <2>4 DEF ReportFailure
      <3>2. CASE i # j
        <4>1. job'[i] = job[i] /\ hold'[i] = hold[i] /\ Unlost(i)
          BY <3>0, <3>1, <3>2, RowParts DEF Unlost
        <4> QED BY <1>0, <1>11, <2>2, <4>1 DEF ReportFailure, Keeps, SameGoods
      <3>3. CASE i = j
        <4>1. /\ job'[i].status = s /\ job'[i].token = NoRun
              /\ job'[i].attempt = job[i].attempt /\ hold'[i] = Released(i)
          BY <3>0, <3>1, <3>3, RowParts
        <4>2. LosesToken(i)
          BY <2>4, <3>0, <3>3 DEF LosesToken, Owns
        <4> QED BY <1>0, <1>11, <2>2, <2>4, <3>3, <4>1, <4>2 DEF ReportFailure, Ends, Owns
      <3> QED BY <3>2, <3>3
    <2> QED BY <2>3, <2>4
  <1> QED BY <1>3, <1>5, <1>6, <1>7, <1>8, <1>9, <1>10, <1>11 DEF WorkerStep, WorkerTrouble

\* Every step of the system is, for each job, one of the list above.
LEMMA JobSteps ==
  ASSUME TypeOK, [Next]_vars, NEW i \in Jobs
  PROVE  JobStep(i)
  <1> USE DEF JobStep
  <1>0. /\ run' = run => RunsGoOn(i)
        /\ UNCHANGED <<task, deleting>> => SameVersion(i)
        /\ UNCHANGED lost => Unlost(i)
        /\ ExpiredJobs \in SUBSET Jobs /\ \A j \in ExpiredJobs : job[j].status \in Active
    BY DEF RunsGoOn, SameVersion, Unlost, ExpiredJobs, Expired
  <1>1. CASE Reconcile
    BY <1>0, <1>1, EndingStep DEF Reconcile
  <1>2. ASSUME NEW j \in Jobs, Create(j) PROVE JobStep(i)
    <2>1. CASE i # j
      <3>1. 1 \in Runs
        BY ExportAssumption DEF Runs
      <3>2. RunsGoOn(i)
        BY <1>2, <2>1, <3>1, StartingRuns DEF Create
      <3>3. job'[i] = Interrupted(ExpiredJobs)[i] /\ hold'[i] = HoldsReleased(ExpiredJobs)[i]
        BY <1>0, <1>2, <2>1, EndingParts DEF Create
      <3> QED BY <1>0, <1>2, <3>2, <3>3, EndingStep DEF Create
    <2>2. CASE i = j
      <3>1. 1 \in Runs
        BY ExportAssumption DEF Runs
      <3>2. \A q \in Runs : q # 1 => run'[i][q].pc = run[i][q].pc
        BY <1>2, <3>1, StartingRuns DEF Create
      <3>3. job'[i] = [status |-> "queued", token |-> NoRun, attempt |-> 1, lease |-> Lease]
        BY <1>0, <1>2, <2>2, EndingParts DEF Create
      <3>4. hold'[i] = "held"
        BY <1>0, <1>2, <2>2, EndingParts DEF Create
      <3>5. i \notin ExpiredJobs
        BY <1>2, <2>2 DEF Create, ExpiredJobs, Expired, Active
      <3>6. Unlost(i)
        BY <1>0, <1>2, <3>5, OwnerParts DEF Create
      <3> QED BY <1>0, <1>2, <2>2, <3>1, <3>2, <3>3, <3>4, <3>6 DEF Create, Starts
    <2> QED BY <2>1, <2>2
  <1>3. ASSUME NEW j \in Jobs, Retry(j) PROVE JobStep(i)
    <2> DEFINE before == Interrupted(ExpiredJobs)[j]
    <2>1. before.attempt = job[j].attempt /\ job[j].attempt + 1 \in Runs
      <3>1. before.attempt = job[j].attempt
        BY <1>0, EndingParts
      <3>2. job[j].attempt \in {0} \cup Runs /\ before.attempt < MaxAttempts
        BY <1>3, RowParts DEF Retry
      <3> QED BY <3>1, <3>2, ExportAssumption DEF Runs
    <2>2. run' = [run EXCEPT ![j][job[j].attempt + 1].pc = "scheduled"]
      BY <1>3, <2>1 DEF Retry
    <2>3. CASE i # j
      <3>1. RunsGoOn(i)
        BY <2>1, <2>2, <2>3, StartingRuns
      <3>2. job'[i] = Interrupted(ExpiredJobs)[i] /\ hold'[i] = HoldsReleased(ExpiredJobs)[i]
        BY <1>0, <1>3, <2>3, EndingParts DEF Retry
      <3> QED BY <1>0, <1>3, <3>1, <3>2, EndingStep DEF Retry
    <2>4. CASE i = j
      <3>1. \A q \in Runs : q # job[j].attempt + 1 => run'[i][q].pc = run[i][q].pc
        BY <2>1, <2>2, StartingRuns
      <3>2. job'[i] = [status |-> "queued", token |-> NoRun,
                       attempt |-> job[i].attempt + 1, lease |-> Lease]
        BY <1>0, <1>3, <2>1, <2>4, EndingParts DEF Retry
      <3>3. hold'[i] = "held"
        BY <1>0, <1>3, <2>4, EndingParts DEF Retry
      <3>4. \/ job[i].status \in Retryable /\ Unlost(i)
            \/ job[i].status \in Active /\ LosesToken(i)
        <4>1. lost' = lost \cup Owners(ExpiredJobs)
          BY <1>3 DEF Retry
        <4>2. IF i \in ExpiredJobs THEN LosesToken(i) ELSE Unlost(i)
          BY <1>0, <4>1, OwnerParts
        <4>3. i \notin ExpiredJobs => job[i].status \in Retryable
          BY <1>0, <1>3, <2>4, EndingParts DEF Retry
        <4> QED BY <1>0, <4>2, <4>3
      <3>5. job[i].status # "none"
        BY <3>4 DEF Retryable, Active
      <3> QED BY <1>0, <1>3, <2>1, <2>4, <3>1, <3>2, <3>3, <3>4, <3>5 DEF Retry, Starts
    <2> QED BY <2>3, <2>4
  <1>4. ASSUME NEW j \in Jobs, Dismiss(j) PROVE JobStep(i)
    <2>1. /\ hold'[i] = HoldsReleased(ExpiredJobs)[i]
          /\ lost' = lost \cup Owners(ExpiredJobs) /\ library' = library
          /\ RunsGoOn(i) /\ SameVersion(i)
      BY <1>0, <1>4 DEF Dismiss
    <2>2. CASE i # j
      <3>1. job'[i] = Interrupted(ExpiredJobs)[i]
        BY <1>0, <1>4, <2>2, EndingParts DEF Dismiss
      <3> QED BY <1>0, <2>1, <3>1, EndingStep
    <2>3. CASE i = j
      <3>1. /\ job'[i].status = "dismissed"
            /\ job'[i].token = Interrupted(ExpiredJobs)[i].token
            /\ job'[i].attempt = Interrupted(ExpiredJobs)[i].attempt
        BY <1>0, <1>4, <2>3, EndingParts DEF Dismiss, JobType
      <3>2. IF i \in ExpiredJobs THEN LosesToken(i) ELSE Unlost(i)
        BY <1>0, <2>1, OwnerParts
      <3>3. CASE i \in ExpiredJobs
        BY <1>0, <2>1, <3>1, <3>2, <3>3, EndingParts DEF Ends
      <3>4. CASE i \notin ExpiredJobs
        BY <1>0, <1>4, <2>1, <2>3, <3>1, <3>2, <3>4, EndingParts
           DEF Dismiss, Dismissed, SameGoods
      <3> QED BY <3>3, <3>4
    <2> QED BY <2>2, <2>3
  <1>5. ASSUME NEW j \in Jobs, EraseFile(j) \/ MarkErased(j) PROVE JobStep(i)
    <2>1. /\ UNCHANGED <<job, hold, run, task, deleting, lost>>
          /\ library[j].state \in {"ready", "erasing"}
          /\ \E s \in {"erasing", "erased"} : library' = [library EXCEPT ![j].state = s]
      BY <1>5 DEF EraseFile, MarkErased
    <2>2. CASE i = j
      BY <1>0, <2>1, <2>2, RowParts DEF Erases
    <2>3. CASE i # j
      <3>1. library'[i] = library[i]
        BY <2>1, <2>3, RowParts
      <3> QED BY <1>0, <2>1, <3>1 DEF Keeps, SameGoods
    <2> QED BY <2>2, <2>3
  <1>6. ASSUME NEW t \in Tasks, Trash(t) PROVE JobStep(i)
    <2>1. ActiveIn(t) \in SUBSET Jobs /\ \A j \in ActiveIn(t) : job[j].status \in Active
      BY DEF ActiveIn, InTask
    <2>2. SameVersion(i)
      BY <1>6, RowParts DEF Trash, SameVersion
    <2> QED BY <1>0, <1>6, <2>1, <2>2, EndingStep DEF Trash
  <1>7. ASSUME NEW t \in Tasks, Restore(t) PROVE JobStep(i)
    <2>1. SameVersion(i)
      BY <1>7, RowParts DEF Restore, SameVersion
    <2> QED BY <1>0, <1>7, <2>1 DEF Restore, Keeps, SameGoods
  <1>8. ASSUME NEW t \in Tasks, DeleteTask(t) PROVE JobStep(i)
    <2>1. InTask(t) \in SUBSET Jobs
      BY DEF InTask
    <2>2. IF i \in InTask(t) THEN LosesToken(i) ELSE Unlost(i)
      BY <1>8, <2>1, OwnerParts DEF DeleteTask
    <2>3. CASE i \in InTask(t)
      <3>1. /\ job'[i].status = "none" /\ job'[i].token = NoRun
            /\ job'[i].attempt = job[i].attempt
        BY <1>8, <2>3, RowParts DEF DeleteTask
      <3>2. hold'[i] = Released(i) /\ library'[i].state = "none"
        BY <1>8, <2>1, <2>3, EndingParts DEF DeleteTask
      <3>3. /\ job[i].status # "none" /\ task'[TaskOf[i]] = "deleted"
            /\ TaskOf[i] \notin deleting'
        BY <1>8, <2>3, RowParts DEF DeleteTask, InTask
      <3> QED BY <1>0, <1>8, <2>2, <2>3, <3>1, <3>2, <3>3 DEF DeleteTask, Removes
    <2>4. CASE i \notin InTask(t)
      <3>1. job'[i] = job[i] /\ SameGoods(i)
        BY <1>8, <2>1, <2>4, EndingParts DEF DeleteTask, SameGoods
      <3>2. \/ job[i].status = "none" /\ task'[TaskOf[i]] = "deleted"
            \/ SameVersion(i)
        BY <1>8, <2>4, RowParts DEF DeleteTask, InTask, SameVersion
      <3> QED BY <1>0, <1>8, <2>2, <2>4, <3>1, <3>2 DEF DeleteTask, Keeps
    <2> QED BY <2>3, <2>4
  <1>9. ASSUME NEW t \in Tasks, DeleteTaskFails(t) PROVE JobStep(i)
    <2>1. PICK S \in SUBSET {j \in InTask(t) : library[j].state = "ready"} :
            library' = [j \in Jobs |-> IF j \in S
                          THEN [library[j] EXCEPT !.state = "erasing"] ELSE library[j]]
      BY <1>9 DEF DeleteTaskFails
    <2>2. UNCHANGED <<job, hold, run, task, deleting, lost>>
      BY <1>9 DEF DeleteTaskFails
    <2>3. CASE i \in S
      BY <1>0, <2>1, <2>2, <2>3, RowParts DEF Erases
    <2>4. CASE i \notin S
      BY <1>0, <2>1, <2>2, <2>4 DEF Keeps, SameGoods
    <2> QED BY <2>3, <2>4
  <1>10. ASSUME NEW t \in Tasks, DeleteTaskStart(t) PROVE JobStep(i)
    <2>1. TaskOf[i] = t => job[i].status = "none"
      BY <1>10 DEF DeleteTaskStart, InTask
    <2>2. TaskOf[i] # t => SameVersion(i)
      BY <1>10 DEF DeleteTaskStart, SameVersion
    <2> QED BY <1>0, <1>10, <2>1, <2>2 DEF DeleteTaskStart, Keeps, SameGoods
  <1>11. ASSUME NEW t \in Tasks, DeleteTaskFinish(t) PROVE JobStep(i)
    <2>1. InTask(t) \in SUBSET Jobs
      BY DEF InTask
    <2>2. IF i \in InTask(t) THEN LosesToken(i) ELSE Unlost(i)
      BY <1>11, <2>1, OwnerParts DEF DeleteTaskFinish
    <2>3. CASE i \in InTask(t)
      <3>1. /\ job'[i].status = "none" /\ job'[i].token = NoRun
            /\ job'[i].attempt = job[i].attempt
        BY <1>11, <2>3, RowParts DEF DeleteTaskFinish
      <3>2. /\ job[i].status # "none" /\ task'[TaskOf[i]] = "deleted"
            /\ TaskOf[i] \notin deleting' /\ TaskOf[i] \in deleting
        BY <1>11, <2>3, RowParts DEF DeleteTaskFinish, InTask
      <3> QED BY <1>0, <1>11, <2>2, <2>3, <3>1, <3>2 DEF DeleteTaskFinish, Removes, SameGoods
    <2>4. CASE i \notin InTask(t)
      <3>1. job'[i] = job[i] /\ SameGoods(i)
        BY <1>11, <2>4 DEF DeleteTaskFinish, SameGoods
      <3>2. \/ job[i].status = "none" /\ task'[TaskOf[i]] = "deleted"
            \/ SameVersion(i)
        BY <1>11, <2>4, RowParts DEF DeleteTaskFinish, InTask, SameVersion
      <3> QED BY <1>0, <1>11, <2>2, <2>4, <3>1, <3>2 DEF DeleteTaskFinish, Keeps
    <2> QED BY <2>3, <2>4
  <1>12. ASSUME NEW j \in Jobs, NEW r \in Runs, WorkerStep(j, r) \/ WorkerTrouble(j, r)
         PROVE  JobStep(i)
    BY <1>12, RunSteps
  <1>13. CASE Tick
    <2>1. /\ job'[i].status = job[i].status /\ job'[i].token = job[i].token
          /\ job'[i].attempt = job[i].attempt
      BY <1>13, RowParts DEF Tick
    <2> QED BY <1>0, <1>13, <2>1, QuietStep DEF Tick
  <1>14. CASE UNCHANGED vars
    BY <1>0, <1>14, QuietStep DEF vars
  <1> QED BY <1>1, <1>2, <1>3, <1>4, <1>5, <1>6, <1>7, <1>8, <1>9, <1>10, <1>11, <1>12,
             <1>13, <1>14 DEF Next, OwnerStep

-----------------------------------------------------------------------------
(* The invariants.  Each is inductive, given the ones before it.           *)

\* Spec => []HeldWhileActive: no render runs unpaid and no hold outlives its
\* job, whatever expiry, retries, Trash, deletions and late workers do.
THEOREM HoldsFollowJobs == Spec => []HeldWhileActive
  <1>1. Init => HeldWhileActive
    BY DEF Init, HeldWhileActive, Active
  <1>2. TypeOK /\ HeldWhileActive /\ [Next]_vars => HeldWhileActive'
    <2> SUFFICES ASSUME TypeOK, HeldWhileActive, [Next]_vars, NEW i \in Jobs
                 PROVE  /\ job'[i].status \in Active => hold'[i] = "held"
                        /\ hold'[i] = "held" => \/ job'[i].status \in Active
                                                \/ task'[TaskOf[i]] = "deleted"
      BY DEF HeldWhileActive
    <2>1. /\ job[i].status \in Active => hold[i] = "held"
          /\ hold[i] = "held" => job[i].status \in Active \/ task[TaskOf[i]] = "deleted"
      BY DEF HeldWhileActive
    <2>2. JobStep(i)
      BY JobSteps
    <2> USE <2>1 DEF SameGoods, SameVersion, Active, Retryable, Released
    <2>3. CASE Keeps(i) \/ Claimed(i) \/ Dismissed(i)
      BY <2>3 DEF Keeps, Claimed, Dismissed
    <2>4. CASE Ends(i) \/ Starts(i)
      BY <2>4 DEF Ends, Starts
    <2>5. CASE Delivers(i) \/ Erases(i) \/ Removes(i)
      BY <2>5 DEF Delivers, Erases, Removes
    <2> QED BY <2>2, <2>3, <2>4, <2>5 DEF JobStep
  <1> QED BY <1>1, <1>2, TypeCorrect, PTL DEF Spec

\* Spec => []Fencing: a run is started once and holds its job's token at most
\* once, so a token that was taken away never comes back.
THEOREM TokensAreFenced == Spec => []Fencing
  <1>1. Init => Fencing
    BY ExportAssumption DEF Init, Fencing, Runs, NoRun
  <1>2. TypeOK /\ Fencing /\ [Next]_vars => Fencing'
    <2> SUFFICES ASSUME TypeOK, Fencing, [Next]_vars, NEW i \in Jobs
                 PROVE  /\ job'[i].status = "none" /\ task'[TaskOf[i]] # "deleted"
                             => job'[i].attempt = 0
                        /\ job'[i].status = "completed"
                             => job'[i].token = NoRun /\ TaskOf[i] \notin deleting'
                        /\ job'[i].token # NoRun => <<i, job'[i].token>> \notin lost'
                        /\ \A r \in Runs :
                             /\ run'[i][r].pc \in {"idle", "scheduled"}
                                  => job'[i].token # r /\ <<i, r>> \notin lost'
                             /\ r > job'[i].attempt => run'[i][r].pc = "idle"
      BY DEF Fencing
    <2>1. /\ job[i].status = "none" /\ task[TaskOf[i]] # "deleted" => job[i].attempt = 0
          /\ job[i].status = "completed" => job[i].token = NoRun /\ TaskOf[i] \notin deleting
          /\ job[i].token # NoRun => <<i, job[i].token>> \notin lost
          /\ \A r \in Runs :
               /\ run[i][r].pc \in {"idle", "scheduled"}
                    => job[i].token # r /\ <<i, r>> \notin lost
               /\ r > job[i].attempt => run[i][r].pc = "idle"
      BY DEF Fencing
    <2>2. /\ job[i].token \in {NoRun} \cup Runs /\ job[i].attempt \in {0} \cup Runs
          /\ NoRun \notin Runs /\ job[i].attempt \in Nat /\ \A r \in Runs : r \in Nat \ {0}
      BY RowParts, ExportAssumption DEF Runs, NoRun
    <2>3. JobStep(i)
      BY JobSteps
    <2>4. CASE Keeps(i)
      BY <2>1, <2>2, <2>4 DEF Keeps, Unlost, RunsGoOn, SameVersion, Active
    <2>5. CASE Claimed(i)
      BY <2>1, <2>2, <2>5 DEF Claimed, Unlost, RunsGoOn, Active
    <2>6. CASE Ends(i)
      BY <2>1, <2>2, <2>6 DEF Ends, LosesToken, RunsGoOn, Retryable
    <2>7. CASE Dismissed(i)
      BY <2>1, <2>2, <2>7 DEF Dismissed, Unlost, RunsGoOn
    <2>8. CASE Starts(i)
      <3>1. job'[i].attempt = job[i].attempt + 1 /\ job'[i].attempt \in Runs
        <4>1. job[i].status = "none" => job[i].attempt = 0
          BY <2>1, <2>8 DEF Starts
        <4>2. /\ job'[i].attempt \in Runs
              /\ job'[i].attempt = IF job[i].status = "none" THEN 1 ELSE job[i].attempt + 1
          BY <2>8 DEF Starts
        <4> QED BY <4>1, <4>2
      <3>2. ASSUME NEW r \in Runs
            PROVE  /\ run'[i][r].pc \in {"idle", "scheduled"}
                        => run[i][r].pc \in {"idle", "scheduled"}
                   /\ r > job'[i].attempt => run'[i][r].pc = "idle"
        <4>1. CASE r = job'[i].attempt
          <5>1. r \in Nat /\ job[i].attempt \in Nat
            BY <2>2
          <5>2. r > job[i].attempt /\ ~(r > job'[i].attempt)
            BY <3>1, <4>1, <5>1
          <5> QED BY <2>1, <5>2
        <4>2. CASE r # job'[i].attempt
          <5>1. run'[i][r].pc = run[i][r].pc
            BY <2>8, <4>2 DEF Starts
          <5>2. r > job'[i].attempt => r > job[i].attempt
            BY <2>2, <3>1
          <5> QED BY <2>1, <5>1, <5>2
        <4> QED BY <4>1, <4>2
      <3> QED BY <2>1, <2>2, <2>8, <3>2 DEF Starts, Unlost, LosesToken
    <2>9. CASE Delivers(i)
      BY <2>1, <2>2, <2>9 DEF Delivers, Unlost, RunsGoOn, SameVersion
    <2>10. CASE Erases(i)
      BY <2>1, <2>2, <2>10 DEF Erases, Unlost, SameVersion
    <2>11. CASE Removes(i)
      BY <2>1, <2>2, <2>11 DEF Removes, LosesToken, RunsGoOn
    <2> QED BY <2>3, <2>4, <2>5, <2>6, <2>7, <2>8, <2>9, <2>10, <2>11 DEF JobStep
  <1> QED BY <1>1, <1>2, TypeCorrect, PTL DEF Spec

\* Spec => []ChargedIffDelivered: the charge, the completed job and the
\* library entry come together or not at all, and stay together.
THEOREM ChargesAreDeliveries == Spec => []ChargedIffDelivered
  <1>1. Init => ChargedIffDelivered
    BY DEF Init, ChargedIffDelivered
  <1>2. /\ TypeOK /\ HeldWhileActive /\ Fencing /\ ChargedIffDelivered /\ [Next]_vars
        => ChargedIffDelivered'
    <2> SUFFICES ASSUME TypeOK, HeldWhileActive, Fencing, ChargedIffDelivered, [Next]_vars,
                        NEW i \in Jobs
                 PROVE  /\ job'[i].status = "completed"
                             => hold'[i] = "settled" /\ library'[i].state # "none"
                        /\ library'[i].state # "none" => job'[i].status = "completed"
                        /\ hold'[i] = "settled" => \/ job'[i].status = "completed"
                                                   \/ task'[TaskOf[i]] = "deleted"
      BY DEF ChargedIffDelivered
    <2>1. /\ job[i].status \in Active => hold[i] = "held"
          /\ job[i].status = "completed" => TaskOf[i] \notin deleting
          /\ job[i].status = "completed" => hold[i] = "settled" /\ library[i].state # "none"
          /\ library[i].state # "none" => job[i].status = "completed"
          /\ hold[i] = "settled" => job[i].status = "completed" \/ task[TaskOf[i]] = "deleted"
      BY DEF HeldWhileActive, Fencing, ChargedIffDelivered
    <2>2. JobStep(i)
      BY JobSteps
    <2> USE <2>1 DEF SameGoods, SameVersion, Active, Retryable, Released
    <2>3. CASE Keeps(i) \/ Claimed(i) \/ Dismissed(i)
      BY <2>3 DEF Keeps, Claimed, Dismissed
    <2>4. CASE Ends(i) \/ Starts(i)
      BY <2>4 DEF Ends, Starts
    <2>5. CASE Delivers(i) \/ Erases(i) \/ Removes(i)
      BY <2>5 DEF Delivers, Erases, Removes
    <2> QED BY <2>2, <2>3, <2>4, <2>5 DEF JobStep
  <1> QED BY <1>1, <1>2, TypeCorrect, HoldsFollowJobs, TokensAreFenced, PTL DEF Spec

\* Spec => []LostRunsNeverPublish: a run whose job was taken away is never the
\* one whose file the library links, however late it finishes.
THEOREM LostRunsStayOut == Spec => []LostRunsNeverPublish
  <1>1. Init => LostRunsNeverPublish
    BY DEF Init, LostRunsNeverPublish
  <1>2. /\ TypeOK /\ TypeOK' /\ Fencing /\ ChargedIffDelivered
        /\ LostRunsNeverPublish /\ [Next]_vars
        => LostRunsNeverPublish'
    <2> SUFFICES ASSUME TypeOK, TypeOK', Fencing, ChargedIffDelivered,
                        LostRunsNeverPublish, [Next]_vars, NEW i \in Jobs,
                        library'[i].state # "none"
                 PROVE  <<i, library'[i].file>> \notin lost'
      BY DEF LostRunsNeverPublish
    <2>1. /\ library[i].state # "none" => <<i, library[i].file>> \notin lost
          /\ library[i].state # "none" => job[i].status = "completed"
          /\ job[i].status = "completed" => job[i].token = NoRun /\ TaskOf[i] \notin deleting
          /\ job[i].token # NoRun => <<i, job[i].token>> \notin lost
      BY DEF Fencing, ChargedIffDelivered, LostRunsNeverPublish
    <2>2. JobStep(i) /\ lost' \subseteq Jobs \X Runs /\ NoRun \notin Runs
      BY JobSteps, ExportAssumption DEF TypeOK, Runs, NoRun
    <2>3. CASE Keeps(i) \/ Claimed(i) \/ Dismissed(i)
      BY <2>1, <2>2, <2>3 DEF Keeps, Claimed, Dismissed, SameGoods, Unlost
    <2>4. CASE Ends(i) \/ Starts(i)
      BY <2>1, <2>2, <2>4 DEF Ends, Starts, Unlost, LosesToken, Active, Retryable
    <2>5. CASE Delivers(i) \/ Erases(i) \/ Removes(i)
      BY <2>1, <2>2, <2>5 DEF Delivers, Erases, Removes, Unlost, SameGoods
    <2> QED BY <2>2, <2>3, <2>4, <2>5 DEF JobStep
  <1> QED BY <1>1, <1>2, TypeCorrect, TokensAreFenced, ChargesAreDeliveries, PTL DEF Spec

\* Spec => CompletedIsFinal: nothing undoes a completed export but the deletion
\* of its version.
THEOREM CompletionIsFinal == Spec => CompletedIsFinal
  <1>1. /\ TypeOK /\ [Next]_vars
        => \A j \in Jobs : job[j].status = "completed"
             => job'[j].status = "completed" \/ task'[TaskOf[j]] = "deleted"
    <2> SUFFICES ASSUME TypeOK, [Next]_vars, NEW i \in Jobs, job[i].status = "completed"
                 PROVE  job'[i].status = "completed" \/ task'[TaskOf[i]] = "deleted"
      OBVIOUS
    <2>1. JobStep(i)
      BY JobSteps
    <2> QED BY <2>1 DEF JobStep, Keeps, Claimed, Ends, Dismissed, Starts, Delivers, Erases,
               Removes, Active, Retryable
  <1> QED BY <1>1, TypeCorrect, PTL DEF Spec, CompletedIsFinal

\* Spec => DeliversAsPromised: the exports, with their leases, retries, late
\* workers and deletions, implement PaidDelivery.
THEOREM ExportsDeliverAsPromised == Spec => DeliversAsPromised
  <1>1. Init => Delivery!Init
    BY DEF Init, Delivery!Init, payment, video
  <1>2. /\ TypeOK /\ TypeOK' /\ HeldWhileActive /\ Fencing /\ ChargedIffDelivered /\ [Next]_vars
        => Delivery!Next
    <2> SUFFICES ASSUME TypeOK, TypeOK', HeldWhileActive, Fencing, ChargedIffDelivered,
                        [Next]_vars, NEW i \in Jobs
                 PROVE  \/ Delivery!Reserve(i) \/ Delivery!Return(i) \/ Delivery!Deliver(i)
                        \/ Delivery!Erase(i) \/ Delivery!Unchanged(i)
      BY DEF Delivery!Next
    <2> USE DEF Delivery!Reserve, Delivery!Return, Delivery!Deliver, Delivery!Erase,
                Delivery!Unchanged
    <2>0. /\ payment[i] = CASE hold[i] = "none" -> "idle"
                            [] hold[i] = "held" -> "reserved"
                            [] hold[i] = "settled" -> "charged"
                            [] hold[i] = "released" -> "returned"
          /\ video[i] = CASE library[i].state = "ready" -> "ready"
                          [] library[i].state \in {"erasing", "erased"} -> "gone"
                          [] OTHER -> IF hold[i] = "settled" THEN "gone" ELSE "absent"
          /\ payment'[i] = CASE hold'[i] = "none" -> "idle"
                             [] hold'[i] = "held" -> "reserved"
                             [] hold'[i] = "settled" -> "charged"
                             [] hold'[i] = "released" -> "returned"
          /\ video'[i] = CASE library'[i].state = "ready" -> "ready"
                           [] library'[i].state \in {"erasing", "erased"} -> "gone"
                           [] OTHER -> IF hold'[i] = "settled" THEN "gone" ELSE "absent"
      BY DEF payment, video
    <2>1. /\ hold[i] \in {"none", "held", "settled", "released"}
          /\ library[i].state \in {"none", "ready", "erasing", "erased"}
          /\ library'[i].state \in {"none", "ready", "erasing", "erased"}
      BY DEF TypeOK
    <2>2. /\ job[i].status \in Active => hold[i] = "held"
          /\ hold[i] = "held" => job[i].status \in Active \/ task[TaskOf[i]] = "deleted"
          /\ job[i].status = "completed" => TaskOf[i] \notin deleting
          /\ job[i].status = "completed" => hold[i] = "settled" /\ library[i].state # "none"
          /\ library[i].state # "none" => job[i].status = "completed"
          /\ hold[i] = "settled" => job[i].status = "completed" \/ task[TaskOf[i]] = "deleted"
      BY DEF HeldWhileActive, Fencing, ChargedIffDelivered
    <2>3. JobStep(i)
      BY JobSteps
    <2>4. CASE Keeps(i) \/ Claimed(i) \/ Dismissed(i)
      BY <2>0, <2>4 DEF Keeps, Claimed, Dismissed, SameGoods
    <2>5. CASE Ends(i)
      BY <2>0, <2>2, <2>5 DEF Ends, Active, Retryable, Released
    <2>6. CASE Starts(i)
      BY <2>0, <2>1, <2>2, <2>6 DEF Starts, Active, Retryable
    <2>7. CASE Delivers(i)
      BY <2>0, <2>2, <2>7 DEF Delivers, Active
    <2>8. CASE Erases(i)
      BY <2>0, <2>1, <2>8 DEF Erases
    <2>9. CASE Removes(i)
      BY <2>0, <2>1, <2>2, <2>9 DEF Removes, SameGoods, Released, Active
    <2> QED BY <2>3, <2>4, <2>5, <2>6, <2>7, <2>8, <2>9 DEF JobStep
  <1> QED BY <1>1, <1>2, TypeCorrect, HoldsFollowJobs, TokensAreFenced, ChargesAreDeliveries,
             PTL DEF Spec, DeliversAsPromised, Delivery!Spec

-----------------------------------------------------------------------------
(* The cap.                                                                *)

\* Only an admission makes a job live, and only one.
LEMMA LiveSteps ==
  ASSUME TypeOK, [Next]_vars
  PROVE  \/ LiveJobs' \subseteq LiveJobs
         \/ Admitted /\ \E j \in Jobs : LiveJobs' \subseteq LiveJobs \cup {j}
  <1>1. /\ Active \cap (Retryable \cup {"none", "completed", "dismissed", "interrupted"}) = {}
        /\ "interrupted" \notin Active
    BY DEF Active, Retryable
  <1>2. ASSUME NEW S \in SUBSET Jobs, NEW i \in Jobs,
               Interrupted(S)[i].status \in Active, Interrupted(S)[i].lease > 0
        PROVE  i \in LiveJobs
    BY <1>1, <1>2, EndingParts DEF LiveJobs
  <1>3. ExpiredJobs \in SUBSET Jobs
    BY DEF ExpiredJobs
  <1>4. CASE Reconcile
    BY <1>2, <1>3, <1>4 DEF Reconcile, LiveJobs
  <1>5. ASSUME NEW j \in Jobs, Create(j) \/ Retry(j)
        PROVE  Admitted /\ LiveJobs' \subseteq LiveJobs \cup {j}
    <2>1. \A i \in Jobs \ {j} : job'[i] = Interrupted(ExpiredJobs)[i]
      BY <1>3, <1>5, EndingParts DEF Create, Retry
    <2>2. Admitted
      BY <1>5 DEF Create, Retry
    <2> QED BY <1>2, <1>3, <2>1, <2>2 DEF LiveJobs
  <1>6. ASSUME NEW j \in Jobs, Dismiss(j) PROVE LiveJobs' \subseteq LiveJobs
    <2>1. \A i \in Jobs \ {j} : job'[i] = Interrupted(ExpiredJobs)[i]
      BY <1>3, <1>6, EndingParts DEF Dismiss
    <2>2. job'[j].status = "dismissed"
      BY <1>3, <1>6, EndingParts DEF Dismiss, JobType
    <2> QED BY <1>1, <1>2, <1>3, <2>1, <2>2 DEF LiveJobs
  <1>7. ASSUME NEW t \in Tasks, Trash(t) PROVE LiveJobs' \subseteq LiveJobs
    BY <1>2, <1>7 DEF Trash, ActiveIn, InTask, LiveJobs
  <1>8. ASSUME NEW t \in Tasks, DeleteTask(t) \/ DeleteTaskFinish(t)
        PROVE  LiveJobs' \subseteq LiveJobs
    <2>1. job' = [i \in Jobs |-> IF i \in InTask(t)
                                   THEN [job[i] EXCEPT !.status = "none", !.token = NoRun]
                                   ELSE job[i]]
      BY <1>8 DEF DeleteTask, DeleteTaskFinish
    <2>2. \A i \in Jobs : job'[i] = job[i] \/ job'[i].status = "none"
      BY <2>1, RowParts
    <2> QED BY <1>1, <2>2 DEF LiveJobs
  <1>9. ASSUME NEW j \in Jobs, NEW r \in Runs, WorkerStep(j, r) \/ WorkerTrouble(j, r)
        PROVE  LiveJobs' \subseteq LiveJobs
    <2> SUFFICES ASSUME NEW i \in Jobs
                 PROVE  \/ job'[i] = job[i] \/ i \in LiveJobs \/ job'[i].status \notin Active
      BY DEF LiveJobs
    <2>1. CASE i # j
      BY <1>9, <2>1, RowParts
         DEF WorkerStep, WorkerTrouble, Claim, StartLoading, StartRendering, StartUploading,
             Change, Heartbeat, HeartbeatBreaks, Save, SaveFails, Publish, PublishRefused,
             Throw, ReportFailure, ReportFails, CleanUp, CleanUpFails, Crash
    <2>2. CASE i = j
      <3>1. CASE Claim(j, r)
        BY <2>2, <3>1 DEF Claim, LiveJobs, Active
      <3>2. ASSUME NEW from, NEW to, NEW s, Change(j, r, from, to, s)
            PROVE  job' = job \/ j \in LiveJobs
        BY <3>2 DEF Change, Owns, LiveJobs
      <3>3. CASE Heartbeat(j, r)
        BY <2>2, <3>3 DEF Heartbeat, Owns, LiveJobs
      <3>4. CASE Publish(j, r)
        BY <2>2, <3>4 DEF Publish, Publishable, Owns, LiveJobs
      <3>5. CASE ReportFailure(j, r)
        BY <2>2, <3>5 DEF ReportFailure, Owns, LiveJobs
      <3> QED BY <1>9, <2>2, <3>1, <3>2, <3>3, <3>4, <3>5
              DEF WorkerStep, WorkerTrouble, StartLoading, StartRendering, StartUploading,
                  HeartbeatBreaks, Save, SaveFails, PublishRefused, Throw, ReportFails,
                  CleanUp, CleanUpFails, Crash
    <2> QED BY <2>1, <2>2
  <1>10. CASE Tick
    <2>1. \A i \in Jobs : \/ job'[i] = job[i]
                          \/ /\ job'[i].status = job[i].status
                             /\ job'[i].lease = job[i].lease - 1 /\ job[i].lease \in Int
      BY <1>10, RowParts, ExportAssumption DEF Tick
    <2> QED BY <2>1 DEF LiveJobs
  <1>11. CASE job' = job
    BY <1>11 DEF LiveJobs
  <1> QED BY <1>4, <1>5, <1>6, <1>7, <1>8, <1>9, <1>10, <1>11
          DEF Next, OwnerStep, vars, EraseFile, MarkErased, Restore, DeleteTaskFails,
              DeleteTaskStart

\* Spec => []CapRespected: the account never has more live renders than its cap.
THEOREM CapIsRespected == Spec => []CapRespected
  <1> DEFINE Inv == IsFiniteSet(LiveJobs) /\ CapRespected
  <1>1. Init => Inv
    <2> SUFFICES ASSUME Init PROVE Inv
      OBVIOUS
    <2>1. LiveJobs = {}
      BY DEF Init, LiveJobs, Active
    <2> QED BY <2>1, FS_EmptySet, ExportAssumption DEF CapRespected
  <1>2. TypeOK /\ Inv /\ [Next]_vars => Inv'
    <2> SUFFICES ASSUME TypeOK, Inv, [Next]_vars PROVE Inv'
      OBVIOUS
    <2>1. Cardinality(LiveJobs) \in Nat /\ MaxRenders \in Nat
      BY FS_CardinalityType, ExportAssumption
    <2>2. CASE LiveJobs' \subseteq LiveJobs
      <3>1. IsFiniteSet(LiveJobs') /\ Cardinality(LiveJobs') <= Cardinality(LiveJobs)
        BY <2>2, FS_Subset
      <3>2. Cardinality(LiveJobs') \in Nat
        BY <3>1, FS_CardinalityType
      <3> QED BY <2>1, <3>1, <3>2 DEF CapRespected
    <2>3. ASSUME Admitted, NEW j \in Jobs, LiveJobs' \subseteq LiveJobs \cup {j} PROVE Inv'
      <3>1. /\ IsFiniteSet(LiveJobs \cup {j})
            /\ \/ Cardinality(LiveJobs \cup {j}) = Cardinality(LiveJobs)
               \/ Cardinality(LiveJobs \cup {j}) = Cardinality(LiveJobs) + 1
        BY FS_AddElement
      <3>2. /\ IsFiniteSet(LiveJobs')
            /\ Cardinality(LiveJobs') <= Cardinality(LiveJobs \cup {j})
        BY <2>3, <3>1, FS_Subset
      <3>3. Cardinality(LiveJobs') \in Nat
        BY <3>2, FS_CardinalityType
      <3> QED BY <2>1, <2>3, <3>1, <3>2, <3>3 DEF CapRespected, Admitted
    <2> QED BY <2>2, <2>3, LiveSteps
  <1>3. Inv => CapRespected
    OBVIOUS
  <1> QED BY <1>1, <1>2, <1>3, TypeCorrect, PTL DEF Spec
=============================================================================
