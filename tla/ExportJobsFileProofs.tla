------------------------ MODULE ExportJobsFileProofs ------------------------
(***************************************************************************)
(* Theorems about the video files of ExportJobs, for any number of jobs,   *)
(* versions, attempts and render slots, and any lease.                     *)
(***************************************************************************)
EXTENDS ExportJobsProofs

\* The phases a run comes to when it no longer works and no longer publishes.
Over == {"failing", "cleaning", "done", "dead"}

\* What a step may do to the files of one job.  A file goes only with the
\* clean-up of an unlinked run, or with its library entry ...
FilesKept(i) ==
  \A r \in Runs : <<i, r>> \in objects /\ <<i, r>> \notin objects'
    => \/ run[i][r].pc = "cleaning" /\ run'[i][r].pc # "publishing" /\ ~Linked(i, r)
       \/ r = library[i].file /\ library'[i].state # "ready"

\* ... a run comes to publish with its file in place ...
FilesBeforePublishing(i) ==
  \A r \in Runs : run'[i][r].pc = "publishing"
    => run[i][r].pc = "publishing" \/ <<i, r>> \in objects'

\* ... a run of a job in the library that is over stays over ...
OverStaysOver(i) ==
  library[i].state # "none" =>
    \A r \in Runs : run[i][r].pc \in Over => run'[i][r].pc \in Over

\* ... and an entry comes from a run that was about to publish.
EntryStep(i) ==
  \/ library'[i] = library[i]
  \/ library'[i] = [state |-> "none", file |-> NoRun]
  \/ /\ library[i].state # "none" /\ library'[i].state \in {"erasing", "erased"}
     /\ library'[i].file = library[i].file
  \/ /\ objects' = objects
     /\ \E r \in Runs : /\ run[i][r].pc = "publishing" /\ run'[i][r].pc \in Over
                        /\ library'[i] = [state |-> "ready", file |-> r]

FileStep(i) ==
  FilesKept(i) /\ FilesBeforePublishing(i) /\ OverStaysOver(i) /\ EntryStep(i)

-----------------------------------------------------------------------------
\* The steps of the owner: only starting a job touches a run, only erasing and
\* deleting touch a file.
LEMMA OwnerFileSteps ==
  ASSUME TypeOK, ChargedIffDelivered, OwnerStep \/ Tick \/ UNCHANGED vars, NEW i \in Jobs
  PROVE  FileStep(i)
  <1> USE DEF FileStep, FilesKept, FilesBeforePublishing, OverStaysOver, EntryStep
  <1>1. ASSUME UNCHANGED <<library, objects, run>> PROVE FileStep(i)
    BY <1>1
  <1>2. ASSUME NEW j \in Jobs, Create(j) \/ Retry(j) PROVE FileStep(i)
    <2>1. PICK r \in Runs : run' = [run EXCEPT ![j][r].pc = "scheduled"]
      <3>1. CASE Create(j)
        <4>1. 1 \in Runs
          BY ExportAssumption DEF Runs
        <4> QED BY <3>1, <4>1 DEF Create
      <3>2. CASE Retry(j)
        <4>1. ExpiredJobs \in SUBSET Jobs
          BY DEF ExpiredJobs
        <4>2. Interrupted(ExpiredJobs)[j].attempt \in {0} \cup Runs
          BY <4>1, EndingParts DEF JobType
        <4>3. Interrupted(ExpiredJobs)[j].attempt + 1 \in Runs
          BY <3>2, <4>2, ExportAssumption DEF Retry, Runs
        <4> QED BY <3>2, <4>3 DEF Retry
      <3> QED BY <1>2, <3>1, <3>2
    <2>2. Moves(j, r, "scheduled")
      <3>1. Goto(j, r, "scheduled") /\ "scheduled" \in Phase
        BY <2>1 DEF Goto, Phase
      <3> QED BY <2>1, <3>1, RunPcs
    <2>3. library[j].state = "none"
      <3>1. job[j].status # "completed"
        <4>1. CASE Create(j)
          BY <4>1 DEF Create
        <4>2. CASE Retry(j)
          <5>1. ExpiredJobs \in SUBSET Jobs /\ \A k \in ExpiredJobs : job[k].status \in Active
            BY DEF ExpiredJobs, Expired
          <5>2. job[j].status \in Active \cup Retryable
            BY <4>2, <5>1, EndingParts DEF Retry
          <5> QED BY <5>2 DEF Active, Retryable
        <4> QED BY <1>2, <4>1, <4>2
      <3> QED BY <3>1 DEF ChargedIffDelivered
    <2>4. UNCHANGED <<library, objects>>
      BY <1>2 DEF Create, Retry
    <2> QED BY <2>2, <2>3, <2>4 DEF Moves
  <1>3. ASSUME NEW j \in Jobs, EraseFile(j) PROVE FileStep(i)
    <2>1. /\ library'[i].state = IF i = j THEN "erasing" ELSE library[i].state
          /\ library'[i].file = library[i].file
          /\ i # j => library'[i] = library[i]
      BY <1>3, RowParts DEF EraseFile
    <2> QED BY <1>3, <2>1 DEF EraseFile
  <1>4. ASSUME NEW j \in Jobs, MarkErased(j) PROVE FileStep(i)
    <2>1. /\ library'[i].state = IF i = j THEN "erased" ELSE library[i].state
          /\ library'[i].file = library[i].file
          /\ i # j => library'[i] = library[i]
      BY <1>4, RowParts DEF MarkErased
    <2> QED BY <1>4, <2>1 DEF MarkErased
  <1>5. ASSUME NEW t \in Tasks, DeleteTask(t) PROVE FileStep(i)
    <2>1. library'[i] = IF i \in InTask(t) THEN [state |-> "none", file |-> NoRun] ELSE library[i]
      BY <1>5 DEF DeleteTask
    <2>2. \A r \in Runs : <<i, r>> \in objects /\ <<i, r>> \notin objects'
            => i \in InTask(t) /\ r = library[i].file
      BY <1>5 DEF DeleteTask
    <2> QED BY <1>5, <2>1, <2>2 DEF DeleteTask
  <1>6. ASSUME NEW t \in Tasks, DeleteTaskFails(t) PROVE FileStep(i)
    <2>1. PICK S \in SUBSET {j \in InTask(t) : library[j].state = "ready"} :
            /\ objects' = objects \ {<<j, library[j].file>> : j \in S}
            /\ library' = [j \in Jobs |-> IF j \in S
                             THEN [library[j] EXCEPT !.state = "erasing"] ELSE library[j]]
      BY <1>6 DEF DeleteTaskFails
    <2>2. CASE i \in S
      <3>1. /\ library[i].state = "ready" /\ library'[i].state = "erasing"
            /\ library'[i].file = library[i].file
        BY <2>1, <2>2, RowParts
      <3> QED BY <1>6, <2>1, <3>1 DEF DeleteTaskFails
    <2>3. CASE i \notin S
      <3>1. library'[i] = library[i]
        BY <2>1, <2>3
      <3>2. \A r \in Runs : <<i, r>> \in objects => <<i, r>> \in objects'
        BY <2>1, <2>3
      <3> QED BY <1>6, <3>1, <3>2 DEF DeleteTaskFails
    <2> QED BY <2>2, <2>3
  <1> QED BY <1>1, <1>2, <1>3, <1>4, <1>5, <1>6
          DEF OwnerStep, Tick, vars, Reconcile, Dismiss, Trash, Restore, DeleteTaskStart,
              DeleteTaskFinish

\* The steps of a run.
LEMMA RunFileSteps ==
  ASSUME TypeOK, NEW j \in Jobs, NEW r \in Runs, WorkerStep(j, r) \/ WorkerTrouble(j, r),
         NEW i \in Jobs
  PROVE  FileStep(i)
  <1> USE DEF FileStep, FilesKept, FilesBeforePublishing, OverStaysOver, EntryStep
  <1>1. ASSUME NEW pc \in Phase \ {"publishing"}, Goto(j, r, pc),
               run[j][r].pc \in Over => pc \in Over, UNCHANGED <<library, objects>>
        PROVE  FileStep(i)
    <2>1. Moves(j, r, pc)
      BY <1>1, RunPcs
    <2> QED BY <1>1, <2>1 DEF Moves
  <1>2. /\ {"waiting", "loading", "rendering", "saving", "failing", "cleaning", "done", "dead"}
             \subseteq Phase \ {"publishing"}
        /\ {"failing", "cleaning", "done", "dead"} = Over /\ Working \cap Over = {}
        /\ {"scheduled", "waiting", "loading", "rendering", "publishing"} \cap Over = {}
    BY DEF Phase, Working, Over
  <1>3. CASE Claim(j, r)
    <2>1. PICK pc \in {"waiting", "done"} : Goto(j, r, pc)
      BY <1>3 DEF Claim
    <2> QED BY <1>1, <1>2, <1>3, <2>1 DEF Claim
  <1>4. ASSUME NEW from \in {"waiting", "loading", "rendering"},
               NEW to \in {"loading", "rendering", "saving"}, NEW s, Change(j, r, from, to, s)
        PROVE  FileStep(i)
    <2>1. PICK pc \in {to, "failing"} : Goto(j, r, pc)
      BY <1>4 DEF Change
    <2> QED BY <1>1, <1>2, <1>4, <2>1 DEF Change
  <1>5. CASE StartLoading(j, r) \/ StartRendering(j, r) \/ StartUploading(j, r)
    BY <1>4, <1>5 DEF StartLoading, StartRendering, StartUploading
  <1>6. CASE \/ PublishRefused(j, r) \/ Throw(j, r) \/ ReportFailure(j, r) \/ ReportFails(j, r)
             \/ CleanUpFails(j, r) \/ Crash(j, r)
    <2>1. AfterFailing(j, r) \in {"cleaning", "done"}
      BY DEF AfterFailing
    <2>2. PICK pc \in {"failing", "cleaning", "done", "dead"} : Goto(j, r, pc)
      BY <1>6, <2>1 DEF PublishRefused, Throw, ReportFailure, ReportFails, CleanUpFails, Crash
    <2>3. UNCHANGED <<library, objects>>
      BY <1>6 DEF PublishRefused, Throw, ReportFailure, ReportFails, CleanUpFails, Crash
    <2> QED BY <1>1, <1>2, <2>2, <2>3
  <1>7. CASE Heartbeat(j, r) \/ HeartbeatBreaks(j, r)
    <2>1. Stays
      <3>1. CASE run' = run
        BY <3>1 DEF Stays
      <3>2. CASE run' = [run EXCEPT ![j][r].beatFailed = TRUE]
        BY <3>2, BeatPcs
      <3> QED BY <1>7, <3>1, <3>2 DEF Heartbeat, HeartbeatBreaks
    <2> QED BY <1>7, <2>1 DEF Heartbeat, HeartbeatBreaks, Stays
  <1>8. CASE Save(j, r) \/ SaveFails(j, r)
    <2>1. PICK pc \in {"publishing", "failing"} :
            /\ run' = [run EXCEPT ![j][r] = [@ EXCEPT !.pc = pc, !.keyed = TRUE]]
            /\ pc = "publishing" => <<j, r>> \in objects'
      BY <1>8 DEF Save, SaveFails
    <2>2. pc \in Phase
      BY <2>1 DEF Phase, Working
    <2>3. Moves(j, r, pc)
      BY <2>1, <2>2, RunPcs
    <2>4. run[j][r].pc \notin Over
      BY <1>8 DEF Save, SaveFails, Over
    <2>5. library' = library /\ objects \subseteq objects'
      BY <1>8 DEF Save, SaveFails
    <2> QED BY <2>1, <2>3, <2>4, <2>5 DEF Moves
  <1>9. CASE Publish(j, r)
    <2>1. PICK pc \in {"done", "failing"} : Goto(j, r, pc)
      BY <1>9 DEF Publish
    <2>2. Moves(j, r, pc)
      BY <1>2, <2>1, RunPcs
    <2>3. library'[i] = IF i = j THEN [state |-> "ready", file |-> r] ELSE library[i]
      BY <1>9, RowParts DEF Publish
    <2>4. run[j][r].pc = "publishing" /\ objects' = objects
      BY <1>9 DEF Publish
    <2> QED BY <1>2, <2>2, <2>3, <2>4 DEF Moves
  <1>10. CASE CleanUp(j, r)
    <2>1. Moves(j, r, "done")
      BY <1>2, <1>10, RunPcs DEF CleanUp
    <2>2. \A q \in Runs : <<i, q>> \in objects /\ <<i, q>> \notin objects'
            => i = j /\ q = r /\ ~Linked(j, r)
      BY <1>10 DEF CleanUp
    <2>3. library' = library /\ run[j][r].pc = "cleaning" /\ objects' \subseteq objects
      BY <1>10 DEF CleanUp
    <2> QED BY <1>2, <2>1, <2>2, <2>3 DEF Moves
  <1> QED BY <1>3, <1>5, <1>6, <1>7, <1>8, <1>9, <1>10 DEF WorkerStep, WorkerTrouble

-----------------------------------------------------------------------------
\* A job outside the library links no file.
NoStrayLink == \A j \in Jobs : library[j].state = "none" => library[j].file = NoRun

FileInv == Uploads /\ ReadyFilesExist /\ NoStrayLink

\* The files' invariant is inductive, given that charges are deliveries.
LEMMA FileInvStep ==
  ASSUME TypeOK, ChargedIffDelivered, FileInv, [Next]_vars
  PROVE  FileInv'
  <1> SUFFICES ASSUME NEW i \in Jobs
               PROVE  /\ \A r \in Runs : run'[i][r].pc = "publishing" => <<i, r>> \in objects'
                      /\ library'[i].state # "none" => /\ library'[i].file \in Runs
                                                       /\ run'[i][library'[i].file].pc \in Over
                      /\ library'[i].state = "none" => library'[i].file = NoRun
                      /\ library'[i].state = "ready" => <<i, library'[i].file>> \in objects'
    BY DEF FileInv, Uploads, ReadyFilesExist, NoStrayLink, Over
  <1>1. /\ \A r \in Runs : run[i][r].pc = "publishing" => <<i, r>> \in objects
        /\ library[i].state # "none" => /\ library[i].file \in Runs
                                        /\ run[i][library[i].file].pc \in Over
        /\ library[i].state = "none" => library[i].file = NoRun
        /\ library[i].state = "ready" => <<i, library[i].file>> \in objects
    BY DEF FileInv, Uploads, ReadyFilesExist, NoStrayLink, Over
  <1>2. FileStep(i)
    BY OwnerFileSteps, RunFileSteps DEF Next
  <1>3. NoRun \notin Runs /\ "publishing" \notin Over
    BY ExportAssumption DEF Runs, NoRun, Over
  <1>4. ASSUME NEW r \in Runs, run'[i][r].pc = "publishing" PROVE <<i, r>> \in objects'
    BY <1>1, <1>2, <1>3, <1>4 DEF FileStep, FilesBeforePublishing, FilesKept
  <1>5. CASE library'[i] = library[i]
    <2>1. library[i].state = "ready" => Linked(i, library[i].file)
      BY DEF Linked
    <2> QED BY <1>1, <1>2, <1>4, <1>5, <2>1 DEF FileStep, OverStaysOver, FilesKept
  <1>6. CASE library'[i] = [state |-> "none", file |-> NoRun]
    BY <1>4, <1>6
  <1>7. CASE /\ library[i].state # "none" /\ library'[i].state \in {"erasing", "erased"}
             /\ library'[i].file = library[i].file
    BY <1>1, <1>2, <1>4, <1>7 DEF FileStep, OverStaysOver
  <1>8. ASSUME NEW r \in Runs, run[i][r].pc = "publishing", run'[i][r].pc \in Over,
               library'[i] = [state |-> "ready", file |-> r], objects' = objects
        PROVE  /\ library'[i].state # "none" => /\ library'[i].file \in Runs
                                                /\ run'[i][library'[i].file].pc \in Over
               /\ library'[i].state = "none" => library'[i].file = NoRun
               /\ library'[i].state = "ready" => <<i, library'[i].file>> \in objects'
    BY <1>1, <1>8
  <1> QED BY <1>2, <1>4, <1>5, <1>6, <1>7, <1>8 DEF FileStep, EntryStep

\* Spec => []Uploads: a run that is about to publish has its file in storage,
\* and the run whose file is in the library is over.
THEOREM UploadsPrecedeEntries == Spec => []Uploads
  <1>1. Init => FileInv
    BY DEF Init, FileInv, Uploads, ReadyFilesExist, NoStrayLink
  <1>2. TypeOK /\ ChargedIffDelivered /\ FileInv /\ [Next]_vars => FileInv'
    BY FileInvStep
  <1>3. FileInv => Uploads
    BY DEF FileInv
  <1> QED BY <1>1, <1>2, <1>3, TypeCorrect, ChargesAreDeliveries, PTL DEF Spec

\* Spec => []ReadyFilesExist: the file of a ready library entry is in storage,
\* however late and wrongly informed the runs that clean up are.
THEOREM LibraryFilesExist == Spec => []ReadyFilesExist
  <1>1. Init => FileInv
    BY DEF Init, FileInv, Uploads, ReadyFilesExist, NoStrayLink
  <1>2. TypeOK /\ ChargedIffDelivered /\ FileInv /\ [Next]_vars => FileInv'
    BY FileInvStep
  <1>3. FileInv => ReadyFilesExist
    BY DEF FileInv
  <1> QED BY <1>1, <1>2, <1>3, TypeCorrect, ChargesAreDeliveries, PTL DEF Spec
=============================================================================
