------------------------ MODULE AlignmentTasksProofs ------------------------
(***************************************************************************)
(* Theorems about AlignmentTasks, for any number of songs, workers and     *)
(* attempts and any leases.                                                *)
(***************************************************************************)
EXTENDS AlignmentTasks, TLAPS

\* Before its import a task has no rows, no attempt and no result.
Untouched(t) ==
  version[t] = "absent" => status[t] = "none" /\ exec[t].token = None /\ asked[t] = {}

\* An active task has an attempt.
Attempted(t) == status[t] \in Active => exec[t].token # None

\* What was ended or charged is the last attempt or an earlier one, and not the
\* attempt of an active task.
Past(t) ==
  /\ result[t] <= exec[t].token
  /\ \A k \in Tokens : <<t, k>> \in lost => k <= exec[t].token
  /\ status[t] \in Active => result[t] # exec[t].token /\ <<t, exec[t].token>> \notin lost

\* A worker at work has claimed an attempt of a task, an idle one has none.
Claimed(w) ==
  IF worker[w].pc = "idle" THEN worker[w].task = NoTask
  ELSE worker[w].task \in Tasks /\ worker[w].token \in Tokens

\* A worker rests, stops or goes on with its attempt.
GoesOn(w) ==
  \/ worker'[w] = worker[w]
  \/ worker'[w].pc = "idle" /\ worker'[w].task = NoTask
  \/ /\ worker[w].pc # "idle" /\ worker'[w].pc # "idle"
     /\ worker'[w].task = worker[w].task /\ worker'[w].token = worker[w].token

\* A step queues no started attempt of a task again.
NotRequeued(t) ==
  \/ /\ exec'[t].token = exec[t].token
     /\ exec'[t].phase \in {"preparing", "queued"} => exec[t].phase \in {"preparing", "queued"}
  \/ exec'[t].token = exec[t].token + 1

\* It is the last one of its task or an earlier one, and no attempt that waits
\* to be claimed.
Started(w) ==
  worker[w].pc # "idle" =>
    LET t == worker[w].task IN
    /\ worker[w].token <= exec[t].token
    /\ worker[w].token = exec[t].token => exec[t].phase \notin {"preparing", "queued"}

Rows ==
  /\ HeldWhileActive /\ ChargedIffCompleted /\ LostAttemptsNeverComplete
  /\ \A t \in Tasks : Untouched(t) /\ Attempted(t) /\ Past(t)

AtWork ==
  /\ OneWorkerPerAttempt
  /\ \A w \in Workers : Claimed(w) /\ Started(w)

IInv == TypeOK /\ Rows /\ AtWork

-----------------------------------------------------------------------------
(* Types.                                                                  *)

\* The attempt that is ended is an attempt.
LEMMA EndedType ==
  ASSUME TypeOK, NEW t \in Tasks, Attempted(t)
  PROVE  Ended(t) \subseteq Tasks \X Tokens
  <1>1. exec[t].token \in {None} \cup Tokens
    BY DEF TypeOK, ExecType
  <1> QED BY <1>1 DEF Attempted, Ended, None

\* Failing a task keeps the types of what it changes.
LEMMA FailingTypes ==
  ASSUME TypeOK, NEW t \in Tasks, Attempted(t), FailAndRefund(t)
  PROVE  /\ status' \in [Tasks -> Status]
         /\ hold' \in [Tasks -> {"none", "held", "settled", "released"}]
         /\ lost' \subseteq Tasks \X Tokens
  <1>1. CASE status[t] \in Active
    BY <1>1, EndedType DEF FailAndRefund, Released, TypeOK, Status, Active
  <1>2. CASE status[t] \notin Active
    BY <1>2 DEF FailAndRefund, TypeOK
  <1> QED BY <1>1, <1>2

\* So do a worker's going on, its leaving, and a new row of an execution.
LEMMA WorkerTypes ==
  ASSUME TypeOK, NEW w \in Workers,
         \/ \E pc \in {"claimed", "aligning", "uploaded", "failing", "raised"} : At(w, pc)
         \/ Leave(w)
  PROVE  worker' \in [Workers -> WorkerType]
  <1>1. worker[w] \in WorkerType /\ worker \in [Workers -> WorkerType]
    BY DEF TypeOK
  <1>2. Idle \in WorkerType
    BY DEF Idle, WorkerType
  <1>3. ASSUME NEW pc \in {"claimed", "aligning", "uploaded", "failing", "raised"}
        PROVE  [worker[w] EXCEPT !.pc = pc] \in WorkerType
    BY <1>1 DEF WorkerType
  <1> QED BY <1>1, <1>2, <1>3 DEF At, Leave

LEMMA ExecTypes ==
  ASSUME TypeOK, NEW t \in Tasks
  PROVE  /\ exec[t] \in ExecType
         /\ exec[t].token \in {None} \cup Tokens /\ exec[t].token \in Nat
         /\ exec[t].lease \in Nat /\ exec[t].lease <= Lease + QueueLease
  <1>1. exec[t] \in ExecType
    BY DEF TypeOK
  <1> QED BY <1>1, AlignmentAssumption DEF ExecType, None, Tokens

LEMMA RowTypes ==
  ASSUME TypeOK, NEW t \in Tasks,
         NEW phase \in Leased \cup {"none", "expired"}, NEW lease \in 0..(Lease + QueueLease)
  PROVE  /\ [exec[t] EXCEPT !.phase = phase] \in ExecType
         /\ [exec[t] EXCEPT !.lease = lease] \in ExecType
         /\ [exec[t] EXCEPT !.phase = phase, !.lease = lease] \in ExecType
  <1>1. exec[t] \in ExecType
    BY DEF TypeOK
  <1> QED BY <1>1 DEF ExecType

LEMMA LeaseTypes ==
  /\ 0 \in 0..(Lease + QueueLease)
  /\ Lease \in 0..(Lease + QueueLease)
  /\ QueueLease \in 0..(Lease + QueueLease)
  BY AlignmentAssumption

\* A new attempt is one of those that may be drawn.
LEMMA NewAttemptTypes ==
  ASSUME TypeOK, NEW t \in Tasks, NewAttempt(t)
  PROVE  /\ exec[t].token + 1 \in Tokens
         /\ status' \in [Tasks -> Status]
         /\ exec' \in [Tasks -> ExecType]
         /\ hold' \in [Tasks -> {"none", "held", "settled", "released"}]
  <1>1. exec[t].token \in Nat
    BY ExecTypes
  <1>2. exec[t].token + 1 \in Tokens
    BY <1>1, AlignmentAssumption DEF NewAttempt, Tokens
  <1>3. [phase |-> "queued", token |-> exec[t].token + 1, lease |-> QueueLease] \in ExecType
    BY <1>2, LeaseTypes DEF ExecType, Leased
  <1> QED BY <1>2, <1>3 DEF NewAttempt, TypeOK, Status, Active
\* Every step keeps the types.
LEMMA TypesKept ==
  ASSUME IInv, [Next]_vars
  PROVE  TypeOK'
  <1> USE DEF IInv, Rows, AtWork
  <1>1. ASSUME NEW t \in Tasks, Import(t) PROVE TypeOK'
    <2>1. [phase |-> "preparing", token |-> 1, lease |-> Lease] \in ExecType
      BY LeaseTypes, AlignmentAssumption DEF ExecType, Leased, Tokens
    <2> QED BY <1>1, <2>1 DEF Import, TypeOK, Status, Active
  <1>2. ASSUME NEW t \in Tasks, PrepareFails(t) PROVE TypeOK'
    BY <1>2, AlignmentAssumption DEF PrepareFails, TypeOK, Tokens
  <1>3. ASSUME NEW t \in Tasks, Handoff(t) PROVE TypeOK'
    <2>1. exec' \in [Tasks -> ExecType]
      <3>1. \/ exec' = exec
            \/ exec' = [exec EXCEPT ![t].phase = "queued", ![t].lease = QueueLease]
        BY <1>3 DEF Handoff
      <3>2. [exec[t] EXCEPT !.phase = "queued", !.lease = QueueLease] \in ExecType
        BY RowTypes, LeaseTypes DEF Leased
      <3> QED BY ZenonT(40), <3>1, <3>2 DEF TypeOK
    <2>2. exec[t].token \in Tokens \/ status[t] # "pending"
      BY ExecTypes DEF Attempted, Active
    <2>3. sent' \subseteq Tasks \X Tokens /\ reports' \subseteq Tasks \X Tokens
      BY <1>3, <2>2, AlignmentAssumption DEF Handoff, Dispatch, TypeOK, Tokens
    <2> QED BY <1>3, <2>1, <2>3 DEF Handoff, TypeOK
  <1>4. ASSUME NEW t \in Tasks, NEW k \in Tokens, Report(t, k) PROVE TypeOK'
    BY <1>4, FailingTypes DEF Report, TypeOK
  <1>5. ASSUME NEW t \in Tasks, Reconcile(t) PROVE TypeOK'
    <2>1. exec' \in [Tasks -> ExecType]
      BY <1>5, RowTypes, LeaseTypes DEF Reconcile, TypeOK
    <2> QED BY <1>5, <2>1, FailingTypes DEF Reconcile, TypeOK
  <1>6. ASSUME NEW t \in Tasks, NEW r \in {"retry", "realign"}, Ask(t, r) PROVE TypeOK'
    BY <1>6 DEF Ask, TypeOK
  <1>7. ASSUME NEW t \in Tasks, Retry(t) PROVE TypeOK'
    <2>1. NewAttempt(t) /\ Dispatch(t, exec[t].token + 1) /\ lost' = lost
      BY <1>7 DEF Retry
    <2>2. <<t, exec[t].token + 1>> \in Tasks \X Tokens
      BY <2>1, NewAttemptTypes
    <2>3. sent' \subseteq Tasks \X Tokens /\ reports' \subseteq Tasks \X Tokens
      BY <2>1, <2>2 DEF Dispatch, TypeOK
    <2> QED BY <2>1, <2>3, NewAttemptTypes DEF NewAttempt, TypeOK
  <1>8. ASSUME NEW t \in Tasks, Realign(t) PROVE TypeOK'
    <2>1. /\ NewAttempt(t) /\ lost' = lost \cup Ended(t) /\ reports' = reports
          /\ sent' \in {sent, sent \cup {<<t, exec[t].token + 1>>}}
      BY <1>8 DEF Realign
    <2>2. <<t, exec[t].token + 1>> \in Tasks \X Tokens
      BY <2>1, NewAttemptTypes
    <2>3. sent' \subseteq Tasks \X Tokens /\ lost' \subseteq Tasks \X Tokens
      BY <2>1, <2>2, EndedType DEF TypeOK
    <2> QED BY <2>1, <2>3, NewAttemptTypes DEF NewAttempt, TypeOK
  <1>9. ASSUME NEW t \in Tasks, Trash(t) PROVE TypeOK'
    BY <1>9, FailingTypes DEF Trash, TypeOK
  <1>10. ASSUME NEW t \in Tasks, Restore(t) PROVE TypeOK'
    BY <1>10 DEF Restore, TypeOK
  <1>11. ASSUME NEW t \in Tasks, Delete(t) PROVE TypeOK'
    <2>1. exec' \in [Tasks -> ExecType]
      BY <1>11, RowTypes, LeaseTypes DEF Delete, TypeOK
    <2>2. hold' \in [Tasks -> {"none", "held", "settled", "released"}]
      BY <1>11 DEF Delete, Released, TypeOK
    <2> QED BY <1>11, <2>1, <2>2, EndedType DEF Delete, TypeOK, Status
  <1>12. ASSUME NEW t \in Tasks, DeleteFails(t) PROVE TypeOK'
    BY <1>12 DEF DeleteFails, TypeOK
  <1>13. ASSUME NEW w \in Workers, NEW t \in Tasks, NEW k \in Tokens, Claim(w, t, k)
         PROVE  TypeOK'
    <2>1. exec' \in [Tasks -> ExecType]
      BY <1>13, RowTypes, LeaseTypes DEF Claim, TypeOK, Leased
    <2>2. [pc |-> "claimed", task |-> t, token |-> k] \in WorkerType
      BY DEF WorkerType
    <2> QED BY <1>13, <2>1, <2>2 DEF Claim, TypeOK
  <1>14. ASSUME NEW w \in Workers, Begin(w) PROVE TypeOK'
    <2>1. At(w, "aligning") \/ At(w, "failing")
      BY <1>14 DEF Begin
    <2>2. worker' \in [Workers -> WorkerType]
      BY <2>1, WorkerTypes
    <2> QED BY <1>14, <2>2 DEF Begin, TypeOK, Status, Active
  <1>15. ASSUME NEW w \in Workers, Upload(w) PROVE TypeOK'
    <2>1. worker' \in [Workers -> WorkerType]
      BY <1>15, WorkerTypes DEF Upload
    <2> QED BY <1>15, <2>1 DEF Upload, TypeOK, WorkerType
  <1>16. ASSUME NEW w \in Workers, Complete(w) PROVE TypeOK'
    <2>1. Leave(w) \/ At(w, "failing")
      BY <1>16 DEF Complete
    <2>2. worker' \in [Workers -> WorkerType]
      BY <2>1, WorkerTypes
    <2>3. worker[w].token \in Tokens
      BY <1>16 DEF Complete, Claimed
    <2>4. status' \in [Tasks -> Status] /\ result' \in [Tasks -> {None} \cup Tokens]
      BY <1>16, <2>3 DEF Complete, TypeOK, Status
    <2>5. hold' \in [Tasks -> {"none", "held", "settled", "released"}]
      BY <1>16 DEF Complete, TypeOK
    <2> QED BY <1>16, <2>2, <2>4, <2>5 DEF Complete, TypeOK
  <1>17. ASSUME NEW w \in Workers, Throw(w) PROVE TypeOK'
    BY <1>17, WorkerTypes DEF Throw, TypeOK
  <1>18. ASSUME NEW w \in Workers, RecordFailure(w) \/ RecordAgain(w) PROVE TypeOK'
    <2>1. FailAndRefund(worker[w].task) /\ (Leave(w) \/ At(w, "raised"))
      BY <1>18 DEF RecordFailure, RecordAgain
    <2>2. worker[w].task \in Tasks
      BY <1>18 DEF RecordFailure, RecordAgain, Claimed
    <2>3. worker' \in [Workers -> WorkerType]
      BY <2>1, WorkerTypes
    <2> QED BY <1>18, <2>1, <2>2, <2>3, FailingTypes DEF RecordFailure, RecordAgain, TypeOK
  <1>19. ASSUME NEW w \in Workers, RecordFails(w) PROVE TypeOK'
    <2>1. Leave(w) \/ At(w, "raised")
      BY <1>19 DEF RecordFails
    <2> QED BY <1>19, <2>1, WorkerTypes DEF RecordFails, TypeOK
  <1>20. ASSUME NEW w \in Workers, Crash(w) PROVE TypeOK'
    BY <1>20, WorkerTypes DEF Crash, TypeOK
  <1>21. ASSUME NEW t \in Tasks, NEW phase \in {"preparing", "running"}, Heartbeat(t, phase)
         PROVE  TypeOK'
    <2>1. exec' \in [Tasks -> ExecType]
      BY <1>21, RowTypes, LeaseTypes DEF Heartbeat, TypeOK
    <2> QED BY <1>21, <2>1 DEF Heartbeat, TypeOK
  <1>22. CASE Tick
    <2>1. ASSUME NEW t \in Tasks, exec[t].lease > 0
          PROVE  [exec[t] EXCEPT !.lease = @ - 1] \in ExecType
      <3>1. exec[t].lease \in Nat /\ exec[t].lease <= Lease + QueueLease
        BY ExecTypes
      <3>2. exec[t].lease - 1 \in 0..(Lease + QueueLease)
        BY <2>1, <3>1, AlignmentAssumption
      <3> QED BY <3>2, RowTypes DEF Leased
    <2>2. exec' \in [Tasks -> ExecType]
      BY <1>22, <2>1 DEF Tick, TypeOK
    <2> QED BY <1>22, <2>2 DEF Tick, TypeOK
  <1>23. CASE UNCHANGED vars
    BY <1>23 DEF vars, TypeOK
  <1> QED
    BY <1>1, <1>2, <1>3, <1>4, <1>5, <1>6, <1>7, <1>8, <1>9, <1>10, <1>11, <1>12, <1>13, <1>14,
       <1>15, <1>16, <1>17, <1>18, <1>19, <1>20, <1>21, <1>22, <1>23
       DEF Next, OwnerStep, WorkerStep, WorkerTrouble
-----------------------------------------------------------------------------
(* Rows: what the transactions of requests and workers promise each other. *)

\* Steps that do not touch the rows of a task keep what holds of them.
LEMMA RowsRest ==
  ASSUME IInv, UNCHANGED <<status, asked, hold, result, lost>>,
         \A q \in Tasks : exec'[q].token = exec[q].token,
         \A q \in Tasks : \/ version'[q] = version[q]
                          \/ version'[q] # "absent" /\ version[q] # "deleted"
  PROVE  Rows'
  BY DEF IInv, Rows, HeldWhileActive, ChargedIffCompleted, LostAttemptsNeverComplete, Untouched,
         Attempted, Past

\* Whoever fails a task returns its hold and ends its attempt.
LEMMA RowsFail ==
  ASSUME IInv, NEW t \in Tasks, FailAndRefund(t), UNCHANGED <<asked, result>>,
         \A q \in Tasks : exec'[q].token = exec[q].token,
         \A q \in Tasks : \/ version'[q] = version[q]
                          \/ version'[q] # "absent" /\ version[q] # "deleted"
  PROVE  Rows'
  <1> USE DEF IInv, Rows
  <1>1. CASE status[t] \notin Active
    BY <1>1, RowsRest DEF FailAndRefund
  <1>2. CASE status[t] \in Active
    <2>1. /\ status' = [status EXCEPT ![t] = "failed"]
          /\ hold' = [hold EXCEPT ![t] = "released"]
          /\ lost' = lost \cup {<<t, exec[t].token>>}
      BY <1>2 DEF FailAndRefund, Released, Ended, HeldWhileActive
    <2>2. HeldWhileActive' /\ ChargedIffCompleted'
      BY <1>2, <2>1 DEF HeldWhileActive, ChargedIffCompleted, Active, TypeOK
    <2>3. LostAttemptsNeverComplete'
      BY <1>2, <2>1 DEF LostAttemptsNeverComplete, Past
    <2>4. ASSUME NEW q \in Tasks PROVE Untouched(q)' /\ Attempted(q)'
      BY <1>2, <2>1 DEF Untouched, Attempted, Active, TypeOK
    <2>5. ASSUME NEW q \in Tasks PROVE Past(q)'
      <3>1. exec[q].token \in Nat
        BY ExecTypes
      <3> QED BY <1>2, <2>1, <3>1 DEF Past, Active, TypeOK
    <2> QED BY <2>2, <2>3, <2>4, <2>5
  <1> QED BY <1>1, <1>2

\* A new attempt holds the credits again and is none of the earlier ones.
LEMMA RowsAnew ==
  ASSUME IInv, NEW t \in Tasks, NewAttempt(t),
         lost' = lost \/ lost' = lost \cup Ended(t), version[t] # "absent"
  PROVE  Rows'
  <1> USE DEF IInv, Rows
  <1>1. /\ status' = [status EXCEPT ![t] = "pending"] /\ hold' = [hold EXCEPT ![t] = "held"]
        /\ UNCHANGED <<version, asked, result>>
        /\ exec'[t].token = exec[t].token + 1
        /\ \A q \in Tasks \ {t} : exec'[q] = exec[q]
    BY DEF NewAttempt, TypeOK
  <1>2. \A q \in Tasks : exec[q].token \in Nat
    BY ExecTypes
  <1>3. HeldWhileActive' /\ ChargedIffCompleted'
    BY <1>1 DEF HeldWhileActive, ChargedIffCompleted, Active, TypeOK
  <1>4. LostAttemptsNeverComplete'
    BY <1>1 DEF LostAttemptsNeverComplete, Past, Ended
  <1>5. ASSUME NEW q \in Tasks PROVE Untouched(q)' /\ Attempted(q)'
    BY <1>1, <1>2 DEF Untouched, Attempted, Active, TypeOK, None
  <1>6. ASSUME NEW q \in Tasks, q # t PROVE Past(q)'
    BY <1>1, <1>6 DEF Past, Ended
  <1>7. Past(t)'
    <2> DEFINE n == exec[t].token
    <2>1. n \in Nat /\ n + 1 \in Tokens /\ exec'[t].token = n + 1
      BY <1>1, <1>2, NewAttemptTypes
    <2>2. result'[t] \in Nat /\ result'[t] <= n
      <3>1. result[t] \in Nat
        BY AlignmentAssumption DEF TypeOK, Tokens, None
      <3>2. result[t] <= n
        BY DEF Past
      <3> QED BY <1>1, <3>1, <3>2
    <2>3. \A k \in Tokens : k \in Nat
      BY AlignmentAssumption DEF Tokens
    <2>4. ASSUME NEW k \in Tokens, <<t, k>> \in lost' PROVE k <= n
      <3>1. CASE <<t, k>> \in lost
        BY <3>1 DEF Past
      <3>2. CASE <<t, k>> \in Ended(t)
        BY <2>3, <3>2 DEF Ended
      <3> QED BY <2>4, <3>1, <3>2
    <2> HIDE DEF n
    <2> QED BY <2>1, <2>2, <2>3, <2>4 DEF Past
  <1> QED BY <1>3, <1>4, <1>5, <1>6, <1>7
\* A new row of an execution with its old token.
LEMMA SameToken ==
  ASSUME TypeOK, NEW t \in Tasks, NEW phase, NEW lease,
         \/ exec' = [exec EXCEPT ![t].phase = phase, ![t].lease = lease]
         \/ exec' = [exec EXCEPT ![t].phase = phase] /\ lease = exec[t].lease
         \/ exec' = [exec EXCEPT ![t].lease = lease] /\ phase = exec[t].phase
  PROVE  /\ exec'[t].phase = phase /\ exec'[t].lease = lease
         /\ \A q \in Tasks : exec'[q].token = exec[q].token
         /\ \A q \in Tasks \ {t} : exec'[q] = exec[q]
  <1>1. exec[t] \in ExecType /\ exec \in [Tasks -> ExecType]
    BY DEF TypeOK
  <1>2. /\ [exec[t] EXCEPT !.phase = phase, !.lease = lease].token = exec[t].token
        /\ [exec[t] EXCEPT !.phase = phase, !.lease = lease].phase = phase
        /\ [exec[t] EXCEPT !.phase = phase, !.lease = lease].lease = lease
    BY <1>1 DEF ExecType
  <1>3. /\ [exec[t] EXCEPT !.phase = phase].token = exec[t].token
        /\ [exec[t] EXCEPT !.phase = phase].phase = phase
        /\ [exec[t] EXCEPT !.phase = phase].lease = exec[t].lease
    BY <1>1 DEF ExecType
  <1>4. /\ [exec[t] EXCEPT !.lease = lease].token = exec[t].token
        /\ [exec[t] EXCEPT !.lease = lease].phase = exec[t].phase
        /\ [exec[t] EXCEPT !.lease = lease].lease = lease
    BY <1>1 DEF ExecType
  <1>5. CASE exec' = [exec EXCEPT ![t].phase = phase, ![t].lease = lease]
    BY <1>1, <1>2, <1>5
  <1>6. CASE exec' = [exec EXCEPT ![t].phase = phase] /\ lease = exec[t].lease
    BY <1>1, <1>3, <1>6
  <1>7. CASE exec' = [exec EXCEPT ![t].lease = lease] /\ phase = exec[t].phase
    BY <1>1, <1>4, <1>7
  <1> QED BY <1>5, <1>6, <1>7

LEMMA RowsKept ==
  ASSUME IInv, [Next]_vars
  PROVE  Rows'
  <1> USE DEF IInv
  <1>1. ASSUME NEW t \in Tasks, Import(t) PROVE Rows'
    <2>1. /\ version[t] = "absent" /\ status[t] = "none" /\ exec[t].token = None
          /\ exec'[t].token = 1 /\ \A q \in Tasks \ {t} : exec'[q] = exec[q]
          /\ status' = [status EXCEPT ![t] = "pending"] /\ hold' = [hold EXCEPT ![t] = "held"]
          /\ version' = [version EXCEPT ![t] = "live"] /\ UNCHANGED <<asked, result, lost>>
      BY <1>1 DEF Import, Untouched, Rows, TypeOK
    <2>2. HeldWhileActive' /\ ChargedIffCompleted' /\ LostAttemptsNeverComplete'
      BY <2>1 DEF Rows, HeldWhileActive, ChargedIffCompleted, LostAttemptsNeverComplete, Active,
                  TypeOK
    <2>3. ASSUME NEW q \in Tasks PROVE Untouched(q)' /\ Attempted(q)'
      BY <2>1 DEF Rows, Untouched, Attempted, Active, TypeOK, None
    <2>4. ASSUME NEW q \in Tasks, q # t PROVE Past(q)'
      BY <2>1, <2>4 DEF Rows, Past, TypeOK
    <2>5. Past(t)'
      <3>1. \A k \in Tokens : k \in Nat /\ ~(k <= 0)
        BY AlignmentAssumption DEF Tokens
      <3>2. result[t] = 0 /\ \A k \in Tokens : <<t, k>> \notin lost
        BY <2>1, <3>1 DEF Rows, Past, TypeOK, None
      <3>3. <<t, 1>> \notin lost
        BY <3>2, AlignmentAssumption DEF Tokens
      <3> QED BY <2>1, <3>2, <3>3 DEF Past
    <2> QED BY <2>2, <2>3, <2>4, <2>5 DEF Rows
  <1>2. ASSUME NEW t \in Tasks, PrepareFails(t) \/ DeleteFails(t) PROVE Rows'
    BY <1>2, RowsRest DEF PrepareFails, DeleteFails
  <1>3. ASSUME NEW t \in Tasks, Handoff(t) PROVE Rows'
    <2>1. \A q \in Tasks : exec'[q].token = exec[q].token
      <3>1. \/ exec' = exec
            \/ exec' = [exec EXCEPT ![t].phase = "queued", ![t].lease = QueueLease]
        BY <1>3 DEF Handoff
      <3> QED BY <3>1, SameToken
    <2> QED BY <1>3, <2>1, RowsRest DEF Handoff
  <1>4. ASSUME NEW t \in Tasks, NEW k \in Tokens, Report(t, k) PROVE Rows'
    BY <1>4, RowsFail DEF Report
  <1>5. ASSUME NEW t \in Tasks, Reconcile(t) PROVE Rows'
    <2>1. \A q \in Tasks : exec'[q].token = exec[q].token
      BY <1>5 DEF Reconcile, TypeOK
    <2> QED BY <1>5, <2>1, RowsFail DEF Reconcile
  <1>6. ASSUME NEW t \in Tasks, NEW r \in {"retry", "realign"}, Ask(t, r) PROVE Rows'
    BY <1>6 DEF Ask, Rows, HeldWhileActive, ChargedIffCompleted, LostAttemptsNeverComplete,
                Untouched, Attempted, Past, TypeOK
  <1>7. ASSUME NEW t \in Tasks, Retry(t) PROVE Rows'
    <2>1. version[t] # "absent"
      BY <1>7 DEF Retry, Rows, Untouched
    <2> QED BY <1>7, <2>1, RowsAnew DEF Retry
  <1>8. ASSUME NEW t \in Tasks, Realign(t) PROVE Rows'
    <2>1. version[t] # "absent"
      BY <1>8 DEF Realign, Rows, Untouched
    <2> QED BY <1>8, <2>1, RowsAnew DEF Realign
  <1>9. ASSUME NEW t \in Tasks, Trash(t) PROVE Rows'
    BY <1>9, RowsFail DEF Trash, TypeOK
  <1>10. ASSUME NEW t \in Tasks, Restore(t) PROVE Rows'
    BY <1>10, RowsRest DEF Restore, TypeOK
  <1>11. ASSUME NEW t \in Tasks, Delete(t) PROVE Rows'
    <2>1. /\ \A q \in Tasks : exec'[q].token = exec[q].token
          /\ status' = [status EXCEPT ![t] = "none"]
          /\ version' = [version EXCEPT ![t] = "deleted"]
          /\ lost' = lost \cup Ended(t) /\ UNCHANGED <<asked, result>>
      BY <1>11 DEF Delete, TypeOK
    <2>2. HeldWhileActive' /\ ChargedIffCompleted'
      BY <1>11 DEF Delete, Released, Rows, HeldWhileActive, ChargedIffCompleted, Active, TypeOK
    <2>3. LostAttemptsNeverComplete'
      BY <2>1 DEF LostAttemptsNeverComplete, Rows, Past, Ended
    <2>4. ASSUME NEW q \in Tasks PROVE Untouched(q)' /\ Attempted(q)'
      BY <2>1 DEF Rows, Untouched, Attempted, Active, TypeOK
    <2>5. ASSUME NEW q \in Tasks PROVE Past(q)'
      <3>1. exec[q].token \in Nat
        BY ExecTypes
      <3> QED BY <2>1, <3>1 DEF Rows, Past, Ended, Active, TypeOK
    <2> QED BY <2>2, <2>3, <2>4, <2>5 DEF Rows
  <1>12. ASSUME NEW w \in Workers, NEW t \in Tasks, NEW k \in Tokens, Claim(w, t, k)
         PROVE  Rows'
    <2>1. \A q \in Tasks : exec'[q].token = exec[q].token
      BY <1>12 DEF Claim, TypeOK
    <2> QED BY <1>12, <2>1, RowsRest DEF Claim
  <1>13. ASSUME NEW w \in Workers, Begin(w) PROVE Rows'
    <2>1. CASE status' = status
      BY <1>13, <2>1, RowsRest DEF Begin
    <2>2. CASE Guarded(worker[w].task, worker[w].token)
      <3> DEFINE t == worker[w].task
      <3>1. /\ t \in Tasks /\ status[t] \in Active
            /\ status' = [status EXCEPT ![t] = "processing"]
            /\ UNCHANGED <<version, exec, asked, hold, result, lost>>
        BY <1>13, <2>2 DEF Begin, Guarded, AtWork, Claimed
      <3> HIDE DEF t
      <3> QED BY <3>1 DEF Rows, HeldWhileActive, ChargedIffCompleted, LostAttemptsNeverComplete,
                          Untouched, Attempted, Past, Active, TypeOK
    <2> QED BY <1>13, <2>1, <2>2 DEF Begin
  <1>14. ASSUME NEW w \in Workers, Complete(w) PROVE Rows'
    <2>1. CASE status' = status /\ hold' = hold /\ result' = result
      BY <1>14, <2>1, RowsRest DEF Complete
    <2>2. CASE Guarded(worker[w].task, worker[w].token)
      <3> DEFINE t == worker[w].task
      <3>1. /\ t \in Tasks /\ status[t] \in Active
            /\ status' = [status EXCEPT ![t] = "completed"]
            /\ hold' = [hold EXCEPT ![t] = "settled"]
            /\ result' = [result EXCEPT ![t] = exec[t].token]
            /\ UNCHANGED <<version, exec, asked, lost>>
        BY <1>14, <2>2 DEF Complete, Guarded, AtWork, Claimed, Rows, HeldWhileActive
      <3>2. \A q \in Tasks : exec[q].token \in Nat
        BY ExecTypes
      <3> HIDE DEF t
      <3>3. HeldWhileActive' /\ ChargedIffCompleted' /\ LostAttemptsNeverComplete'
        BY <3>1 DEF Rows, HeldWhileActive, ChargedIffCompleted, LostAttemptsNeverComplete, Past,
                    Active, TypeOK
      <3>4. \A q \in Tasks : Untouched(q)' /\ Attempted(q)' /\ Past(q)'
        BY <3>1, <3>2 DEF Rows, Untouched, Attempted, Past, Active, TypeOK
      <3> QED BY <3>3, <3>4 DEF Rows
    <2> QED BY <1>14, <2>1, <2>2 DEF Complete
  <1>15. ASSUME NEW w \in Workers, RecordFailure(w) \/ RecordAgain(w) PROVE Rows'
    <2>1. worker[w].task \in Tasks /\ FailAndRefund(worker[w].task)
      BY <1>15 DEF RecordFailure, RecordAgain, AtWork, Claimed
    <2> QED BY <1>15, <2>1, RowsFail DEF RecordFailure, RecordAgain
  <1>16. ASSUME NEW w \in Workers, Upload(w) \/ Throw(w) \/ RecordFails(w) \/ Crash(w)
         PROVE  Rows'
    BY <1>16, RowsRest DEF Upload, Throw, RecordFails, Crash
  <1>17. ASSUME NEW t \in Tasks, NEW phase \in {"preparing", "running"}, Heartbeat(t, phase)
         PROVE  Rows'
    <2>1. \A q \in Tasks : exec'[q].token = exec[q].token
      BY <1>17 DEF Heartbeat, TypeOK
    <2> QED BY <1>17, <2>1, RowsRest DEF Heartbeat
  <1>18. CASE Tick
    <2>1. \A q \in Tasks : exec'[q].token = exec[q].token
      BY <1>18 DEF Tick
    <2> QED BY <1>18, <2>1, RowsRest DEF Tick
  <1>19. CASE UNCHANGED vars
    BY <1>19, RowsRest DEF vars
  <1> QED
    BY <1>1, <1>2, <1>3, <1>4, <1>5, <1>6, <1>7, <1>8, <1>9, <1>10, <1>11, <1>12, <1>13, <1>14,
       <1>15, <1>16, <1>17, <1>18, <1>19
       DEF Next, OwnerStep, WorkerStep, WorkerTrouble

-----------------------------------------------------------------------------
(* Workers.                                                                *)

\* Workers that go on with their attempt or stop are still one per attempt,
\* as long as no started attempt is queued again.
LEMMA WorkersRest ==
  ASSUME IInv, \A w \in Workers : GoesOn(w), \A t \in Tasks : NotRequeued(t)
  PROVE  AtWork'
  <1> USE DEF IInv, AtWork, GoesOn
  <1>1. OneWorkerPerAttempt'
    BY AlignmentAssumption DEF OneWorkerPerAttempt, Claimed
  <1>2. ASSUME NEW w \in Workers PROVE Claimed(w)'
    BY DEF Claimed
  <1>3. ASSUME NEW w \in Workers, worker'[w].pc # "idle" PROVE Started(w)'
    <2> DEFINE t == worker[w].task
               k == worker[w].token
    <2>1. /\ t \in Tasks /\ k \in Nat /\ worker'[w].task = t /\ worker'[w].token = k
          /\ k <= exec[t].token
          /\ k = exec[t].token => exec[t].phase \notin {"preparing", "queued"}
      BY <1>3, AlignmentAssumption DEF Claimed, Started, Tokens
    <2>2. exec[t].token \in Nat
      BY <2>1, ExecTypes
    <2> HIDE DEF t, k
    <2>3. /\ k <= exec'[t].token
          /\ k = exec'[t].token => exec'[t].phase \notin {"preparing", "queued"}
      BY <2>1, <2>2 DEF NotRequeued
    <2> QED BY <2>1, <2>3 DEF Started
  <1> QED BY <1>1, <1>2, <1>3 DEF Started

\* Whoever moves one worker moves no other.
LEMMA OneMoves ==
  ASSUME TypeOK, NEW w \in Workers, worker[w].pc # "idle",
         \/ \E pc \in {"claimed", "aligning", "uploaded", "failing", "raised"} : At(w, pc)
         \/ Leave(w)
  PROVE  \A v \in Workers : GoesOn(v)
  <1>1. CASE Leave(w)
    BY <1>1 DEF TypeOK, Leave, Idle, GoesOn
  <1>2. ASSUME NEW pc \in {"claimed", "aligning", "uploaded", "failing", "raised"}, At(w, pc)
        PROVE  \A v \in Workers : GoesOn(v)
    <2>1. worker[w] \in WorkerType
      BY DEF TypeOK
    <2>2. worker'[w] = [worker[w] EXCEPT !.pc = pc] /\ \A v \in Workers \ {w} : worker'[v] = worker[v]
      BY <1>2 DEF At, TypeOK
    <2>3. /\ worker'[w].pc = pc /\ pc # "idle"
          /\ worker'[w].task = worker[w].task /\ worker'[w].token = worker[w].token
      BY <2>1, <2>2 DEF WorkerType
    <2> QED BY <2>2, <2>3 DEF GoesOn
  <1> QED BY <1>1, <1>2

LEMMA AtWorkKept ==
  ASSUME IInv, [Next]_vars
  PROVE  AtWork'
  <1> USE DEF IInv
  <1> DEFINE SameWorkers == \A w \in Workers : GoesOn(w)
             NoneQueued == \A t \in Tasks : NotRequeued(t)
  <1>1. SameWorkers /\ NoneQueued => AtWork'
    BY WorkersRest
  <1>2. worker' = worker => SameWorkers
    BY DEF GoesOn
  <1>3. exec' = exec => NoneQueued
    BY DEF NotRequeued
  <1>4. ASSUME NEW t \in Tasks,
               \/ Import(t) \/ PrepareFails(t) \/ Reconcile(t) \/ Trash(t) \/ Restore(t)
               \/ Delete(t) \/ DeleteFails(t)
               \/ \E r \in {"retry", "realign"} : Ask(t, r)
               \/ \E k \in Tokens : Report(t, k)
               \/ \E phase \in {"preparing", "running"} : Heartbeat(t, phase)
        PROVE  AtWork'
    <2>1. worker' = worker
      BY <1>4 DEF Import, PrepareFails, Reconcile, Trash, Restore, Delete, DeleteFails, Ask,
                  Report, Heartbeat
    <2>2. CASE Import(t)
      <3>1. exec[t].token = 0
        BY <2>2 DEF Import, Rows, Untouched, None
      <3>2. exec'[t].token = 1 /\ \A q \in Tasks \ {t} : exec'[q] = exec[q]
        BY <2>2 DEF Import, TypeOK
      <3> QED BY <1>1, <1>2, <2>1, <3>1, <3>2 DEF NotRequeued
    <2>3. CASE Reconcile(t) \/ Delete(t) \/ \E phase \in {"preparing", "running"} : Heartbeat(t, phase)
      <3>1. NoneQueued
        <4>1. CASE Reconcile(t)
          BY <4>1, SameToken DEF Reconcile, NotRequeued
        <4>2. CASE Delete(t)
          <5>1. exec' = [exec EXCEPT ![t].phase = "none", ![t].lease = 0]
            BY <4>2 DEF Delete
          <5>2. exec'[t].phase = "none" /\ exec'[t].token = exec[t].token
            BY <5>1, SameToken
          <5>3. \A q \in Tasks \ {t} : exec'[q] = exec[q]
            BY <5>1, SameToken
          <5> QED BY <5>2, <5>3 DEF NotRequeued
        <4>3. CASE \E phase \in {"preparing", "running"} : Heartbeat(t, phase)
          BY <4>3, SameToken DEF Heartbeat, NotRequeued
        <4> QED BY <2>3, <4>1, <4>2, <4>3
      <3> QED BY <1>1, <1>2, <2>1, <3>1
    <2>4. CASE exec' = exec
      BY <1>1, <1>2, <1>3, <2>1, <2>4
    <2> QED BY <1>4, <2>2, <2>3, <2>4 DEF PrepareFails, Trash, Restore, DeleteFails, Ask, Report
  <1>5. ASSUME NEW t \in Tasks, Handoff(t) PROVE AtWork'
    <2>1. worker' = worker
      BY <1>5 DEF Handoff
    <2>2. \/ exec' = exec
          \/ /\ exec' = [exec EXCEPT ![t].phase = "queued", ![t].lease = QueueLease]
             /\ exec[t].phase = "preparing"
      BY <1>5 DEF Handoff
    <2>3. NoneQueued
      BY <2>2, SameToken DEF NotRequeued
    <2> QED BY <1>1, <1>2, <2>1, <2>3
  <1>6. ASSUME NEW t \in Tasks, Retry(t) \/ Realign(t) PROVE AtWork'
    <2>1. NewAttempt(t)
      BY <1>6 DEF Retry, Realign
    <2>2. exec'[t].token = exec[t].token + 1 /\ \A q \in Tasks \ {t} : exec'[q] = exec[q]
      BY <2>1 DEF NewAttempt, TypeOK
    <2>3. worker' = worker
      BY <2>1 DEF NewAttempt
    <2> QED BY <1>1, <1>2, <2>2, <2>3 DEF NotRequeued
  <1>7. ASSUME NEW w \in Workers, NEW t \in Tasks, NEW k \in Tokens, Claim(w, t, k)
        PROVE  AtWork'
    <2>1. /\ worker[w].pc = "idle" /\ exec[t].token = k /\ exec[t].phase = "queued"
          /\ exec'[t].phase = "running" /\ exec'[t].token = k
          /\ \A q \in Tasks \ {t} : exec'[q] = exec[q]
          /\ worker'[w] = [pc |-> "claimed", task |-> t, token |-> k]
          /\ \A v \in Workers \ {w} : worker'[v] = worker[v]
      BY <1>7 DEF Claim, Claimable, TypeOK
    <2>2. \A v \in Workers :
            worker[v].pc # "idle" /\ worker[v].task = t => worker[v].token # k
      BY <2>1 DEF AtWork, Started
    <2>3. OneWorkerPerAttempt'
      BY <2>1, <2>2, AlignmentAssumption DEF AtWork, OneWorkerPerAttempt, Claimed
    <2>4. ASSUME NEW v \in Workers PROVE Claimed(v)' /\ Started(v)'
      <3>1. k <= k
        BY AlignmentAssumption DEF Tokens
      <3> QED BY <2>1, <3>1 DEF AtWork, Claimed, Started
    <2> QED BY <2>3, <2>4 DEF AtWork
  <1>8. ASSUME NEW w \in Workers, WorkerStep(w) \/ WorkerTrouble(w) PROVE AtWork'
    <2>1. /\ worker[w].pc # "idle" /\ exec' = exec
          /\ \/ \E pc \in {"claimed", "aligning", "uploaded", "failing", "raised"} : At(w, pc)
             \/ Leave(w)
      BY <1>8 DEF WorkerStep, WorkerTrouble, Begin, Upload, Complete, RecordFailure, RecordAgain,
                  Throw, RecordFails, Crash
    <2>2. SameWorkers
      BY <2>1, OneMoves
    <2> QED BY <1>1, <1>3, <2>1, <2>2
  <1>9. CASE Tick
    <2>1. NoneQueued
      BY <1>9 DEF Tick, NotRequeued
    <2> QED BY <1>1, <1>2, <1>9, <2>1 DEF Tick
  <1>10. CASE UNCHANGED vars
    BY <1>1, <1>2, <1>3, <1>10 DEF vars
  <1> QED
    BY <1>4, <1>5, <1>6, <1>7, <1>8, <1>9, <1>10 DEF Next, OwnerStep

-----------------------------------------------------------------------------
LEMMA InitIInv == Init => IInv
  <1> SUFFICES ASSUME Init PROVE IInv
    OBVIOUS
  <1>1. TypeOK
    BY AlignmentAssumption
       DEF Init, TypeOK, Status, Active, ExecType, Leased, Tokens, None, WorkerType, Idle
  <1>2. Rows
    BY AlignmentAssumption
       DEF Init, Rows, HeldWhileActive, ChargedIffCompleted, LostAttemptsNeverComplete,
           Untouched, Attempted, Past, Active, None
  <1>3. AtWork
    BY DEF Init, AtWork, OneWorkerPerAttempt, Claimed, Started, Idle
  <1> QED BY <1>1, <1>2, <1>3 DEF IInv

LEMMA Invariance == Spec => []IInv
  <1>1. IInv /\ [Next]_vars => IInv'
    BY TypesKept, RowsKept, AtWorkKept DEF IInv
  <1> QED BY InitIInv, <1>1, PTL DEF Spec

\* Every row, lease, worker and history keeps its type.
THEOREM TypeCorrect == Spec => []TypeOK
  <1>1. IInv => TypeOK
    BY DEF IInv
  <1> QED BY Invariance, <1>1, PTL

\* A song's credits are held exactly while its task is pending or processing.
THEOREM HoldsFollowTasks == Spec => []HeldWhileActive
  <1>1. IInv => HeldWhileActive
    BY DEF IInv, Rows
  <1> QED BY Invariance, <1>1, PTL

\* Completed alignments are charged, and nothing else is.
THEOREM ChargesFollowCompletion == Spec => []ChargedIffCompleted
  <1>1. IInv => ChargedIffCompleted
    BY DEF IInv, Rows
  <1> QED BY Invariance, <1>1, PTL

\* One worker executes an attempt, however often Celery delivers it.
THEOREM AttemptsAreClaimedOnce == Spec => []OneWorkerPerAttempt
  <1>1. IInv => OneWorkerPerAttempt
    BY DEF IInv, AtWork
  <1> QED BY Invariance, <1>1, PTL

\* An attempt that was ended is never the one that completes its task.
THEOREM LostAttemptsStayOut == Spec => []LostAttemptsNeverComplete
  <1>1. IInv => LostAttemptsNeverComplete
    BY DEF IInv, Rows
  <1> QED BY Invariance, <1>1, PTL

\* A completed task stays completed until its owner realigns or deletes it:
\* late reports, workers, reconciliations and the Trash pass it by.
THEOREM CompletionStays == Spec => CompletedUntilRealigned
  <1> DEFINE Stays == \A t \in Tasks : status[t] = "completed"
                        => \/ status'[t] = "completed"
                           \/ version'[t] = "deleted"
                           \/ status'[t] = "pending" /\ exec'[t].token > exec[t].token
  <1>1. ASSUME IInv, [Next]_vars PROVE Stays
    <2> USE <1>1 DEF IInv
    <2>1. ASSUME NEW t \in Tasks, FailAndRefund(t) PROVE Stays
      BY <2>1 DEF FailAndRefund, Active, TypeOK
    <2>2. ASSUME NEW t \in Tasks, Import(t) PROVE Stays
      BY <2>2 DEF Import, Rows, Untouched, TypeOK
    <2>3. ASSUME NEW t \in Tasks, Retry(t) \/ Realign(t) PROVE Stays
      <3>1. status' = [status EXCEPT ![t] = "pending"] /\ exec'[t].token = exec[t].token + 1
        BY <2>3 DEF Retry, Realign, NewAttempt, TypeOK
      <3>2. exec[t].token \in Nat
        BY ExecTypes
      <3> QED BY <3>1, <3>2 DEF TypeOK
    <2>4. ASSUME NEW t \in Tasks, Delete(t) PROVE Stays
      BY <2>4 DEF Delete, TypeOK
    <2>5. ASSUME NEW w \in Workers, Begin(w) \/ Complete(w) PROVE Stays
      <3>1. \/ status' = status
            \/ status[worker[w].task] \in Active
                 /\ \E s \in Status : status' = [status EXCEPT ![worker[w].task] = s]
        BY <2>5 DEF Begin, Complete, Guarded, Status, Active
      <3> QED BY <3>1 DEF Active, TypeOK
    <2>6. ASSUME NEW w \in Workers, RecordFailure(w) \/ RecordAgain(w) PROVE Stays
      BY <2>1, <2>6 DEF RecordFailure, RecordAgain, AtWork, Claimed
    <2>7. CASE status' = status
      BY <2>7
    <2> QED
      BY <2>1, <2>2, <2>3, <2>4, <2>5, <2>6, <2>7
         DEF Next, vars, OwnerStep, WorkerStep, WorkerTrouble, PrepareFails, Handoff, Report,
             Reconcile, Ask, Trash, Restore, DeleteFails, Claim, Upload, Throw, RecordFails, Crash,
             Heartbeat, Tick
  <1> QED BY <1>1, Invariance, PTL DEF Spec, CompletedUntilRealigned
=============================================================================
