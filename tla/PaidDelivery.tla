---------------------------- MODULE PaidDelivery ----------------------------
(***************************************************************************)
(* What a paid export promises its buyer, whatever workers, leases and     *)
(* requests do: credits are reserved, and then either the video is         *)
(* delivered and charged in one step, or everything goes back.  A charge   *)
(* is final, a video appears only with a charge, and once it has been      *)
(* taken out of the library it never comes back.                           *)
(***************************************************************************)
CONSTANT Jobs

VARIABLES
  payment,  \* of each job: idle, reserved, charged or returned
  video     \* of each job: absent, ready or gone

Init ==
  /\ payment = [j \in Jobs |-> "idle"]
  /\ video = [j \in Jobs |-> "absent"]

Reserve(j) ==
  /\ payment[j] \in {"idle", "returned"} /\ payment'[j] = "reserved"
  /\ video'[j] = video[j]

Return(j) ==
  /\ payment[j] = "reserved" /\ payment'[j] = "returned"
  /\ video'[j] = video[j]

Deliver(j) ==
  /\ payment[j] = "reserved" /\ payment'[j] = "charged"
  /\ video[j] = "absent" /\ video'[j] = "ready"

Erase(j) ==
  /\ payment'[j] = payment[j]
  /\ video[j] = "ready" /\ video'[j] = "gone"

Unchanged(j) == payment'[j] = payment[j] /\ video'[j] = video[j]

\* One request may end several jobs' holds at once.
Next == \A j \in Jobs : Reserve(j) \/ Return(j) \/ Deliver(j) \/ Erase(j) \/ Unchanged(j)

Spec == Init /\ [][Next]_<<payment, video>>
=============================================================================
