---------------------------- MODULE MCExportJobs ----------------------------
(***************************************************************************)
(* ExportJobs on one version with two attempts in all: two of one job, or  *)
(* one each of two jobs that compete for the account's only render slot.   *)
(***************************************************************************)
EXTENDS ExportJobs

CONSTANTS t1, j1, j2

OneVersion == [j \in Jobs |-> t1]

\* The jobs are alike: the first one is created first.  While there are two,
\* the version stays out of Trash.
InBounds ==
  /\ job'[j1].attempt + job'[j2].attempt <= 2
  /\ job'[j2].attempt > 0 => /\ job'[j1].attempt > 0
                             /\ task'[t1] = "live" /\ deleting' = {}

MCSpec == Init /\ [][Next /\ InBounds]_vars /\ Fairness
=============================================================================
