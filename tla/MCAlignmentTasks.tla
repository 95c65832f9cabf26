-------------------------- MODULE MCAlignmentTasks --------------------------
(* AlignmentTasks on one song, several attempts and two workers.           *)
EXTENDS AlignmentTasks, TLC

WorkersInterchangeable == Permutations(Workers)
=============================================================================
