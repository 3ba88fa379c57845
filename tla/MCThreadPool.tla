---------------------------- MODULE MCThreadPool ----------------------------
(* Finite instances of ThreadPool: clients, tasks and workers are model    *)
(* values; workers, tasks that block and tasks that do not are             *)
(* interchangeable among themselves.                                       *)
EXTENDS ThreadPool, TLC

Symmetry ==
  Permutations(Workers) \cup Permutations(Blockers) \cup Permutations(Tasks \ Blockers)
=============================================================================
