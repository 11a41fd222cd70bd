------------------------------ MODULE MCScheduler ------------------------------
(* Small instances of Scheduler: symmetric processes and rows. *)
EXTENDS Scheduler, TLC

Symmetry == Permutations(Process) \cup Permutations(Run)
================================================================================
