----------------------------- MODULE MCTaskSafe -----------------------------
(* An instance of TaskSafe for TLC. *)
EXTENDS TaskSafe, TLC

\* The threads are interchangeable, and no liveness property is checked.
Symmetry == Permutations(Threads)
=============================================================================
