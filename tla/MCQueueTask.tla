----------------------------- MODULE MCQueueTask -----------------------------
(* Instances of QueueTask for TLC. *)
EXTENDS QueueTask
=============================================================================
