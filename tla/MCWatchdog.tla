----------------------------- MODULE MCWatchdog -----------------------------
(* Instances of Watchdog for TLC. *)
EXTENDS Watchdog, TLC

CONSTANTS q, p, c

MCCallee == c :> q
=============================================================================
