------------------------------ MODULE TaskLife ------------------------------
(***************************************************************************)
(* What a CAefTask promises about the threads that execute it, with no     *)
(* word on how: at most one thread at a time is inside the task's body     *)
(* (Init, Run and Exit), and a thread that left the body never comes back. *)
(* Task implements this specification.                                     *)
(***************************************************************************)
CONSTANTS Threads, NoThread

VARIABLES active,    \* the thread inside the body, or NoThread
          finished   \* the threads that have left it

vars == <<active, finished>>

Init == /\ active = NoThread
        /\ finished = {}

Begin(t) ==
  /\ active = NoThread
  /\ t \notin finished
  /\ active' = t
  /\ UNCHANGED finished

End ==
  /\ active \in Threads
  /\ finished' = finished \cup {active}
  /\ active' = NoThread

Next == End \/ \E t \in Threads : Begin(t)

Spec == Init /\ [][Next]_vars
=============================================================================
