----------------------------- MODULE BufferLife -----------------------------
(***************************************************************************)
(* What QueueTask promises of a buffer that is sent to one task: it goes   *)
(* from the sender to a queue and on to a task's hands, one step at a time *)
(* and never back, it is freed once, by the task that received it, and it  *)
(* is lost only by its sender, whose send failed: that nobody frees.       *)
(***************************************************************************)
CONSTANTS
  Bufs,    \* the buffers
  Tasks,   \* who has a queue
  Senders, \* who may send
  Nobody   \* the holder of a buffer that nobody has

VARIABLE place \* buffer -> what holds it, and whose that is

Unused == <<"unused", Nobody>>
Freed  == <<"freed", Nobody>>
Lost   == <<"lost", Nobody>>

Init == place = [b \in Bufs |-> Unused]

Move(b, from, to) == /\ place[b] \in from
                     /\ place' = [place EXCEPT ![b] = to]

\* SetData, by the thread that will send.
Allocate(b, p) == Move(b, {Unused}, <<"call", p>>)

\* mq_send, to a queue.
Send(b, k) == Move(b, {"call"} \X Senders, <<"queue", k>>)

\* The task receives from its own queue.
Receive(b, k) == Move(b, {<<"queue", k>>}, <<"hand", k>>)

\* SendMessage returns AEF_ERROR, and its caller lets the message go.
Lose(b) == Move(b, {"call"} \X Senders, Lost)

\* Cleanup, by the task that received.
Free(b) == Move(b, {"hand"} \X Tasks, Freed)

Next == \E b \in Bufs :
          \/ \E p \in Senders : Allocate(b, p)
          \/ \E k \in Tasks : Send(b, k) \/ Receive(b, k)
          \/ Lose(b) \/ Free(b)

Spec == Init /\ [][Next]_place
=============================================================================
