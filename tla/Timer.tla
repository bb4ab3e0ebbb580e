-------------------------------- MODULE Timer --------------------------------
(***************************************************************************)
(* The timers of one queue task (aefTimer.cpp and the task's handler of    *)
(* AEF_TM_TIMER).  A timer is a record on the heap, an entry of m_timerMap *)
(* and a POSIX timer that holds the record's address; each expiry runs     *)
(* Fire in a thread of its own, which reads the record with no lock and    *)
(* posts the handle it finds there to the task's queue.  The record may    *)
(* have been deleted by then.                                              *)
(*                                                                         *)
(* Only the task's own thread starts timers (StartTimer is protected), for *)
(* a non-zero time; any thread may stop them.  The map's mutex is held     *)
(* over code that calls nothing that waits, so a critical section is one   *)
(* step.                                                                   *)
(***************************************************************************)
EXTENDS Naturals, Sequences

CONSTANTS Addrs,      \* addresses new can return
          NoAddr,     \* no entry in the map
          MaxHandle,  \* bound on m_TimerInstance; it does not wrap
          MaxFires,   \* bound on the Fire threads of one timer at a time
          QCap        \* MAX_MQ_QUEUE_MESSAGES

ASSUME TimerAssumption == /\ NoAddr \notin Addrs
                          /\ MaxHandle \in Nat
                          /\ QCap \in Nat

VARIABLES
  m_TimerInstance, \* the next handle
  m_timerMap,      \* handle -> address of its record, or NoAddr
  info,            \* address -> the handle last written there
  allocated,       \* the addresses new returned and nobody deleted
  periodic,        \* the handles started as AEF_TIMER_TYPE_PERIODIC
  sival,           \* handle -> the address its POSIX timer passes to Fire
  armed,           \* the handles whose POSIX timer will expire
  expired,         \* the handles whose POSIX timer has expired
  fire,            \* the Fire threads: where each is, its record, its message
  queue,           \* the handles in the task's queue
  pc, cur,         \* the task's thread, and the handle it works on
  handled,         \* the handles OnTimer was called for
  stopped          \* the handles the task itself stopped

vars == <<m_TimerInstance, m_timerMap, info, allocated, periodic, sival,
          armed, expired, fire, queue, pc, cur, handled, stopped>>

heapVars    == <<info, allocated>>
kernelVars  == <<sival, armed, expired>>
historyVars == <<handled, stopped>>

Handles == 1..MaxHandle
Invalid == 0  \* AEF_INVALID_TIMER_HANDLE, and what is no handle at all
FireIds == Handles \X (1..MaxFires)
Kinds   == {"oneShot", "periodic"}

\* loop: between two messages, or in the handler of one: the task may start
\* and stop timers.  drain: Run's clean-up loop; closed: Run has returned.
PCs == {"loop", "arm", "insert", "lookup", "handle", "onTimer",
        "drain", "close", "closed", "off"}

\* The handle found at an address: another timer's if new returned the address
\* again, and if not, the old one or what free left in its place.
Read(a) == IF a \in allocated THEN {info[a]} ELSE {info[a], Invalid}

NoFire == [pc |-> "none", addr |-> NoAddr, msg |-> Invalid]

Init ==
  /\ m_TimerInstance = 1
  /\ m_timerMap = [h \in Handles |-> NoAddr]
  /\ info = [a \in Addrs |-> Invalid]
  /\ allocated = {}
  /\ periodic = {}
  /\ sival = [h \in Handles |-> NoAddr]
  /\ armed = {} /\ expired = {}
  /\ fire = [f \in FireIds |-> NoFire]
  /\ queue = <<>>
  /\ pc = "loop" /\ cur = Invalid
  /\ handled = {} /\ stopped = {}

-----------------------------------------------------------------------------
(* Start, by the task's thread *)

\* new, the next handle, and timer_create.  The second disjunct is its failure:
\* Start returns the handle all the same and nothing deletes the record.
Create(a, kind) ==
  /\ pc = "loop"
  /\ m_TimerInstance \in Handles
  /\ a \notin allocated
  /\ allocated' = allocated \cup {a}
  /\ info' = [info EXCEPT ![a] = m_TimerInstance]
  /\ periodic' = IF kind = "periodic" THEN periodic \cup {m_TimerInstance}
                                      ELSE periodic
  /\ m_TimerInstance' = m_TimerInstance + 1
  /\ cur' = m_TimerInstance
  /\ \/ /\ sival' = [sival EXCEPT ![m_TimerInstance] = a]
        /\ pc' = "arm"
     \/ UNCHANGED <<sival, pc>>
  /\ UNCHANGED <<m_timerMap, armed, expired, fire, queue, historyVars>>

\* timer_settime.  The second disjunct is its failure: Start returns the invalid
\* handle, the POSIX timer is deleted, and again nothing deletes the record.
Arm ==
  /\ pc = "arm"
  /\ \/ /\ armed' = armed \cup {cur}
        /\ pc' = "insert"
     \/ /\ UNCHANGED armed
        /\ pc' = "loop"
  /\ UNCHANGED <<m_TimerInstance, m_timerMap, heapVars, periodic, sival,
                 expired, fire, queue, cur, historyVars>>

Insert ==
  /\ pc = "insert"
  /\ m_timerMap' = [m_timerMap EXCEPT ![cur] = sival[cur]]
  /\ pc' = "loop"
  /\ UNCHANGED <<m_TimerInstance, heapVars, periodic, kernelVars, fire, queue,
                 cur, historyVars>>

-----------------------------------------------------------------------------
(* The kernel, and the threads that execute Fire *)

Expire(h) ==
  /\ h \in armed
  /\ \E i \in 1..MaxFires :
       /\ fire[<<h, i>>] = NoFire
       /\ fire' = [fire EXCEPT ![<<h, i>>] =
                     [pc |-> "read", addr |-> sival[h], msg |-> Invalid]]
  /\ expired' = expired \cup {h}
  /\ armed' = IF h \in periodic THEN armed ELSE armed \ {h}
  /\ UNCHANGED <<m_TimerInstance, m_timerMap, heapVars, periodic, sival,
                 queue, pc, cur, historyVars>>

FireRead(f) ==
  /\ fire[f].pc = "read"
  /\ \E h \in Read(fire[f].addr) :
       fire' = [fire EXCEPT ![f].pc = "send", ![f].msg = h]
  /\ UNCHANGED <<m_TimerInstance, m_timerMap, heapVars, periodic, kernelVars,
                 queue, pc, cur, historyVars>>

\* A Fire that does not wait for room in the queue.
FireSend_NoWait(f) ==
  /\ fire[f].pc = "send"
  /\ queue' = IF Len(queue) < QCap THEN Append(queue, fire[f].msg) ELSE queue
  /\ fire' = [fire EXCEPT ![f] = NoFire]
  /\ UNCHANGED <<m_TimerInstance, m_timerMap, heapVars, periodic, kernelVars,
                 pc, cur, historyVars>>

\* A queue that takes one message more than it has room for.
FireSend_OffByOne(f) ==
  /\ fire[f].pc = "send"
  /\ pc \notin {"closed", "off"}
  /\ Len(queue) <= QCap
  /\ queue' = Append(queue, fire[f].msg)
  /\ fire' = [fire EXCEPT ![f] = NoFire]
  /\ UNCHANGED <<m_TimerInstance, m_timerMap, heapVars, periodic, kernelVars,
                 pc, cur, historyVars>>

\* mq_send blocks while the queue is full.  It fails, and the message is lost,
\* when the task has closed its queue, and it may fail when the descriptor is
\* read from a deleted record.
FireSend(f) ==
  /\ fire[f].pc = "send"
  /\ \/ /\ pc \notin {"closed", "off"}
        /\ Len(queue) < QCap
        /\ queue' = Append(queue, fire[f].msg)
     \/ /\ pc \in {"closed", "off"} \/ fire[f].addr \notin allocated
        /\ UNCHANGED queue
  /\ fire' = [fire EXCEPT ![f] = NoFire]
  /\ UNCHANGED <<m_TimerInstance, m_timerMap, heapVars, periodic, kernelVars,
                 pc, cur, historyVars>>

-----------------------------------------------------------------------------
(* The task's handler of AEF_TM_TIMER *)

Receive ==
  /\ pc = "loop"
  /\ queue # <<>>
  /\ cur' = Head(queue)
  /\ queue' = Tail(queue)
  /\ pc' = "lookup"
  /\ UNCHANGED <<m_TimerInstance, m_timerMap, heapVars, periodic, kernelVars,
                 fire, historyVars>>

\* A handler that takes any handle for a running timer's.
Lookup_TrustsMessage ==
  /\ pc = "lookup"
  /\ pc' = IF cur \in Handles THEN "handle" ELSE "loop"
  /\ UNCHANGED <<m_TimerInstance, m_timerMap, heapVars, periodic, kernelVars,
                 fire, queue, cur, historyVars>>

\* GetTimerClientInfo
Lookup ==
  /\ pc = "lookup"
  /\ pc' = IF cur \in Handles /\ m_timerMap[cur] # NoAddr THEN "handle"
                                                          ELSE "loop"
  /\ UNCHANGED <<m_TimerInstance, m_timerMap, heapVars, periodic, kernelVars,
                 fire, queue, cur, historyVars>>

\* What Stop, DeleteAllTimers and HandleTimer do to the timers hs of the map.
Remove(hs) ==
  /\ armed' = armed \ hs
  /\ allocated' = allocated \ {m_timerMap[h] : h \in hs}
  /\ m_timerMap' = [h \in Handles |-> IF h \in hs THEN NoAddr ELSE m_timerMap[h]]
  /\ UNCHANGED <<info, sival, expired>>

\* The record is deleted, the entry is not erased.
HandleTimer_KeepsEntry ==
  /\ pc = "handle"
  /\ allocated' = IF m_timerMap[cur] # NoAddr /\ cur \notin periodic
                  THEN allocated \ {m_timerMap[cur]} ELSE allocated
  /\ armed' = IF cur \notin periodic THEN armed \ {cur} ELSE armed
  /\ pc' = "onTimer"
  /\ UNCHANGED <<m_TimerInstance, m_timerMap, info, periodic, sival, expired,
                 fire, queue, cur, historyVars>>

\* One-shot timers are left for Stop and DeleteAllTimers to remove.
HandleTimer_RemovesNothing ==
  /\ pc = "handle"
  /\ pc' = "onTimer"
  /\ UNCHANGED <<m_TimerInstance, m_timerMap, heapVars, periodic, kernelVars,
                 fire, queue, cur, historyVars>>

\* Another thread may have stopped the timer since the look-up.
HandleTimer ==
  /\ pc = "handle"
  /\ \/ /\ m_timerMap[cur] # NoAddr
        /\ cur \notin periodic
        /\ Remove({cur})
     \/ /\ m_timerMap[cur] = NoAddr \/ cur \in periodic
        /\ UNCHANGED <<m_timerMap, heapVars, kernelVars>>
  /\ pc' = "onTimer"
  /\ UNCHANGED <<m_TimerInstance, periodic, fire, queue, cur, historyVars>>

OnTimer ==
  /\ pc = "onTimer"
  /\ handled' = handled \cup {cur}
  /\ pc' = "loop"
  /\ UNCHANGED <<m_TimerInstance, m_timerMap, heapVars, periodic, kernelVars,
                 fire, queue, cur, stopped>>

-----------------------------------------------------------------------------
\* Stop by the task, which it calls from a handler.
TaskStop(h) ==
  /\ pc = "loop"
  /\ m_timerMap[h] # NoAddr
  /\ Remove({h})
  /\ stopped' = stopped \cup {h}
  /\ UNCHANGED <<m_TimerInstance, periodic, fire, queue, pc, cur, handled>>

\* Stop by another thread.
OtherStop(h) ==
  /\ m_timerMap[h] # NoAddr
  /\ Remove({h})
  /\ UNCHANGED <<m_TimerInstance, periodic, fire, queue, pc, cur, historyVars>>

\* The task is stopped, and Run gets to its clean-up loop.
RunEnds ==
  /\ pc = "loop"
  /\ pc' = "drain"
  /\ UNCHANGED <<m_TimerInstance, m_timerMap, heapVars, periodic, kernelVars,
                 fire, queue, cur, historyVars>>

\* The loop ends when no message is pending.  While one is, it receives from a
\* descriptor that is invalid by now, and nothing changes.
DrainTest ==
  /\ pc = "drain"
  /\ queue = <<>>
  /\ pc' = "close"
  /\ UNCHANGED <<m_TimerInstance, m_timerMap, heapVars, periodic, kernelVars,
                 fire, queue, cur, historyVars>>

\* mq_close: Fire may have added to the queue since the test.
CloseQueue ==
  /\ pc = "close"
  /\ pc' = "closed"
  /\ UNCHANGED <<m_TimerInstance, m_timerMap, heapVars, periodic, kernelVars,
                 fire, queue, cur, historyVars>>

\* Exit
DeleteAllTimers ==
  /\ pc = "closed"
  /\ Remove({h \in Handles : m_timerMap[h] # NoAddr})
  /\ pc' = "off"
  /\ UNCHANGED <<m_TimerInstance, periodic, fire, queue, cur, historyVars>>

\* The task is started again, and opens the same queue.
Restart ==
  /\ pc = "off"
  /\ pc' = "loop"
  /\ UNCHANGED <<m_TimerInstance, m_timerMap, heapVars, periodic, kernelVars,
                 fire, queue, cur, historyVars>>

-----------------------------------------------------------------------------
\* What the task's thread does without a decision of its handlers.
TaskProgress ==
  \/ Arm \/ Insert \/ Receive \/ Lookup \/ HandleTimer \/ OnTimer
  \/ DrainTest \/ CloseQueue \/ DeleteAllTimers

FireStep(f) == FireRead(f) \/ FireSend(f)

Next ==
  \/ \E a \in Addrs, kind \in Kinds : Create(a, kind)
  \/ TaskProgress
  \/ \E h \in Handles : Expire(h) \/ TaskStop(h) \/ OtherStop(h)
  \/ \E f \in FireIds : FireStep(f)
  \/ RunEnds \/ Restart

\* Timers expire, every thread runs, and senders that wait for room in the
\* queue are served in their order.
Fairness == /\ WF_vars(TaskProgress)
            /\ \A h \in Handles : WF_vars(Expire(h))
            /\ \A f \in FireIds : SF_vars(FireStep(f))

Spec == Init /\ [][Next]_vars
FairSpec == Spec /\ Fairness

-----------------------------------------------------------------------------
TypeOK ==
  /\ m_TimerInstance \in 1..(MaxHandle + 1)
  /\ m_timerMap \in [Handles -> Addrs \cup {NoAddr}]
  /\ info \in [Addrs -> Handles \cup {Invalid}]
  /\ allocated \subseteq Addrs
  /\ periodic \subseteq Handles
  /\ sival \in [Handles -> Addrs \cup {NoAddr}]
  /\ armed \subseteq Handles
  /\ expired \subseteq Handles
  /\ fire \in [FireIds -> [pc   : {"none", "read", "send"},
                           addr : Addrs \cup {NoAddr},
                           msg  : Handles \cup {Invalid}]]
  /\ queue \in Seq(Handles \cup {Invalid}) /\ Len(queue) <= QCap
  /\ pc \in PCs
  /\ cur \in Handles \cup {Invalid}
  /\ handled \subseteq Handles
  /\ stopped \subseteq Handles

(* Whatever the task, other threads and Exit do to the timers at the same
   time, an entry of the map leads to the record of its own timer, and a POSIX
   timer that can still expire holds the address of a record that nobody
   deleted and new did not return again.  No record is deleted twice. *)
RecordsOutliveTimers ==
  \A h \in Handles :
    /\ m_timerMap[h] # NoAddr =>
         m_timerMap[h] \in allocated /\ info[m_timerMap[h]] = h
    /\ h \in armed => sival[h] \in allocated /\ info[sival[h]] = h

(* OnTimer is not called for a timer the task has stopped, though its message
   may be queued already and Fire may post stale and false handles. *)
StoppedStaysSilent == pc = "onTimer" => cur \notin stopped

(* OnTimer is called at most once for a one-shot timer, though more than one
   message may carry its handle. *)
OneShotOnce == pc = "onTimer" /\ cur \notin periodic => cur \notin handled

DrainPending == pc = "drain" /\ queue # <<>>

(* A one-shot timer is done some day: it expires and OnTimer is called, or
   somebody stops it, or Exit deletes it.  No message is lost on the way.  But a
   task that is stopped with a message pending never gets out of its clean-up
   loop (PendingAreCleanedUp of QueueTask), and keeps its timers with it. *)
OneShotEnds ==
  \A h \in Handles :
    (m_timerMap[h] # NoAddr /\ h \notin periodic)
      ~> (m_timerMap[h] = NoAddr \/ DrainPending)

(* aefTimer.cpp:99: the timer takes a number of milliseconds "before the timer
   should expire".  OnTimer is not called before that time is over. *)
NeverEarly == handled \subseteq expired
=============================================================================
