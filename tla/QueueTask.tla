------------------------------ MODULE QueueTask ------------------------------
(***************************************************************************)
(* Messages between CAefQueueTasks (aefQueueTask.cpp): each task receives  *)
(* from a POSIX message queue of its own name; others find the queue's     *)
(* descriptor by name in the static map m_TQMap, under m_mutexTQMap, or in *)
(* the task's member m_QueueID, under nothing.                             *)
(*                                                                         *)
(* A queue belongs to the kernel and is never unlinked, so it outlives the *)
(* descriptors opened on it and the incarnations of its task; a descriptor *)
(* is a number that mq_open may hand out again once it is closed.          *)
(*                                                                         *)
(* That a task has one thread at a time is Task's business: here a task    *)
(* that is off may be started, and any other may be stopped.               *)
(***************************************************************************)
EXTENDS Naturals, FiniteSets, Sequences

CONSTANTS
  Tasks,         \* queue tasks, which are also the names of their queues
  Callers,       \* threads that only send
  FDs,           \* message queue descriptors, 0 excluded
  Bufs,          \* buffers SetData can allocate, each allocated once
  BroadcastBufs, \* those of Bufs that are sent by a broadcast
  NameSenders,      \* the senders that send by name, ...
  MemberSenders,    \* ... through another task's object, ...
  BroadcastSenders, \* ... and to all tasks
  FailingInits,  \* the tasks whose derived class has an Init that may fail
  QCap,          \* MAX_MQ_QUEUE_MESSAGES
  NoFd,          \* MSG_Q_ID_INVALID
  Null,          \* the entry 0 of a task that has stopped advertising
  Absent,        \* no entry
  NoOne,         \* no task, no owner
  NoBuf          \* the message carries its data itself

ASSUME QueueAssumption ==
  /\ Tasks \cap Callers = {}
  /\ NoOne \notin Tasks \cup Callers
  /\ {NoFd, Null, Absent} \cap FDs = {}
  /\ NoFd # Null /\ NoFd # Absent /\ Null # Absent
  /\ NoBuf \notin Bufs
  /\ BroadcastBufs \subseteq Bufs
  /\ NameSenders \cup MemberSenders \cup BroadcastSenders
       \subseteq Tasks \cup Callers
  /\ FailingInits \subseteq Tasks
  /\ QCap \in Nat \ {0}

VARIABLES
  m_bTaskRunning, \* per task, the flag Run polls
  m_QueueID,      \* per task, the descriptor member sends use
  myQueue,        \* per task, Run's copy of it
  m_TaskMsg,      \* per task, the message being handled
  m_TQMap,        \* name -> descriptor, Null or Absent
  m_mutexTQMap,   \* the owner of the map's mutex, or NoOne
  openOn,         \* descriptor -> the queue it is open on, or NoOne
  queue,          \* the kernel's queues
  live, freed,    \* allocated buffers, and those given back
  lost,           \* history: the buffers of the sends that failed
  abandoned,      \* history: the tasks whose Init failed after it registered
                  \* the queue, which nobody has found empty since
  call,           \* per sender, the send it is making
  pc

vars == <<m_bTaskRunning, m_QueueID, myQueue, m_TaskMsg, m_TQMap,
          m_mutexTQMap, openOn, queue, live, freed, lost, abandoned, call, pc>>

taskVars == <<m_QueueID, myQueue, m_TaskMsg>>
mapVars  == <<m_TQMap, m_mutexTQMap>>
heapVars == <<live, freed, lost>>

Senders == Tasks \cup Callers

\* via: which SendMessage; to: the task the sender means, if it names one.
Msg == [via : {"name", "member", "broadcast"},
        to  : Tasks \cup {NoOne},
        buf : Bufs \cup {NoBuf}]
NoMsg == [via |-> "none", to |-> NoOne, buf |-> NoBuf]

\* fd: the descriptor found; target: the task whose object is asked for it,
\* then the queue the kernel resolved it to; todo: the tasks a broadcast has
\* still to visit.
Call == [msg    : Msg \cup {NoMsg},
         fd     : FDs \cup {NoFd},
         target : Tasks \cup {NoOne},
         todo   : SUBSET Tasks]
NoCall == [msg |-> NoMsg, fd |-> NoFd, target |-> NoOne, todo |-> {}]

CallPCs == {"lock", "member", "next", "resolve", "enqueue", "unlock"}
TaskPCs == {"off", "open", "register", "loop", "receive", "handle", "cleanup",
            "retract", "forget", "drain", "close", "erase"}

Goto(p, l) == pc' = [pc EXCEPT ![p] = l]

Init ==
  /\ m_bTaskRunning = [k \in Tasks |-> FALSE]
  /\ m_QueueID = [k \in Tasks |-> NoFd]
  /\ myQueue = [k \in Tasks |-> NoFd]
  /\ m_TaskMsg = [k \in Tasks |-> NoMsg]
  /\ m_TQMap = [k \in Tasks |-> Absent]
  /\ m_mutexTQMap = NoOne
  /\ openOn = [d \in FDs |-> NoOne]
  /\ queue = [k \in Tasks |-> <<>>]
  /\ live = {} /\ freed = {} /\ lost = {}
  /\ abandoned = {}
  /\ call = [p \in Senders |-> NoCall]
  /\ pc = [p \in Senders |-> IF p \in Tasks THEN "off" ELSE "idle"]

-----------------------------------------------------------------------------
(* Buffers.  SetData allocates one when the data does not fit the message;
   Cleanup deletes it. *)
Fresh(bs) == (bs \ (live \cup freed)) \cup {NoBuf}
Allocate(b) == /\ live' = live \cup ({b} \ {NoBuf})
               /\ UNCHANGED <<freed, lost>>
Cleanup(m) == /\ live' = live \ {m.buf}
              /\ freed' = freed \cup ({m.buf} \ {NoBuf})
              /\ UNCHANGED lost

-----------------------------------------------------------------------------
(* Senders: a caller at any time, a task from the handler of a message.  A
   handler makes at most one send. *)
Ready(p) == pc[p] = IF p \in Tasks THEN "handle" ELSE "idle"
Home(p) == IF p \in Tasks THEN "cleanup" ELSE "idle"

\* SendMessage(name, pTM)
SendByName(p) ==
  /\ Ready(p)
  /\ \E k \in Tasks, b \in Fresh(Bufs \ BroadcastBufs) :
       /\ Allocate(b)
       /\ call' = [call EXCEPT
                     ![p].msg = [via |-> "name", to |-> k, buf |-> b]]
  /\ Goto(p, "lock")
  /\ UNCHANGED <<m_bTaskRunning, taskVars, mapVars, openOn, queue, abandoned>>

\* SendMessage(pTM) on another task's object: the descriptor is tested, and
\* read again for the send (ReadMember), with nothing to keep it open.
SendMember(p) ==
  /\ Ready(p)
  /\ \E k \in Tasks, b \in Fresh(Bufs \ BroadcastBufs) :
       /\ m_bTaskRunning[k]
       /\ m_QueueID[k] # NoFd
       /\ Allocate(b)
       /\ call' = [call EXCEPT
                     ![p].msg = [via |-> "member", to |-> NoOne, buf |-> b],
                     ![p].target = k]
  /\ Goto(p, "member")
  /\ UNCHANGED <<m_bTaskRunning, taskVars, mapVars, openOn, queue, abandoned>>

SendBroadcast(p) ==
  /\ Ready(p)
  /\ \E b \in Fresh(BroadcastBufs) :
       /\ Allocate(b)
       /\ call' = [call EXCEPT
                     ![p].msg = [via |-> "broadcast", to |-> NoOne, buf |-> b]]
  /\ Goto(p, "lock")
  /\ UNCHANGED <<m_bTaskRunning, taskVars, mapVars, openOn, queue, abandoned>>

\* A send that fails.  Nobody frees the buffer then: SendMessage returns
\* AEF_ERROR, its callers ignore that, and CAefTaskMessage has no destructor.
\* A broadcast goes on to the next task.
SendFails(p, l) ==
  /\ IF call[p].msg.via = "broadcast"
     THEN UNCHANGED lost
     ELSE lost' = lost \cup ({call[p].msg.buf} \ {NoBuf})
  /\ UNCHANGED <<live, freed>>
  /\ Goto(p, l)

\* Where a sender goes when mq_send has returned.
AfterSend(p) == IF call[p].msg.via = "name" THEN "unlock"
                ELSE IF call[p].msg.via = "broadcast" THEN "next" ELSE Home(p)

\* The sender forgets the message, except that a broadcast goes on with it.
EndSend(p) ==
  call' = [call EXCEPT ![p] = IF @.msg.via = "broadcast"
                              THEN [@ EXCEPT !.target = NoOne, !.fd = NoFd]
                              ELSE NoCall]

\* The second read of m_QueueID: mq_send fails if it is invalid by now.
ReadMember(p) ==
  /\ pc[p] = "member"
  /\ LET d == m_QueueID[call[p].target] IN
     \/ /\ d # NoFd
        /\ call' = [call EXCEPT ![p].fd = d, ![p].target = NoOne]
        /\ Goto(p, "resolve")
        /\ UNCHANGED heapVars
     \/ /\ d = NoFd
        /\ EndSend(p)
        /\ SendFails(p, Home(p))
  /\ UNCHANGED <<m_bTaskRunning, taskVars, mapVars, openOn, queue, abandoned>>

\* SendMessage(name): an entry that leads to a queue, or none that does;
\* mq_send fails on the descriptor 0 of a task that stopped advertising.
Found(p) ==
  /\ call[p].msg.via = "name"
  /\ m_TQMap[call[p].msg.to] \in FDs
  /\ call' = [call EXCEPT ![p].fd = m_TQMap[call[p].msg.to]]
  /\ Goto(p, "resolve")
  /\ UNCHANGED heapVars

NotFound(p, l) ==
  /\ call[p].msg.via = "name"
  /\ m_TQMap[call[p].msg.to] \in {Null, Absent}
  /\ EndSend(p)
  /\ SendFails(p, l)

\* SendBroadcastMessage
FoundAll(p) ==
  /\ call[p].msg.via = "broadcast"
  /\ call' = [call EXCEPT ![p].todo = {k \in Tasks : m_TQMap[k] \in FDs}]
  /\ Goto(p, "next")
  /\ UNCHANGED heapVars

\* SendMessage(name) keeps the mutex for the look-up only.
LockMap_LookupOnly(p) ==
  /\ pc[p] = "lock"
  /\ m_mutexTQMap = NoOne
  /\ \/ (Found(p) \/ NotFound(p, Home(p))) /\ UNCHANGED m_mutexTQMap
     \/ FoundAll(p) /\ m_mutexTQMap' = p
  /\ UNCHANGED <<m_bTaskRunning, taskVars, m_TQMap, openOn, queue, abandoned>>

\* SendMessage(name) returns with the mutex held when the name has no entry.
LockMap_KeepsMutex(p) ==
  /\ pc[p] = "lock"
  /\ m_mutexTQMap = NoOne
  /\ m_mutexTQMap' = p
  /\ Found(p) \/ NotFound(p, Home(p)) \/ FoundAll(p)
  /\ UNCHANGED <<m_bTaskRunning, taskVars, m_TQMap, openOn, queue, abandoned>>

\* The map's mutex is taken, and kept for the send.
LockMap(p) ==
  /\ pc[p] = "lock"
  /\ m_mutexTQMap = NoOne
  /\ m_mutexTQMap' = p
  /\ Found(p) \/ NotFound(p, "unlock") \/ FoundAll(p)
  /\ UNCHANGED <<m_bTaskRunning, taskVars, m_TQMap, openOn, queue, abandoned>>

\* The loop of SendBroadcastMessage.
BroadcastNext(p) ==
  /\ pc[p] = "next"
  /\ \/ \E k \in call[p].todo :
          /\ call' = [call EXCEPT ![p].todo = @ \ {k}, ![p].fd = m_TQMap[k]]
          /\ Goto(p, "resolve")
     \/ /\ call[p].todo = {}
        /\ call' = [call EXCEPT ![p] = NoCall]
        /\ Goto(p, "unlock")
  /\ UNCHANGED <<m_bTaskRunning, taskVars, mapVars, openOn, queue, heapVars,
                 abandoned>>

\* mq_send enters the kernel: the descriptor is open on a queue, or EBADF.
Resolve(p) ==
  /\ pc[p] = "resolve"
  /\ LET q == openOn[call[p].fd] IN
     \/ /\ q # NoOne
        /\ call' = [call EXCEPT ![p].target = q]
        /\ Goto(p, "enqueue")
        /\ UNCHANGED heapVars
     \/ /\ q = NoOne
        /\ EndSend(p)
        /\ SendFails(p, AfterSend(p))
  /\ UNCHANGED <<m_bTaskRunning, taskVars, mapVars, openOn, queue, abandoned>>

\* A queue that takes one message more than it has room for.
Enqueue_OffByOne(p) ==
  /\ pc[p] = "enqueue"
  /\ Len(queue[call[p].target]) <= QCap
  /\ queue' = [queue EXCEPT ![call[p].target] = Append(@, call[p].msg)]
  /\ EndSend(p)
  /\ Goto(p, AfterSend(p))
  /\ UNCHANGED <<m_bTaskRunning, taskVars, mapVars, openOn, heapVars,
                 abandoned>>

\* mq_send blocks while the queue is full.
Enqueue(p) ==
  /\ pc[p] = "enqueue"
  /\ Len(queue[call[p].target]) < QCap
  /\ queue' = [queue EXCEPT ![call[p].target] = Append(@, call[p].msg)]
  /\ EndSend(p)
  /\ Goto(p, AfterSend(p))
  /\ UNCHANGED <<m_bTaskRunning, taskVars, mapVars, openOn, heapVars,
                 abandoned>>

UnlockMap(p) ==
  /\ pc[p] = "unlock"
  /\ m_mutexTQMap' = NoOne
  /\ Goto(p, Home(p))
  /\ UNCHANGED <<m_bTaskRunning, taskVars, m_TQMap, openOn, queue, heapVars,
                 abandoned, call>>
-----------------------------------------------------------------------------
(* The thread of a task, from Init to Exit *)
senderVars == <<live, freed, lost, call>>

Start(k) ==
  /\ pc[k] = "off"
  /\ m_bTaskRunning' = [m_bTaskRunning EXCEPT ![k] = TRUE]
  /\ Goto(k, "open")
  /\ UNCHANGED <<taskVars, mapVars, openOn, queue, abandoned, senderVars>>

\* Stop, from any thread, at any time.
Stop(k) ==
  /\ m_bTaskRunning' = [m_bTaskRunning EXCEPT ![k] = FALSE]
  /\ UNCHANGED <<taskVars, mapVars, openOn, queue, abandoned, senderVars, pc>>

\* Init: mq_open creates the queue or finds the one that is there.  A
\* descriptor that is left in m_QueueID is overwritten, and stays open.
OpenQueue(k) ==
  /\ pc[k] = "open"
  /\ \E d \in FDs :
       /\ openOn[d] = NoOne
       /\ openOn' = [openOn EXCEPT ![d] = k]
       /\ m_QueueID' = [m_QueueID EXCEPT ![k] = d]
  /\ Goto(k, "register")
  /\ UNCHANGED <<m_bTaskRunning, myQueue, m_TaskMsg, mapVars, queue, abandoned,
                 senderVars>>

OpenFails(k) ==
  /\ pc[k] = "open"
  /\ m_QueueID' = [m_QueueID EXCEPT ![k] = NoFd]
  /\ Goto(k, "erase")
  /\ UNCHANGED <<m_bTaskRunning, myQueue, m_TaskMsg, mapVars, openOn, queue,
                 abandoned, senderVars>>

\* The three writes of the map, each a critical section that calls nothing.
SetEntry(k, e) ==
  /\ m_mutexTQMap = NoOne
  /\ m_TQMap' = [m_TQMap EXCEPT ![k] = e]
  /\ UNCHANGED m_mutexTQMap

Register(k) ==
  /\ pc[k] = "register"
  /\ SetEntry(k, m_QueueID[k])
  /\ Goto(k, "loop")
  /\ UNCHANGED <<m_bTaskRunning, taskVars, openOn, queue, abandoned,
                 senderVars>>

\* The Init of a derived class fails after CAefQueueTask::Init: Exit follows
\* without Run, so the queue is neither emptied nor closed, and m_QueueID and
\* the flag stay as they are.
InitFails(k) ==
  /\ k \in FailingInits
  /\ pc[k] = "register"
  /\ SetEntry(k, m_QueueID[k])
  /\ abandoned' = abandoned \cup {k}
  /\ Goto(k, "erase")
  /\ UNCHANGED <<m_bTaskRunning, taskVars, openOn, queue, senderVars>>

\* Run: the flag is read once per turn.
Poll(k) ==
  /\ pc[k] = "loop"
  /\ Goto(k, IF m_bTaskRunning[k] THEN "receive" ELSE "retract")
  /\ UNCHANGED <<m_bTaskRunning, taskVars, mapVars, openOn, queue, abandoned,
                 senderVars>>

\* mq_timedreceive, which returns a message or times out.
Receive(k) ==
  /\ pc[k] = "receive"
  /\ LET q == openOn[m_QueueID[k]] IN
     \/ /\ queue[q] # <<>>
        /\ m_TaskMsg' = [m_TaskMsg EXCEPT ![k] = Head(queue[q])]
        /\ queue' = [queue EXCEPT ![q] = Tail(@)]
        /\ Goto(k, "handle")
     \/ /\ queue[q] = <<>>
        /\ UNCHANGED <<m_TaskMsg, queue>>
        /\ Goto(k, "loop")
  /\ UNCHANGED <<m_bTaskRunning, m_QueueID, myQueue, mapVars, openOn,
                 abandoned, senderVars>>

\* The receiver forgets to clean the message up.
CleanupMsg_Forgotten(k) ==
  /\ pc[k] \in {"handle", "cleanup"}
  /\ m_TaskMsg' = [m_TaskMsg EXCEPT ![k] = NoMsg]
  /\ Goto(k, "loop")
  /\ UNCHANGED <<m_bTaskRunning, m_QueueID, myQueue, mapVars, openOn, queue,
                 abandoned, senderVars>>

\* The handler has returned, with or without a send.
CleanupMsg(k) ==
  /\ pc[k] \in {"handle", "cleanup"}
  /\ Cleanup(m_TaskMsg[k])
  /\ m_TaskMsg' = [m_TaskMsg EXCEPT ![k] = NoMsg]
  /\ Goto(k, "loop")
  /\ UNCHANGED <<m_bTaskRunning, m_QueueID, myQueue, mapVars, openOn, queue,
                 abandoned, call>>

\* A stopping task that goes on advertising its queue.
Retract_KeepsEntry(k) ==
  /\ pc[k] = "retract"
  /\ myQueue' = [myQueue EXCEPT ![k] = m_QueueID[k]]
  /\ Goto(k, "forget")
  /\ UNCHANGED <<m_bTaskRunning, m_QueueID, m_TaskMsg, mapVars, openOn, queue,
                 abandoned, senderVars>>

\* Stopping: the entry is nulled, then the member forgets the descriptor.
Retract(k) ==
  /\ pc[k] = "retract"
  /\ myQueue' = [myQueue EXCEPT ![k] = m_QueueID[k]]
  /\ SetEntry(k, Null)
  /\ Goto(k, "forget")
  /\ UNCHANGED <<m_bTaskRunning, m_QueueID, m_TaskMsg, openOn, queue,
                 abandoned, senderVars>>

Forget(k) ==
  /\ pc[k] = "forget"
  /\ m_QueueID' = [m_QueueID EXCEPT ![k] = NoFd]
  /\ Goto(k, "drain")
  /\ UNCHANGED <<m_bTaskRunning, myQueue, m_TaskMsg, mapVars, openOn, queue,
                 abandoned, senderVars>>

\* The clean-up loop ends when myQueue has no messages pending.  While it has,
\* it receives from m_QueueID, which is MSG_Q_ID_INVALID by now: EBADF, and
\* nothing changes.
DrainTest(k) ==
  /\ pc[k] = "drain"
  /\ queue[openOn[myQueue[k]]] = <<>>
  /\ abandoned' = abandoned \ {k}
  /\ Goto(k, "close")
  /\ UNCHANGED <<m_bTaskRunning, taskVars, mapVars, openOn, queue, senderVars>>

CloseQueue(k) ==
  /\ pc[k] = "close"
  /\ openOn' = [openOn EXCEPT ![myQueue[k]] = NoOne]
  /\ myQueue' = [myQueue EXCEPT ![k] = NoFd]
  /\ Goto(k, "erase")
  /\ UNCHANGED <<m_bTaskRunning, m_QueueID, m_TaskMsg, mapVars, queue,
                 abandoned, senderVars>>

\* CAefTask::Exit
Erase(k) ==
  /\ pc[k] = "erase"
  /\ SetEntry(k, Absent)
  /\ Goto(k, "off")
  /\ UNCHANGED <<m_bTaskRunning, taskVars, openOn, queue, abandoned,
                 senderVars>>

-----------------------------------------------------------------------------
SendStep(p) ==
  \/ LockMap(p) \/ ReadMember(p) \/ BroadcastNext(p)
  \/ Resolve(p) \/ Enqueue(p) \/ UnlockMap(p)

TaskStep(k) ==
  \/ OpenQueue(k) \/ OpenFails(k) \/ Register(k) \/ InitFails(k) \/ Poll(k)
  \/ Receive(k) \/ CleanupMsg(k) \/ Retract(k) \/ Forget(k)
  \/ DrainTest(k) \/ CloseQueue(k) \/ Erase(k)

Next ==
  \/ \E p \in NameSenders : SendByName(p)
  \/ \E p \in MemberSenders : SendMember(p)
  \/ \E p \in BroadcastSenders : SendBroadcast(p)
  \/ \E p \in Senders : SendStep(p)
  \/ \E k \in Tasks : Start(k) \/ Stop(k) \/ TaskStep(k)

ThreadStep(p) == SendStep(p) \/ (p \in Tasks /\ TaskStep(p))

\* Every thread runs.  Strong fairness: one that asks for the map's mutex gets
\* it if it is free again and again, and the kernel serves in their order the
\* senders that wait for room in a queue.
Fairness == \A p \in Senders : SF_vars(ThreadStep(p))

Spec == Init /\ [][Next]_vars
FairSpec == Spec /\ Fairness

-----------------------------------------------------------------------------
TypeOK ==
  /\ m_bTaskRunning \in [Tasks -> BOOLEAN]
  /\ m_QueueID \in [Tasks -> FDs \cup {NoFd}]
  /\ myQueue \in [Tasks -> FDs \cup {NoFd}]
  /\ m_TaskMsg \in [Tasks -> Msg \cup {NoMsg}]
  /\ m_TQMap \in [Tasks -> FDs \cup {Null, Absent}]
  /\ m_mutexTQMap \in Senders \cup {NoOne}
  /\ openOn \in [FDs -> Tasks \cup {NoOne}]
  /\ queue \in [Tasks -> Seq(Msg)]
  /\ \A k \in Tasks : Len(queue[k]) <= QCap
  /\ live \subseteq Bufs
  /\ freed \subseteq Bufs
  /\ lost \subseteq Bufs
  /\ abandoned \subseteq Tasks
  /\ call \in [Senders -> Call]
  /\ pc \in [Senders -> CallPCs \cup TaskPCs \cup {"idle"}]

(* Who finds a live descriptor in the map finds one that is open on the queue
   of that name, and so does the task that closes it later: the descriptor a
   task owns is not closed, and its number not reused, while the map has it. *)
MapNamesOpenQueue ==
  \A k \in Tasks :
    /\ m_TQMap[k] \in FDs => openOn[m_TQMap[k]] = k
    /\ m_QueueID[k] # NoFd => openOn[m_QueueID[k]] = k
    /\ myQueue[k] # NoFd => openOn[myQueue[k]] = k

(* A message sent by name is never in the queue of another task, nor in
   another task's hands, whatever starts, stops and reuses of descriptors
   happen between the look-up and the send. *)
NamedArrivesWhereSent ==
  \A k \in Tasks :
    /\ \A i \in 1..Len(queue[k]) :
         queue[k][i].via = "name" => queue[k][i].to = k
    /\ m_TaskMsg[k].via = "name" => m_TaskMsg[k].to = k

(* An incarnation of a task leaves to the next one no message that was sent
   by name or broadcast: once its queue has been found empty nobody can add
   to it through the map.  It does if its Init failed after registering the
   queue, and from then on until a later incarnation empties it. *)
NothingLeftThroughMap ==
  \A k \in Tasks \ abandoned :
    pc[k] \in {"close", "erase", "off", "open", "register"} =>
      \A i \in 1..Len(queue[k]) : queue[k][i].via = "member"

\* Where a message can be: in a queue, in a task's hands, with a sender.
Places == {"queue"} \X Tasks \X (1..QCap)
            \cup {"hand"} \X Tasks \X {0} \cup {"call"} \X Senders \X {0}
MsgAt(e) ==
  CASE e[1] = "queue" -> IF e[3] <= Len(queue[e[2]]) THEN queue[e[2]][e[3]]
                                                    ELSE NoMsg
    [] e[1] = "hand"  -> m_TaskMsg[e[2]]
    [] e[1] = "call"  -> call[e[2]].msg
Holders(b) == {e \in Places : MsgAt(e).buf = b}

(* aefTaskMessageInterface.h:58: the data pointer is freed by the receiving
   task.  A buffer sent to one task has exactly one holder until it is freed,
   and none after: it is freed once, and it is lost only by a send that
   failed, after which nobody has it any more. *)
OneHolderUntilFreed ==
  \A b \in Bufs \ BroadcastBufs :
    /\ b \in live \ lost => Cardinality(Holders(b)) = 1
    /\ b \in freed \cup lost => Holders(b) = {}
    /\ b \notin freed \cap lost

(* The same of every buffer, broadcast ones too: no message that is queued or
   being handled carries a buffer that was already freed. *)
NoDanglingMessage ==
  \A k \in Tasks :
    /\ \A i \in 1..Len(queue[k]) : queue[k][i].buf \notin freed
    /\ m_TaskMsg[k].buf \notin freed

Blocked(p) == pc[p] = "enqueue" /\ Len(queue[call[p].target]) = QCap
DrainPending(k) ==
  pc[k] = "drain" /\ queue[openOn[myQueue[k]]] # <<>>

(* A stopped task ends, or it is in its clean-up loop with messages pending,
   if no sender stays blocked on a full queue for ever (a sender by name holds
   the map's mutex meanwhile, which every task needs to end). *)
ShutdownCompletes ==
  (\A p \in Senders : ~<>[]Blocked(p)) =>
    \A k \in Tasks :
      (pc[k] \in {"loop", "receive", "handle"} /\ ~m_bTaskRunning[k])
        ~> (pc[k] = "off" \/ DrainPending(k))

(* aefQueueTask.cpp:257: "Now let's clean up the rest of the messages pending
   for this queue".  A task that gets to the clean-up loop gets out of it. *)
PendingAreCleanedUp ==
  \A k \in Tasks : pc[k] = "drain" ~> pc[k] = "close"
=============================================================================
