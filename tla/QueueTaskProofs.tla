--------------------------- MODULE QueueTaskProofs ---------------------------
(***************************************************************************)
(* Proofs about QueueTask: the safety properties hold for any numbers of   *)
(* tasks, callers, descriptors and buffers and any size of the queues.     *)
(***************************************************************************)
EXTENDS QueueTask, SequenceTheorems, TLAPS

\* Where a task's queue is open and its member says so, where the member has
\* forgotten the descriptor, and where the entry is gone.
Opened == CallPCs \cup {"register", "loop", "receive", "handle", "cleanup",
                        "retract", "forget"}
Forgotten == {"drain", "close"}
Hidden == {"forget", "drain", "close", "off", "open", "register"}
Closing == {"forget", "drain", "close"}

(* The descriptors and the entry of a task, by where its thread is.  A task
   whose Init failed after it registered comes to Exit with its entry, and
   keeps its descriptor. *)
Phases ==
  \A k \in Tasks :
    /\ pc[k] \in CallPCs \cup TaskPCs
    /\ pc[k] \in Opened => m_QueueID[k] # NoFd
    /\ pc[k] \in Forgotten => m_QueueID[k] = NoFd
    /\ pc[k] \in Hidden => m_TQMap[k] \notin FDs
    /\ pc[k] = "erase" /\ k \notin abandoned => m_TQMap[k] \notin FDs
    /\ pc[k] \in Closing <=> myQueue[k] # NoFd

(* The sends that hold the mutex: by name from the look-up on, and a broadcast
   all along. *)
InMap(p) == \/ pc[p] \in {"next", "unlock"}
            \/ pc[p] \in {"resolve", "enqueue"} /\ call[p].msg.via # "member"

Held == \A p \in Senders : InMap(p) => m_mutexTQMap = p

(* A send knows its message, and one through the map a descriptor that is in
   the map still, by name that of the task the message is for. *)
SendOK(p) ==
  /\ pc[p] \in {"lock", "member", "next", "resolve", "enqueue"}
       => call[p].msg \in Msg
  /\ pc[p] = "member" => /\ call[p].msg.via = "member"
                         /\ call[p].target \in Tasks
  /\ pc[p] = "lock" => /\ call[p].msg.via # "member"
                       /\ call[p].msg.via = "name" => call[p].msg.to \in Tasks
  /\ pc[p] = "next" => call[p].msg.via = "broadcast"
  /\ pc[p] \in {"next", "resolve", "enqueue"} /\ call[p].msg.via = "broadcast"
       => \A k \in call[p].todo : m_TQMap[k] \in FDs
  /\ pc[p] = "resolve" =>
       /\ call[p].fd \in FDs
       /\ call[p].msg.via # "member" =>
            \E k \in Tasks : /\ m_TQMap[k] = call[p].fd
                             /\ call[p].msg.via = "name" => call[p].msg.to = k
  /\ pc[p] = "enqueue" =>
       /\ call[p].target \in Tasks
       /\ call[p].msg.via # "member" => m_TQMap[call[p].target] \in FDs
       /\ call[p].msg.via = "name" => call[p].msg.to = call[p].target

Sends == \A p \in Senders : SendOK(p)

IInv == /\ TypeOK /\ Phases /\ Held /\ Sends
        /\ MapNamesOpenQueue /\ NamedArrivesWhereSent /\ NothingLeftThroughMap

(* Nothing runs at first. *)
LEMMA InitIInv == Init => IInv
<1> SUFFICES ASSUME Init
             PROVE  IInv
  OBVIOUS
<1> USE QueueAssumption DEF Init, NoCall, NoMsg, Senders
<1>1. queue \in [Tasks -> Seq(Msg)] /\ \A k \in Tasks : Len(queue[k]) = 0
  BY EmptySeq
<1>2. call \in [Senders -> Call]
  BY DEF Call
<1>3. pc \in [Senders -> CallPCs \cup TaskPCs \cup {"idle"}]
  BY DEF CallPCs, TaskPCs
<1>4. TypeOK
  <2>1. \A k \in Tasks : Len(queue[k]) <= QCap
    BY <1>1
  <2>2. /\ m_bTaskRunning \in [Tasks -> BOOLEAN]
        /\ m_TaskMsg \in [Tasks -> Msg \cup {NoMsg}]
        /\ live \subseteq Bufs /\ freed \subseteq Bufs
        /\ lost \subseteq Bufs /\ abandoned \subseteq Tasks
    OBVIOUS
  <2>3. /\ m_QueueID \in [Tasks -> FDs \cup {NoFd}]
        /\ myQueue \in [Tasks -> FDs \cup {NoFd}]
        /\ m_TQMap \in [Tasks -> FDs \cup {Null, Absent}]
        /\ m_mutexTQMap \in Senders \cup {NoOne}
        /\ openOn \in [FDs -> Tasks \cup {NoOne}]
    OBVIOUS
  <2>4. QED
    BY <1>1, <1>2, <1>3, <2>1, <2>2, <2>3 DEF TypeOK
<1>5. Phases
  BY DEF Phases, Opened, Forgotten, Hidden, Closing, CallPCs, TaskPCs
<1>6. Held /\ Sends
  BY DEF Held, InMap, Sends, SendOK
<1>7. MapNamesOpenQueue /\ NamedArrivesWhereSent /\ NothingLeftThroughMap
  BY <1>1 DEF MapNamesOpenQueue, NamedArrivesWhereSent, NothingLeftThroughMap
<1>8. QED
  BY <1>4, <1>5, <1>6, <1>7 DEF IInv

(* What the steps do to a queue: it holds messages, and not too many. *)
LEMMA QueueSteps ==
  ASSUME NEW q \in Seq(Msg), Len(q) <= QCap
  PROVE  /\ \A e \in Msg : Len(q) < QCap =>
              /\ Append(q, e) \in Seq(Msg) /\ Len(Append(q, e)) <= QCap
              /\ Len(Append(q, e)) = Len(q) + 1
              /\ Append(q, e)[Len(q) + 1] = e
              /\ \A i \in 1..Len(q) : Append(q, e)[i] = q[i]
         /\ q # <<>> =>
              /\ Head(q) \in Msg /\ Head(q) = q[1] /\ 1 \in 1..Len(q)
              /\ Tail(q) \in Seq(Msg) /\ Len(Tail(q)) <= QCap
              /\ \A i \in 1..Len(Tail(q)) :
                   Tail(q)[i] = q[i + 1] /\ i + 1 \in 1..Len(q)
<1>1. ASSUME NEW e \in Msg, Len(q) < QCap
      PROVE  /\ Append(q, e) \in Seq(Msg) /\ Len(Append(q, e)) <= QCap
             /\ Len(Append(q, e)) = Len(q) + 1
             /\ Append(q, e)[Len(q) + 1] = e
             /\ \A i \in 1..Len(q) : Append(q, e)[i] = q[i]
  BY <1>1, AppendProperties, LenProperties, QueueAssumption
<1>2. ASSUME q # <<>>
      PROVE  /\ Head(q) \in Msg /\ Head(q) = q[1] /\ 1 \in 1..Len(q)
             /\ Tail(q) \in Seq(Msg) /\ Len(Tail(q)) <= QCap
             /\ \A i \in 1..Len(Tail(q)) :
                  Tail(q)[i] = q[i + 1] /\ i + 1 \in 1..Len(q)
  BY <1>2, HeadTailProperties, LenProperties, QueueAssumption
<1>3. QED
  BY <1>1, <1>2

SendAction(p) ==
  SendByName(p) \/ SendMember(p) \/ SendBroadcast(p) \/ SendStep(p)

(* A sender's step changes no other sender's call, and how it changes its
   own. *)
LEMMA OwnCall ==
  ASSUME TypeOK, Sends, NEW p \in Senders, SendAction(p)
  PROVE  \E c \in Call : call' = [call EXCEPT ![p] = c]
<1> USE DEF TypeOK, NoCall, NoMsg
<1>0. call[p] \in Call
  OBVIOUS
<1>c. NoCall \in Call
  BY QueueAssumption DEF Call
<1>m. ASSUME NEW m \in Msg
      PROVE  [call[p] EXCEPT !.msg = m] \in Call
  BY <1>0 DEF Call
<1>1. CASE SendByName(p)
  <2>1. PICK m \in Msg : call' = [call EXCEPT ![p].msg = m]
    <3>1. PICK k \in Tasks, b \in Fresh(Bufs \ BroadcastBufs) :
            call' = [call EXCEPT
                       ![p].msg = [via |-> "name", to |-> k, buf |-> b]]
      BY <1>1 DEF SendByName
    <3>2. [via |-> "name", to |-> k, buf |-> b] \in Msg
      BY DEF Msg, Fresh
    <3>3. QED
      BY <3>1, <3>2
  <2>2. QED
    BY <2>1, <1>m
<1>2. CASE SendMember(p)
  <2>1. PICK m \in Msg, k \in Tasks :
          call' = [call EXCEPT ![p].msg = m, ![p].target = k]
    <3>1. PICK k \in Tasks, b \in Fresh(Bufs \ BroadcastBufs) :
            call' = [call EXCEPT
                     ![p].msg = [via |-> "member", to |-> NoOne, buf |-> b],
                     ![p].target = k]
      BY <1>2, Zenon DEF SendMember
    <3>2. [via |-> "member", to |-> NoOne, buf |-> b] \in Msg
      BY DEF Msg, Fresh
    <3>3. QED
      BY <3>1, <3>2, Zenon
  <2>2. [call[p] EXCEPT !.msg = m, !.target = k] \in Call
    BY <1>0 DEF Call
  <2>3. call' = [call EXCEPT ![p] = [call[p] EXCEPT !.msg = m, !.target = k]]
    BY <2>1
  <2>4. QED
    BY <2>2, <2>3
<1>3. CASE SendBroadcast(p)
  <2>1. PICK m \in Msg : call' = [call EXCEPT ![p].msg = m]
    <3>1. PICK b \in Fresh(BroadcastBufs) :
            call' = [call EXCEPT
                     ![p].msg = [via |-> "broadcast", to |-> NoOne, buf |-> b]]
      BY <1>3 DEF SendBroadcast
    <3>2. [via |-> "broadcast", to |-> NoOne, buf |-> b] \in Msg
      BY QueueAssumption DEF Msg, Fresh
    <3>3. QED
      BY <3>1, <3>2
  <2>2. QED
    BY <2>1, <1>m
<1>e. ASSUME EndSend(p)
      PROVE  \E c \in Call : call' = [call EXCEPT ![p] = c]
  <2>1. [call[p] EXCEPT !.target = NoOne, !.fd = NoFd] \in Call
    BY <1>0 DEF Call
  <2>2. CASE call[p].msg.via = "broadcast"
    BY <1>e, <2>1, <2>2 DEF EndSend
  <2>3. CASE call[p].msg.via # "broadcast"
    BY <1>e, <1>c, <2>3 DEF EndSend
  <2>4. QED
    BY <2>2, <2>3
<1>4. CASE LockMap(p)
  <2>1. CASE Found(p)
    <3>1. call' = [call EXCEPT ![p] =
                     [call[p] EXCEPT !.fd = m_TQMap[call[p].msg.to]]]
      BY <2>1 DEF Found
    <3>2. m_TQMap[call[p].msg.to] \in FDs
      BY <2>1 DEF Found
    <3>3. QED
      BY <1>0, <3>1, <3>2 DEF Call
  <2>2. CASE NotFound(p, "unlock")
    BY <1>e, <2>2 DEF NotFound
  <2>3. CASE FoundAll(p)
    <3>1. call' = [call EXCEPT ![p] =
                    [call[p] EXCEPT
                        !.todo = {k \in Tasks : m_TQMap[k] \in FDs}]]
      BY <2>3 DEF FoundAll
    <3>2. [call[p] EXCEPT !.todo = {k \in Tasks : m_TQMap[k] \in FDs}] \in Call
      BY <1>0 DEF Call
    <3>3. QED
      BY <3>1, <3>2
  <2>4. QED
    BY <1>4, <2>1, <2>2, <2>3 DEF LockMap
<1>5. CASE BroadcastNext(p)
  <2>1. ASSUME NEW k \in call[p].todo,
               call' = [call EXCEPT ![p].todo = @ \ {k}, ![p].fd = m_TQMap[k]]
        PROVE  \E c \in Call : call' = [call EXCEPT ![p] = c]
    <3>0. pc[p] = "next"
      BY <1>5 DEF BroadcastNext
    <3>1. m_TQMap[k] \in FDs
      BY <2>1, <3>0 DEF Sends, SendOK
    <3>2. call' = [call EXCEPT ![p] =
                     [call[p] EXCEPT !.todo = @ \ {k}, !.fd = m_TQMap[k]]]
      BY <2>1
    <3>3. [call[p] EXCEPT !.todo = @ \ {k}, !.fd = m_TQMap[k]] \in Call
      BY <1>0, <3>1 DEF Call
    <3>4. QED
      BY <3>2, <3>3
  <2>2. QED
    BY <1>5, <1>c, <2>1 DEF BroadcastNext
<1>6. CASE Resolve(p)
  <2>1. CASE EndSend(p)
    BY <1>e, <2>1
  <2>2. ASSUME openOn[call[p].fd] # NoOne,
               call' = [call EXCEPT ![p].target = openOn[call[p].fd]]
        PROVE  \E c \in Call : call' = [call EXCEPT ![p] = c]
    <3>1. openOn[call[p].fd] \in Tasks
      BY <1>6, <2>2 DEF Resolve, Sends, SendOK
    <3>2. call' = [call EXCEPT ![p] =
                     [call[p] EXCEPT !.target = openOn[call[p].fd]]]
      BY <2>2
    <3>3. [call[p] EXCEPT !.target = openOn[call[p].fd]] \in Call
      BY <1>0, <3>1 DEF Call
    <3>4. QED
      BY <3>2, <3>3
  <2>3. QED
    BY <1>6, <2>1, <2>2 DEF Resolve
<1>7. CASE Enqueue(p)
  BY <1>7, <1>e DEF Enqueue
<1>8. CASE UnlockMap(p)
  <2>1. call' = [call EXCEPT ![p] = call[p]]
    BY <1>8 DEF UnlockMap
  <2>2. QED
    BY <1>0, <2>1
<1>9. CASE ReadMember(p)
  <2>1. CASE EndSend(p)
    BY <1>e, <2>1
  <2>2. ASSUME NEW d \in FDs,
               call' = [call EXCEPT ![p].fd = d, ![p].target = NoOne]
        PROVE  \E c \in Call : call' = [call EXCEPT ![p] = c]
    <3>1. call' = [call EXCEPT ![p] =
                     [call[p] EXCEPT !.fd = d, !.target = NoOne]]
      BY <2>2
    <3>2. [call[p] EXCEPT !.fd = d, !.target = NoOne] \in Call
      BY <1>0 DEF Call
    <3>3. QED
      BY <3>1, <3>2
  <2>3. call[p].target \in Tasks
    BY <1>9 DEF ReadMember, Sends, SendOK
  <2>4. QED
    BY <1>9, <2>1, <2>2, <2>3 DEF ReadMember
<1>10. QED
  BY <1>1, <1>2, <1>3, <1>4, <1>5, <1>6, <1>7, <1>8, <1>9
  DEF SendAction, SendStep

(* A sender's step moves no other thread, and nothing of the tasks. *)
LEMMA OthersStay ==
  ASSUME TypeOK, Sends, NEW p \in Senders, SendAction(p)
  PROVE  /\ \A o \in Senders \ {p} : pc'[o] = pc[o] /\ call'[o] = call[o]
         /\ pc'[p] = Home(p) \/ pc'[p] \in CallPCs
         /\ UNCHANGED <<m_bTaskRunning, taskVars, m_TQMap, openOn>>
         /\ queue' # queue => Enqueue(p)
<1>1. \A o \in Senders \ {p} : call'[o] = call[o]
  BY OwnCall DEF TypeOK
<1>2. \E l \in CallPCs \cup {Home(p)} : pc' = [pc EXCEPT ![p] = l]
  BY DEF SendAction, SendByName, SendMember, SendBroadcast, SendStep, LockMap,
         ReadMember,
         Found, NotFound, FoundAll, BroadcastNext, Resolve, Enqueue, UnlockMap,
         SendFails, AfterSend, Goto, CallPCs
<1>3. UNCHANGED <<m_bTaskRunning, taskVars, m_TQMap, openOn>>
  BY DEF SendAction, SendByName, SendMember, SendBroadcast, SendStep, LockMap,
         ReadMember,
         BroadcastNext, Resolve, Enqueue, UnlockMap, mapVars
<1>4. queue' # queue => Enqueue(p)
  BY DEF SendAction, SendByName, SendMember, SendBroadcast, SendStep, LockMap,
         ReadMember,
         BroadcastNext, Resolve, UnlockMap
<1>5. QED
  BY <1>1, <1>2, <1>3, <1>4 DEF TypeOK

(* The sender itself still knows what it must know of its send. *)
LEMMA SenderOK ==
  ASSUME TypeOK, Sends, MapNamesOpenQueue, NEW p \in Senders, SendAction(p)
  PROVE  SendOK(p)'
<1> USE DEF TypeOK, Goto
<1>0. SendOK(p)
  BY DEF Sends
<1>1. CASE SendByName(p)
  <2>1. PICK m \in Msg : /\ m.via = "name" /\ m.to \in Tasks
                         /\ call' = [call EXCEPT ![p].msg = m]
    <3>1. PICK k \in Tasks, b \in Fresh(Bufs \ BroadcastBufs) :
            call' = [call EXCEPT
                       ![p].msg = [via |-> "name", to |-> k, buf |-> b]]
      BY <1>1 DEF SendByName
    <3>2. [via |-> "name", to |-> k, buf |-> b] \in Msg
      BY DEF Msg, Fresh
    <3>3. QED
      BY <3>1, <3>2
  <2>2. call'[p].msg = m
    BY <2>1 DEF Call
  <2>3. pc'[p] = "lock"
    BY <1>1 DEF SendByName
  <2>4. QED
    BY <2>1, <2>2, <2>3 DEF SendOK
<1>2. CASE SendMember(p)
  <2>1. PICK m \in Msg, k \in Tasks :
          /\ m.via = "member"
          /\ call' = [call EXCEPT ![p].msg = m, ![p].target = k]
    <3>1. PICK k \in Tasks, b \in Fresh(Bufs \ BroadcastBufs) :
            call' = [call EXCEPT
                     ![p].msg = [via |-> "member", to |-> NoOne, buf |-> b],
                     ![p].target = k]
      BY <1>2, Zenon DEF SendMember
    <3>2. [via |-> "member", to |-> NoOne, buf |-> b] \in Msg
      BY DEF Msg, Fresh
    <3>3. [via |-> "member", to |-> NoOne, buf |-> b].via = "member"
      OBVIOUS
    <3>4. QED
      BY <3>1, <3>2, <3>3, Zenon
  <2>2. call'[p].msg = m /\ call'[p].target = k
    BY <2>1 DEF Call
  <2>3. pc'[p] = "member"
    BY <1>2 DEF SendMember
  <2>4. QED
    BY <2>1, <2>2, <2>3 DEF SendOK
<1>3. CASE SendBroadcast(p)
  <2>1. PICK m \in Msg : /\ m.via = "broadcast"
                         /\ call' = [call EXCEPT ![p].msg = m]
    <3>1. PICK b \in Fresh(BroadcastBufs) :
            call' = [call EXCEPT
                     ![p].msg = [via |-> "broadcast", to |-> NoOne, buf |-> b]]
      BY <1>3 DEF SendBroadcast
    <3>2. [via |-> "broadcast", to |-> NoOne, buf |-> b] \in Msg
      BY QueueAssumption DEF Msg, Fresh
    <3>3. QED
      BY <3>1, <3>2
  <2>2. call'[p].msg = m
    BY <2>1 DEF Call
  <2>3. pc'[p] = "lock"
    BY <1>3 DEF SendBroadcast
  <2>4. QED
    BY <2>1, <2>2, <2>3 DEF SendOK
<1>h. Home(p) \notin {"lock", "member", "next", "resolve", "enqueue"}
  BY DEF Home
<1>e. ASSUME EndSend(p), pc'[p] = AfterSend(p), m_TQMap' = m_TQMap,
             pc[p] \in {"resolve", "enqueue"}
      PROVE  SendOK(p)'
  <2>1. CASE call[p].msg.via = "broadcast"
    <3>1. pc'[p] = "next"
      BY <1>e, <2>1 DEF AfterSend
    <3>2. call'[p] = [call[p] EXCEPT !.target = NoOne, !.fd = NoFd]
      BY <1>e, <2>1 DEF EndSend
    <3>3. call'[p].msg = call[p].msg /\ call'[p].todo = call[p].todo
      BY <3>2 DEF Call
    <3>4. QED
      BY <1>0, <1>e, <2>1, <3>1, <3>3 DEF SendOK
  <2>2. CASE call[p].msg.via # "broadcast"
    BY <1>e, <1>h, <2>2 DEF AfterSend, SendOK
  <2>3. QED
    BY <2>1, <2>2
<1>4. CASE LockMap(p)
  <2>0. /\ pc[p] = "lock" /\ m_TQMap' = m_TQMap
        /\ Found(p) \/ NotFound(p, "unlock") \/ FoundAll(p)
    BY <1>4 DEF LockMap
  <2>1. CASE Found(p)
    <3>1. /\ call[p].msg.via = "name" /\ m_TQMap[call[p].msg.to] \in FDs
          /\ call'[p] = [call[p] EXCEPT !.fd = m_TQMap[call[p].msg.to]]
          /\ pc'[p] = "resolve"
      BY <2>1 DEF Found
    <3>2. /\ call'[p].msg = call[p].msg
          /\ call'[p].fd = m_TQMap[call[p].msg.to]
      BY <3>1 DEF Call
    <3>3. call[p].msg \in Msg /\ call[p].msg.to \in Tasks
      BY <1>0, <2>0, <3>1 DEF SendOK
    <3>4. QED
      BY <2>0, <3>1, <3>2, <3>3 DEF SendOK
  <2>2. CASE NotFound(p, "unlock")
    BY <2>2 DEF NotFound, SendFails, SendOK
  <2>3. CASE FoundAll(p)
    <3>1. /\ call[p].msg.via = "broadcast" /\ pc'[p] = "next"
          /\ call'[p] =
               [call[p] EXCEPT !.todo = {k \in Tasks : m_TQMap[k] \in FDs}]
      BY <2>3 DEF FoundAll
    <3>2. /\ call'[p].msg = call[p].msg
          /\ call'[p].todo = {k \in Tasks : m_TQMap[k] \in FDs}
      BY <3>1 DEF Call
    <3>3. QED
      BY <1>0, <2>0, <3>1, <3>2 DEF SendOK
  <2>4. QED
    BY <2>0, <2>1, <2>2, <2>3
<1>5. CASE BroadcastNext(p)
  <2>0. pc[p] = "next" /\ m_TQMap' = m_TQMap
    BY <1>5 DEF BroadcastNext, mapVars
  <2>1. ASSUME NEW k \in call[p].todo, pc'[p] = "resolve",
               call' = [call EXCEPT ![p].todo = @ \ {k}, ![p].fd = m_TQMap[k]]
        PROVE  SendOK(p)'
    <3>1. /\ call[p].msg \in Msg /\ call[p].msg.via = "broadcast"
          /\ \A t \in call[p].todo : m_TQMap[t] \in FDs
      BY <1>0, <2>0 DEF SendOK
    <3>2. k \in Tasks
      BY DEF Call
    <3>3. /\ call'[p].msg = call[p].msg /\ call'[p].fd = m_TQMap[k]
          /\ call'[p].todo = call[p].todo \ {k}
      BY <2>1 DEF Call
    <3>4. QED
      BY <2>0, <2>1, <3>1, <3>2, <3>3 DEF SendOK
  <2>2. ASSUME pc'[p] = "unlock"
        PROVE  SendOK(p)'
    BY <2>2 DEF SendOK
  <2>3. QED
    BY <1>5, <2>1, <2>2 DEF BroadcastNext
<1>6. CASE Resolve(p)
  <2>0. pc[p] = "resolve" /\ m_TQMap' = m_TQMap
    BY <1>6 DEF Resolve, mapVars
  <2>1. ASSUME EndSend(p), SendFails(p, AfterSend(p))
        PROVE  SendOK(p)'
    <3>1. pc'[p] = AfterSend(p)
      BY <2>1 DEF SendFails, AfterSend, Home
    <3>2. QED
      BY <1>e, <2>0, <2>1, <3>1
  <2>2. ASSUME openOn[call[p].fd] # NoOne, pc'[p] = "enqueue",
               call' = [call EXCEPT ![p].target = openOn[call[p].fd]]
        PROVE  SendOK(p)'
    <3>1. call[p].fd \in FDs /\ call[p].msg \in Msg
      BY <1>0, <2>0 DEF SendOK
    <3>2. openOn[call[p].fd] \in Tasks
      BY <2>2, <3>1
    <3>3. /\ call'[p].msg = call[p].msg /\ call'[p].todo = call[p].todo
          /\ call'[p].target = openOn[call[p].fd]
      BY <2>2 DEF Call
    <3>4. ASSUME call[p].msg.via # "member"
          PROVE  /\ m_TQMap[openOn[call[p].fd]] \in FDs
                 /\ call[p].msg.via = "name" =>
                      call[p].msg.to = openOn[call[p].fd]
      BY <1>0, <2>0, <3>1, <3>4 DEF SendOK, MapNamesOpenQueue
    <3>5. QED
      BY <1>0, <2>0, <2>2, <3>1, <3>2, <3>3, <3>4 DEF SendOK
  <2>3. QED
    BY <1>6, <2>1, <2>2 DEF Resolve
<1>7. CASE Enqueue(p)
  <2>1. /\ pc[p] = "enqueue" /\ m_TQMap' = m_TQMap /\ EndSend(p)
        /\ pc'[p] = AfterSend(p)
    BY <1>7 DEF Enqueue, mapVars, AfterSend, Home
  <2>2. QED
    BY <1>e, <2>1
<1>8. CASE UnlockMap(p)
  BY <1>8, <1>h DEF UnlockMap, SendOK
<1>9. CASE ReadMember(p)
  <2>0. /\ pc[p] = "member" /\ m_TQMap' = m_TQMap
        /\ call[p].msg \in Msg /\ call[p].msg.via = "member"
    BY <1>0, <1>9 DEF ReadMember, SendOK, mapVars
  <2>1. ASSUME SendFails(p, Home(p))
        PROVE  SendOK(p)'
    BY <1>h, <2>1 DEF SendFails, SendOK
  <2>2. ASSUME NEW d \in FDs, pc'[p] = "resolve",
               call' = [call EXCEPT ![p].fd = d, ![p].target = NoOne]
        PROVE  SendOK(p)'
    <3>1. call'[p].msg = call[p].msg /\ call'[p].fd = d
      BY <2>2 DEF Call
    <3>2. QED
      BY <2>0, <2>2, <3>1 DEF SendOK
  <2>3. call[p].target \in Tasks
    BY <1>0, <2>0 DEF SendOK
  <2>4. QED
    BY <1>9, <2>1, <2>2, <2>3 DEF ReadMember
<1>10. QED
  BY <1>1, <1>2, <1>3, <1>4, <1>5, <1>6, <1>7, <1>8, <1>9
  DEF SendAction, SendStep

(* Each step of a task leads to a place whose variables it has set. *)
LEMMA NextPhases == IInv /\ [Next]_vars => Phases'
<1> SUFFICES ASSUME IInv, [Next]_vars
             PROVE  Phases'
  OBVIOUS
<1> USE QueueAssumption DEF IInv, TypeOK, Phases, Opened, Forgotten, Hidden,
        Closing, Goto, Senders, CallPCs, TaskPCs
<1>1. ASSUME NEW p \in Senders, SendByName(p) \/ SendMember(p)
             \/ SendBroadcast(p)
      PROVE  Phases'
  BY <1>1 DEF SendByName, Ready, Allocate, SendMember, SendBroadcast,
         taskVars, mapVars, heapVars, senderVars
<1>2. ASSUME NEW p \in Senders, LockMap(p)
      PROVE  Phases'
  BY <1>2 DEF LockMap, Found, NotFound, FoundAll, SendFails, EndSend, NoCall,
         NoMsg, taskVars, mapVars, heapVars, senderVars
<1>3. ASSUME NEW p \in Senders, BroadcastNext(p)
      PROVE  Phases'
  <2>1. pc[p] = "next" /\ \E l \in {"resolve", "unlock"} :
          pc' = [pc EXCEPT ![p] = l]
    BY <1>3 DEF BroadcastNext
  <2>2. UNCHANGED <<m_QueueID, myQueue, m_TQMap, abandoned>>
    BY <1>3 DEF BroadcastNext, taskVars, mapVars
  <2>3. QED
    BY <2>1, <2>2
<1>4. ASSUME NEW p \in Senders, Resolve(p)
      PROVE  Phases'
  <2>1. /\ pc[p] \in CallPCs
        /\ \E l \in CallPCs \cup {Home(p)} : pc' = [pc EXCEPT ![p] = l]
    BY <1>4 DEF Resolve, SendFails, AfterSend
  <2>2. UNCHANGED <<m_QueueID, myQueue, m_TQMap, abandoned>>
    BY <1>4 DEF Resolve, taskVars, mapVars
  <2>3. QED
    BY <2>1, <2>2 DEF Home
<1>5. ASSUME NEW p \in Senders, Enqueue(p)
      PROVE  Phases'
  BY <1>5 DEF Enqueue, EndSend, AfterSend, Home, NoCall, NoMsg, taskVars,
         mapVars, heapVars, senderVars
<1>6. ASSUME NEW p \in Senders, UnlockMap(p) \/ ReadMember(p)
      PROVE  Phases'
  <2>1. /\ pc[p] \in CallPCs
        /\ \E l \in CallPCs \cup {Home(p)} : pc' = [pc EXCEPT ![p] = l]
    BY <1>6 DEF UnlockMap, ReadMember, SendFails
  <2>2. UNCHANGED <<m_QueueID, myQueue, m_TQMap, abandoned>>
    BY <1>6 DEF UnlockMap, ReadMember, taskVars, mapVars
  <2>3. QED
    BY <2>1, <2>2 DEF Home
<1>7. ASSUME NEW k \in Tasks, Start(k) \/ Stop(k)
      PROVE  Phases'
  BY <1>7 DEF Start, Stop, taskVars, mapVars, heapVars, senderVars
<1>8. ASSUME NEW k \in Tasks, OpenQueue(k)
      PROVE  Phases'
  BY <1>8 DEF OpenQueue, taskVars, mapVars, heapVars, senderVars
<1>9. ASSUME NEW k \in Tasks, OpenFails(k)
      PROVE  Phases'
  BY <1>9 DEF OpenFails, taskVars, mapVars, heapVars, senderVars
<1>10. ASSUME NEW k \in Tasks, Register(k)
      PROVE  Phases'
  BY <1>10 DEF Register, SetEntry, taskVars, mapVars, heapVars, senderVars
<1>21. ASSUME NEW k \in Tasks, InitFails(k)
      PROVE  Phases'
  BY <1>21 DEF InitFails, SetEntry, taskVars, mapVars, heapVars, senderVars
<1>11. ASSUME NEW k \in Tasks, Poll(k)
      PROVE  Phases'
  BY <1>11 DEF Poll, taskVars, mapVars, heapVars, senderVars
<1>12. ASSUME NEW k \in Tasks, Receive(k)
      PROVE  Phases'
  BY <1>12 DEF Receive, taskVars, mapVars, heapVars, senderVars
<1>13. ASSUME NEW k \in Tasks, CleanupMsg(k)
      PROVE  Phases'
  BY <1>13 DEF CleanupMsg, Cleanup, taskVars, mapVars, heapVars, senderVars
<1>14. ASSUME NEW k \in Tasks, Retract(k)
      PROVE  Phases'
  BY <1>14 DEF Retract, SetEntry, taskVars, mapVars, heapVars, senderVars
<1>15. ASSUME NEW k \in Tasks, Forget(k)
      PROVE  Phases'
  BY <1>15 DEF Forget, taskVars, mapVars, heapVars, senderVars
<1>16. ASSUME NEW k \in Tasks, DrainTest(k)
      PROVE  Phases'
  BY <1>16 DEF DrainTest, taskVars, mapVars, heapVars, senderVars
<1>17. ASSUME NEW k \in Tasks, CloseQueue(k)
      PROVE  Phases'
  BY <1>17 DEF CloseQueue, taskVars, mapVars, heapVars, senderVars
<1>18. ASSUME NEW k \in Tasks, Erase(k)
      PROVE  Phases'
  BY <1>18 DEF Erase, SetEntry, taskVars, mapVars, heapVars, senderVars
<1>19. CASE UNCHANGED vars
  BY <1>19 DEF vars, taskVars, mapVars, heapVars, senderVars
<1>20. QED
  BY <1>1, <1>2, <1>3, <1>4, <1>5, <1>6, <1>7, <1>8, <1>9, <1>10, <1>11,
     <1>12, <1>13, <1>14, <1>15, <1>16, <1>17, <1>18, <1>19, <1>21
  DEF Next, SendStep, TaskStep, SendAction, Senders

(* The mutex is taken when it is free, and given back by its owner. *)
LEMMA NextHeld == IInv /\ [Next]_vars => Held'
<1> SUFFICES ASSUME IInv, [Next]_vars
             PROVE  Held'
  OBVIOUS
<1> USE QueueAssumption DEF IInv, TypeOK, Phases, Held, InMap, Sends, Goto,
        Senders, CallPCs, TaskPCs
<1>1. ASSUME NEW p \in Senders, SendAction(p)
      PROVE  Held'
  <2>1. /\ \A o \in Senders \ {p} : pc'[o] = pc[o] /\ call'[o] = call[o]
        /\ SendOK(p) /\ SendOK(p)'
    BY <1>1, OthersStay, SenderOK
  <2>2. /\ InMap(p)' => m_mutexTQMap' = p
        /\ \/ m_mutexTQMap' = m_mutexTQMap
           \/ m_mutexTQMap = NoOne
           \/ m_mutexTQMap = p
    <3>1. CASE SendByName(p) \/ SendMember(p) \/ SendBroadcast(p)
      <4>1. CASE pc'[p] = "lock" /\ m_mutexTQMap' = m_mutexTQMap
        BY <4>1
      <4>2. CASE pc'[p] = "member" /\ m_mutexTQMap' = m_mutexTQMap
        BY <4>2
      <4>3. QED
        BY <3>1, <4>1, <4>2 DEF SendByName, SendBroadcast, SendMember, mapVars
    <3>2. CASE LockMap(p)
      BY <3>2 DEF LockMap
    <3>3. CASE BroadcastNext(p)
      BY <3>3 DEF BroadcastNext, mapVars
    <3>4. CASE Resolve(p) \/ Enqueue(p)
      <4>1. /\ pc[p] \in {"resolve", "enqueue"}
            /\ m_mutexTQMap' = m_mutexTQMap
        BY <3>4 DEF Resolve, Enqueue, mapVars
      <4>2. CASE EndSend(p) /\ pc'[p] = AfterSend(p)
        BY <4>1, <4>2 DEF AfterSend, Home
      <4>3. CASE /\ pc'[p] = "enqueue"
                 /\ call' = [call EXCEPT ![p].target = openOn[call[p].fd]]
        <5>1. call'[p].msg = call[p].msg
          BY <4>3 DEF Call
        <5>2. InMap(p)' => InMap(p)
          BY <4>1, <4>3, <5>1
        <5>3. QED
          BY <4>1, <5>2
      <4>4. QED
        BY <3>4, <4>2, <4>3 DEF Resolve, Enqueue, SendFails, AfterSend, Home
    <3>5. CASE UnlockMap(p)
      BY <3>5 DEF UnlockMap, Home
    <3>6. CASE ReadMember(p)
      <4>1. /\ m_mutexTQMap' = m_mutexTQMap /\ call[p].msg.via = "member"
            /\ call[p].target \in Tasks
        BY <2>1, <3>6 DEF ReadMember, mapVars, SendOK
      <4>2. CASE pc'[p] = Home(p)
        BY <4>1, <4>2 DEF Home
      <4>3. ASSUME NEW d \in FDs, pc'[p] = "resolve",
                   call' = [call EXCEPT ![p].fd = d, ![p].target = NoOne]
            PROVE  ~InMap(p)'
        <5>1. call'[p].msg = call[p].msg
          BY <4>3 DEF Call
        <5>2. QED
          BY <4>1, <4>3, <5>1
      <4>4. \/ pc'[p] = Home(p)
            \/ /\ m_QueueID[call[p].target] \in FDs /\ pc'[p] = "resolve"
               /\ call' = [call EXCEPT ![p].fd = m_QueueID[call[p].target],
                                       ![p].target = NoOne]
        <5>1. CASE m_QueueID[call[p].target] = NoFd
          BY <3>6, <5>1 DEF ReadMember, SendFails
        <5>2. CASE m_QueueID[call[p].target] # NoFd
          BY <3>6, <4>1, <5>2 DEF ReadMember
        <5>3. QED
          BY <5>1, <5>2
      <4>5. QED
        BY <4>1, <4>2, <4>3, <4>4
    <3>7. QED
      BY <1>1, <3>1, <3>2, <3>3, <3>4, <3>5, <3>6 DEF SendAction, SendStep
  <2>3. ASSUME NEW o \in Senders, InMap(o)'
        PROVE  m_mutexTQMap' = o
    <3>1. CASE o = p
      BY <2>2, <2>3, <3>1
    <3>2. CASE o # p
      <4>1. InMap(o)
        BY <2>1, <2>3, <3>2
      <4>2. QED
        BY <2>2, <3>2, <4>1
    <3>3. QED
      BY <3>1, <3>2
  <2>4. QED
    BY <2>3
<1>2. ASSUME NEW k \in Tasks, Start(k) \/ Stop(k) \/ Poll(k) \/ Receive(k)
             \/ CleanupMsg(k)
      PROVE  Held'
  BY <1>2 DEF Start, Stop, Poll, Receive, CleanupMsg, Cleanup,
         taskVars, mapVars, heapVars, senderVars
<1>3. ASSUME NEW k \in Tasks, OpenQueue(k) \/ OpenFails(k) \/ Forget(k)
             \/ DrainTest(k) \/ CloseQueue(k)
      PROVE  Held'
  BY <1>3 DEF OpenQueue, OpenFails, Forget, DrainTest, CloseQueue, taskVars,
         mapVars, heapVars, senderVars
<1>4. ASSUME NEW k \in Tasks, Register(k) \/ Retract(k) \/ Erase(k)
             \/ InitFails(k)
      PROVE  Held'
  BY <1>4 DEF Register, SetEntry, Retract, Erase, InitFails, taskVars,
         mapVars, heapVars, senderVars
<1>5. CASE UNCHANGED vars
  BY <1>5 DEF vars, taskVars, mapVars, heapVars, senderVars
<1>6. QED
  BY <1>1, <1>2, <1>3, <1>4, <1>5
  DEF Next, SendStep, TaskStep, SendAction, Senders

(* A descriptor is entered when it was just opened, and closed when nothing
   leads to it. *)
LEMMA NextMapNames == IInv /\ [Next]_vars => MapNamesOpenQueue'
<1> SUFFICES ASSUME IInv, [Next]_vars
             PROVE  MapNamesOpenQueue'
  OBVIOUS
<1> USE QueueAssumption DEF IInv, TypeOK, Phases, MapNamesOpenQueue, Opened,
        Forgotten, Hidden, Closing, CallPCs, Goto
<1>1. ASSUME NEW p \in Senders, SendAction(p)
      PROVE  MapNamesOpenQueue'
  BY <1>1, OthersStay DEF taskVars
<1>2. ASSUME NEW k \in Tasks, Start(k) \/ Stop(k) \/ Poll(k) \/ Receive(k)
             \/ CleanupMsg(k) \/ DrainTest(k)
      PROVE  MapNamesOpenQueue'
  BY <1>2 DEF Start, Stop, Poll, Receive, CleanupMsg, Cleanup,
         DrainTest, taskVars, mapVars, heapVars, senderVars
<1>3. ASSUME NEW k \in Tasks, OpenQueue(k)
      PROVE  MapNamesOpenQueue'
  BY <1>3 DEF OpenQueue, taskVars, mapVars, heapVars, senderVars
<1>4. ASSUME NEW k \in Tasks, OpenFails(k)
      PROVE  MapNamesOpenQueue'
  BY <1>4 DEF OpenFails, taskVars, mapVars, heapVars, senderVars
<1>5. ASSUME NEW k \in Tasks, Register(k) \/ InitFails(k)
      PROVE  MapNamesOpenQueue'
  BY <1>5
  DEF Register, InitFails, SetEntry, taskVars, mapVars, heapVars, senderVars
<1>6. ASSUME NEW k \in Tasks, Retract(k)
      PROVE  MapNamesOpenQueue'
  BY <1>6 DEF Retract, SetEntry, taskVars, mapVars, heapVars, senderVars
<1>7. ASSUME NEW k \in Tasks, Forget(k)
      PROVE  MapNamesOpenQueue'
  BY <1>7 DEF Forget, taskVars, mapVars, heapVars, senderVars
<1>8. ASSUME NEW k \in Tasks, CloseQueue(k)
      PROVE  MapNamesOpenQueue'
  <2>1. /\ pc[k] = "close" /\ myQueue[k] \in FDs /\ openOn[myQueue[k]] = k
        /\ m_TQMap[k] \notin FDs /\ m_QueueID[k] = NoFd
    BY <1>8 DEF CloseQueue, TaskPCs
  <2>2. \A o \in Tasks \ {k} : /\ m_TQMap[o] # myQueue[k]
                               /\ m_QueueID[o] # myQueue[k]
                               /\ myQueue[o] # myQueue[k]
    BY <2>1
  <2>3. QED
    BY <1>8, <2>1, <2>2 DEF CloseQueue, mapVars
<1>9. ASSUME NEW k \in Tasks, Erase(k)
      PROVE  MapNamesOpenQueue'
  BY <1>9 DEF Erase, SetEntry, taskVars, mapVars, heapVars, senderVars
<1>10. CASE UNCHANGED vars
  BY <1>10 DEF vars, taskVars, mapVars, heapVars, senderVars
<1>11. QED
  BY <1>1, <1>2, <1>3, <1>4, <1>5, <1>6, <1>7, <1>8, <1>9, <1>10
  DEF Next, SendStep, TaskStep, SendAction, Senders

(* Nobody writes the map while a send through it has the mutex. *)
LEMMA NextSends == IInv /\ [Next]_vars => Sends'
<1> SUFFICES ASSUME IInv, [Next]_vars
             PROVE  Sends'
  OBVIOUS
<1> USE QueueAssumption DEF IInv, TypeOK, Phases, Held, InMap, Sends, SendOK,
        MapNamesOpenQueue, Msg, Call, Goto, Senders, CallPCs, TaskPCs
<1>1. ASSUME NEW p \in Senders, SendAction(p)
      PROVE  Sends'
  <2>1. ASSUME NEW o \in Senders \ {p}
        PROVE  SendOK(o)'
    <3>1. pc'[o] = pc[o] /\ call'[o] = call[o] /\ m_TQMap' = m_TQMap
      BY <1>1, OthersStay
    <3>2. SendOK(o)
      OBVIOUS
    <3>3. QED
      BY <3>1, <3>2
  <2>2. SendOK(p)'
    BY <1>1, SenderOK
  <2>3. QED
    BY <2>1, <2>2
<1>2. ASSUME NEW k \in Tasks, Start(k) \/ Stop(k) \/ Poll(k) \/ Receive(k)
             \/ CleanupMsg(k)
      PROVE  Sends'
  BY <1>2 DEF Start, Stop, Poll, Receive, CleanupMsg, Cleanup,
         taskVars, mapVars, heapVars, senderVars
<1>3. ASSUME NEW k \in Tasks, OpenQueue(k) \/ OpenFails(k) \/ Forget(k)
             \/ DrainTest(k) \/ CloseQueue(k)
      PROVE  Sends'
  BY <1>3 DEF OpenQueue, OpenFails, Forget, DrainTest, CloseQueue, taskVars,
         mapVars, heapVars, senderVars
<1>4. ASSUME NEW k \in Tasks, Register(k) \/ InitFails(k)
      PROVE  Sends'
  BY <1>4
  DEF Register, InitFails, SetEntry, taskVars, mapVars, heapVars, senderVars
<1>5. ASSUME NEW k \in Tasks, Retract(k)
      PROVE  Sends'
  BY <1>5 DEF Retract, SetEntry, taskVars, mapVars, heapVars, senderVars
<1>6. ASSUME NEW k \in Tasks, Erase(k)
      PROVE  Sends'
  BY <1>6 DEF Erase, SetEntry, taskVars, mapVars, heapVars, senderVars
<1>7. CASE UNCHANGED vars
  BY <1>7 DEF vars, taskVars, mapVars, heapVars, senderVars
<1> HIDE DEF IInv, TypeOK, Phases, Held, Sends, SendOK, MapNamesOpenQueue
<1>8. QED
  BY <1>1, <1>2, <1>3, <1>4, <1>5, <1>6, <1>7
  DEF Next, SendStep, TaskStep, SendAction, Senders

(* A message that is sent is a message, and goes to a task's queue. *)
LEMMA Enqueued ==
  ASSUME TypeOK, Sends, NEW p \in Senders, Enqueue(p)
  PROVE  LET t == call[p].target
             m == call[p].msg
         IN  /\ m \in Msg /\ t \in Tasks
             /\ m.via # "member" => m_TQMap[t] \in FDs
             /\ m.via = "name" => m.to = t
             /\ queue'[t] \in Seq(Msg) /\ Len(queue'[t]) <= QCap
             /\ \A i \in 1..Len(queue'[t]) :
                  \/ queue'[t][i] = m
                  \/ i \in 1..Len(queue[t]) /\ queue'[t][i] = queue[t][i]
             /\ queue' = [queue EXCEPT ![t] = queue'[t]]
<1> DEFINE t == call[p].target
           m == call[p].msg
           q == queue[t]
<1>1. /\ m \in Msg /\ t \in Tasks
      /\ m.via # "member" => m_TQMap[t] \in FDs
      /\ m.via = "name" => m.to = t
  BY DEF Sends, SendOK, Enqueue
<1>2. q \in Seq(Msg) /\ Len(q) < QCap /\ Len(q) <= QCap
  BY <1>1, LenProperties, QueueAssumption DEF TypeOK, Enqueue
<1>3. queue' = [queue EXCEPT ![t] = Append(q, m)]
  BY DEF Enqueue
<1>4. queue'[t] = Append(q, m)
  BY <1>1, <1>3 DEF TypeOK
<1>5. /\ Append(q, m) \in Seq(Msg) /\ Len(Append(q, m)) <= QCap
      /\ Len(Append(q, m)) = Len(q) + 1
      /\ Append(q, m)[Len(q) + 1] = m
      /\ \A i \in 1..Len(q) : Append(q, m)[i] = q[i]
  BY <1>1, <1>2, QueueSteps
<1>6. \A i \in 1..Len(Append(q, m)) :
        Append(q, m)[i] = m \/ (i \in 1..Len(q) /\ Append(q, m)[i] = q[i])
  BY <1>2, <1>5, LenProperties
<1>7. QED
  BY <1>1, <1>3, <1>4, <1>5, <1>6

(* A task receives the first message of its own queue. *)
LEMMA Received ==
  ASSUME TypeOK, Phases, MapNamesOpenQueue, NEW k \in Tasks, Receive(k)
  PROVE  \/ UNCHANGED <<m_TaskMsg, queue>>
         \/ /\ Len(queue[k]) >= 1 /\ queue[k][1] \in Msg
            /\ m_TaskMsg' = [m_TaskMsg EXCEPT ![k] = queue[k][1]]
            /\ queue' = [queue EXCEPT ![k] = queue'[k]]
            /\ queue'[k] \in Seq(Msg) /\ Len(queue'[k]) <= QCap
            /\ \A i \in 1..Len(queue'[k]) :
                 i + 1 \in 1..Len(queue[k]) /\ queue'[k][i] = queue[k][i + 1]
<1>1. openOn[m_QueueID[k]] = k
  BY DEF Receive, Phases, Opened, MapNamesOpenQueue
<1>2. queue[k] \in Seq(Msg) /\ Len(queue[k]) <= QCap
  BY DEF TypeOK
<1>3. CASE queue[k] = <<>>
  BY <1>1, <1>3 DEF Receive
<1>4. CASE queue[k] # <<>>
  <2>1. /\ m_TaskMsg' = [m_TaskMsg EXCEPT ![k] = Head(queue[k])]
        /\ queue' = [queue EXCEPT ![k] = Tail(queue[k])]
    BY <1>1, <1>4 DEF Receive
  <2>2. queue'[k] = Tail(queue[k])
    BY <2>1 DEF TypeOK
  <2>3. /\ Head(queue[k]) \in Msg /\ Head(queue[k]) = queue[k][1]
        /\ 1 \in 1..Len(queue[k])
        /\ Tail(queue[k]) \in Seq(Msg) /\ Len(Tail(queue[k])) <= QCap
        /\ \A i \in 1..Len(Tail(queue[k])) :
             Tail(queue[k])[i] = queue[k][i + 1] /\ i + 1 \in 1..Len(queue[k])
    BY <1>2, <1>4, QueueSteps
  <2>4. Len(queue[k]) >= 1
    BY <1>2, <2>3, LenProperties
  <2>5. QED
    BY <2>1, <2>2, <2>3, <2>4
<1>5. QED
  BY <1>3, <1>4

(* The variables keep their types, and no queue grows past its size. *)
LEMMA NextTypeOK == IInv /\ [Next]_vars => TypeOK'
<1> SUFFICES ASSUME IInv, [Next]_vars
             PROVE  TypeOK'
  OBVIOUS
<1> USE QueueAssumption DEF IInv, TypeOK, Goto, Senders, CallPCs, TaskPCs
<1>1. ASSUME NEW p \in Senders, SendAction(p)
      PROVE  TypeOK'
  <2>1. call' \in [Senders -> Call]
    <3>1. PICK c \in Call : call' = [call EXCEPT ![p] = c]
      BY <1>1, OwnCall
    <3>2. QED
      BY <3>1
  <2>2. pc' \in [Senders -> CallPCs \cup TaskPCs \cup {"idle"}]
    <3>1. \E l \in CallPCs \cup {"idle", "cleanup"} :
            pc' = [pc EXCEPT ![p] = l]
      BY <1>1
      DEF SendAction, SendByName, SendMember, SendBroadcast, SendStep,
          LockMap, ReadMember, Found, NotFound, FoundAll, BroadcastNext,
          Resolve, Enqueue, UnlockMap, SendFails, AfterSend, Home
    <3>2. QED
      BY <3>1
  <2>3. m_mutexTQMap' \in Senders \cup {NoOne}
    BY <1>1
    DEF SendAction, SendByName, SendMember, SendBroadcast, SendStep, LockMap,
        ReadMember, BroadcastNext, Resolve, Enqueue, UnlockMap, mapVars
  <2>4. /\ live' \subseteq Bufs /\ freed' \subseteq Bufs
        /\ lost' \subseteq Bufs /\ abandoned' = abandoned
    <3>1. \/ UNCHANGED heapVars
          \/ /\ UNCHANGED <<live, freed>>
             /\ lost' \in {lost, lost \cup ({call[p].msg.buf} \ {NoBuf})}
          \/ \E b \in Bufs \cup {NoBuf} : Allocate(b)
      BY <1>1
      DEF SendAction, SendByName, SendMember, SendBroadcast, SendStep,
          LockMap, ReadMember, Found, NotFound, FoundAll, BroadcastNext,
          Resolve, Enqueue, UnlockMap, SendFails, Fresh
    <3>2. call[p].msg.buf \in Bufs \cup {NoBuf}
      BY DEF Call, Msg, NoMsg
    <3>3. abandoned' = abandoned
      BY <1>1 DEF SendAction, SendByName, SendMember, SendBroadcast, SendStep,
         LockMap, ReadMember, BroadcastNext, Resolve, Enqueue, UnlockMap
    <3>4. QED
      BY <3>1, <3>2, <3>3 DEF heapVars, Allocate
  <2>5. /\ queue' \in [Tasks -> Seq(Msg)]
        /\ \A k \in Tasks : Len(queue'[k]) <= QCap
    <3>1. CASE queue' = queue
      BY <3>1
    <3>2. CASE queue' # queue
      <4>1. Enqueue(p)
        BY <1>1, <3>2, OthersStay
      <4>2. /\ call[p].target \in Tasks
            /\ queue'[call[p].target] \in Seq(Msg)
            /\ Len(queue'[call[p].target]) <= QCap
            /\ queue' =
                 [queue EXCEPT ![call[p].target] = queue'[call[p].target]]
        BY <4>1, Enqueued
      <4>3. QED
        BY <4>2
    <3>3. QED
      BY <3>1, <3>2
  <2>6. QED
    BY <1>1, <2>1, <2>2, <2>3, <2>4, <2>5, OthersStay DEF taskVars
<1>2. ASSUME NEW k \in Tasks, Start(k) \/ Stop(k) \/ Poll(k)
             \/ DrainTest(k)
      PROVE  TypeOK'
  <2>1. /\ m_bTaskRunning' \in [Tasks -> BOOLEAN]
        /\ abandoned' \subseteq Tasks
    BY <1>2 DEF Start, Stop, Poll, DrainTest
  <2>2. pc' \in [Senders -> CallPCs \cup TaskPCs \cup {"idle"}]
    BY <1>2 DEF Start, Stop, Poll, DrainTest
  <2>3. UNCHANGED <<taskVars, mapVars, openOn, queue, senderVars>>
    BY <1>2 DEF Start, Stop, Poll, DrainTest
  <2>4. QED
    BY <2>1, <2>2, <2>3 DEF taskVars, mapVars, senderVars
<1>3. ASSUME NEW k \in Tasks, OpenQueue(k)
      PROVE  TypeOK'
  <2>1. PICK d \in FDs : /\ openOn' = [openOn EXCEPT ![d] = k]
                         /\ m_QueueID' = [m_QueueID EXCEPT ![k] = d]
    BY <1>3 DEF OpenQueue
  <2>2. /\ m_QueueID' \in [Tasks -> FDs \cup {NoFd}]
        /\ openOn' \in [FDs -> Tasks \cup {NoOne}]
    BY <2>1
  <2>3. /\ pc' \in [Senders -> CallPCs \cup TaskPCs \cup {"idle"}]
        /\ UNCHANGED <<m_bTaskRunning, myQueue, m_TaskMsg, mapVars, queue,
                       abandoned, senderVars>>
    BY <1>3 DEF OpenQueue
  <2>4. QED
    BY <2>2, <2>3 DEF mapVars, senderVars
<1>4. ASSUME NEW k \in Tasks, OpenFails(k)
      PROVE  TypeOK'
  BY <1>4 DEF OpenFails, taskVars, mapVars, heapVars, senderVars
<1>5. ASSUME NEW k \in Tasks, Register(k) \/ InitFails(k)
      PROVE  TypeOK'
  <2>1. m_QueueID[k] \in FDs
    BY <1>5 DEF Register, InitFails, Phases, Opened
  <2>2. /\ m_TQMap' \in [Tasks -> FDs \cup {Null, Absent}]
        /\ abandoned' \subseteq Tasks
    BY <1>5, <2>1 DEF Register, InitFails, SetEntry
  <2>3. pc' \in [Senders -> CallPCs \cup TaskPCs \cup {"idle"}]
    BY <1>5 DEF Register, InitFails
  <2>4. UNCHANGED <<m_bTaskRunning, taskVars, m_mutexTQMap, openOn, queue,
                    senderVars>>
    BY <1>5 DEF Register, InitFails, SetEntry
  <2>5. QED
    BY <2>2, <2>3, <2>4 DEF taskVars, senderVars
<1>6. ASSUME NEW k \in Tasks, Receive(k)
      PROVE  TypeOK'
  <2>1. /\ m_TaskMsg' \in [Tasks -> Msg \cup {NoMsg}]
        /\ queue' \in [Tasks -> Seq(Msg)]
        /\ \A t \in Tasks : Len(queue'[t]) <= QCap
    <3>1. CASE UNCHANGED <<m_TaskMsg, queue>>
      BY <3>1
    <3>2. CASE /\ queue[k][1] \in Msg
               /\ m_TaskMsg' = [m_TaskMsg EXCEPT ![k] = queue[k][1]]
               /\ queue' = [queue EXCEPT ![k] = queue'[k]]
               /\ queue'[k] \in Seq(Msg) /\ Len(queue'[k]) <= QCap
      BY <3>2
    <3> HIDE DEF TypeOK, Phases, MapNamesOpenQueue, Msg, NoMsg
    <3>3. QED
      BY <1>6, <3>1, <3>2, Received
  <2>2. /\ pc' \in [Senders -> CallPCs \cup TaskPCs \cup {"idle"}]
        /\ UNCHANGED <<m_bTaskRunning, m_QueueID, myQueue, mapVars, openOn,
                       abandoned, senderVars>>
    BY <1>6 DEF Receive
  <2>3. QED
    BY <2>1, <2>2 DEF mapVars, senderVars
<1>7. ASSUME NEW k \in Tasks, CleanupMsg(k)
      PROVE  TypeOK'
  <2>1. m_TaskMsg[k].buf \in Bufs \cup {NoBuf}
    BY DEF Msg, NoMsg
  <2>2. QED
    BY <1>7, <2>1 DEF CleanupMsg, Cleanup, mapVars
<1>8. ASSUME NEW k \in Tasks, Retract(k)
      PROVE  TypeOK'
  BY <1>8 DEF Retract, SetEntry, taskVars, mapVars, heapVars, senderVars
<1>9. ASSUME NEW k \in Tasks, Forget(k) \/ CloseQueue(k) \/ Erase(k)
      PROVE  TypeOK'
  <2>1. CASE Forget(k)
    BY <2>1 DEF Forget, taskVars, mapVars, heapVars, senderVars
  <2>2. CASE CloseQueue(k)
    BY <2>2 DEF CloseQueue, taskVars, mapVars, heapVars, senderVars
  <2>3. CASE Erase(k)
    BY <2>3 DEF Erase, SetEntry, taskVars, mapVars, heapVars, senderVars
  <2>4. QED
    BY <1>9, <2>1, <2>2, <2>3
<1>10. CASE UNCHANGED vars
  BY <1>10 DEF vars, taskVars, mapVars, heapVars, senderVars
<1>11. QED
  BY <1>1, <1>2, <1>3, <1>4, <1>5, <1>6, <1>7, <1>8, <1>9, <1>10
  DEF Next, SendStep, TaskStep, SendAction, Senders

(* A message by name is put into the queue of its name, and a task takes from
   its own. *)
LEMMA NextArrives == IInv /\ [Next]_vars => NamedArrivesWhereSent'
<1> SUFFICES ASSUME IInv, [Next]_vars
             PROVE  NamedArrivesWhereSent'
  OBVIOUS
<1> USE QueueAssumption DEF IInv, NamedArrivesWhereSent
<1>1. ASSUME NEW p \in Senders, SendAction(p)
      PROVE  NamedArrivesWhereSent'
  <2>1. m_TaskMsg' = m_TaskMsg
    BY <1>1, OthersStay DEF taskVars
  <2>2. CASE queue' = queue
    BY <2>1, <2>2
  <2>3. CASE Enqueue(p)
    <3> DEFINE t == call[p].target
    <3>1. /\ t \in Tasks
          /\ call[p].msg.via = "name" => call[p].msg.to = t
          /\ \A i \in 1..Len(queue'[t]) :
               queue'[t][i] = call[p].msg
                 \/ (i \in 1..Len(queue[t]) /\ queue'[t][i] = queue[t][i])
          /\ queue' = [queue EXCEPT ![t] = queue'[t]]
      BY <2>3, Enqueued
    <3>2. \A k \in Tasks \ {t} : queue'[k] = queue[k]
      BY <3>1 DEF TypeOK
    <3>3. \A i \in 1..Len(queue'[t]) :
            queue'[t][i].via = "name" => queue'[t][i].to = t
      BY <3>1
    <3> HIDE DEF t
    <3>4. QED
      BY <2>1, <3>2, <3>3
  <2>4. QED
    BY <1>1, <2>2, <2>3, OthersStay
<1>2. ASSUME NEW k \in Tasks, Start(k) \/ Stop(k) \/ Poll(k)
             \/ DrainTest(k) \/ OpenQueue(k)
             \/ OpenFails(k) \/ Register(k) \/ InitFails(k) \/ Retract(k)
             \/ Forget(k) \/ CloseQueue(k) \/ Erase(k)
      PROVE  NamedArrivesWhereSent'
  BY <1>2
  DEF Start, Stop, Poll, DrainTest, OpenQueue, OpenFails, Register, InitFails,
      SetEntry, Retract, Forget, CloseQueue, Erase, taskVars, mapVars,
      heapVars, senderVars
<1>3. ASSUME NEW k \in Tasks, CleanupMsg(k)
      PROVE  NamedArrivesWhereSent'
  BY <1>3 DEF CleanupMsg, NoMsg, TypeOK
<1>4. ASSUME NEW k \in Tasks, Receive(k)
      PROVE  NamedArrivesWhereSent'
  <2>1. CASE UNCHANGED <<m_TaskMsg, queue>>
    BY <2>1
  <2>2. CASE /\ Len(queue[k]) >= 1 /\ queue[k][1] \in Msg
             /\ m_TaskMsg' = [m_TaskMsg EXCEPT ![k] = queue[k][1]]
             /\ queue' = [queue EXCEPT ![k] = queue'[k]]
             /\ \A i \in 1..Len(queue'[k]) :
                  i + 1 \in 1..Len(queue[k]) /\ queue'[k][i] = queue[k][i + 1]
    <3>1. \A o \in Tasks \ {k} : /\ queue'[o] = queue[o]
                                 /\ m_TaskMsg'[o] = m_TaskMsg[o]
      BY <2>2 DEF TypeOK
    <3>2. ASSUME NEW i \in 1..Len(queue'[k]), queue'[k][i].via = "name"
          PROVE  queue'[k][i].to = k
      <4>1. i + 1 \in 1..Len(queue[k]) /\ queue'[k][i] = queue[k][i + 1]
        BY <2>2
      <4>2. queue[k][i + 1].via = "name" => queue[k][i + 1].to = k
        BY <4>1
      <4>3. QED
        BY <3>2, <4>1, <4>2
    <3>3. m_TaskMsg'[k] = queue[k][1] /\ 1 \in 1..Len(queue[k])
      BY <2>2, LenProperties DEF TypeOK
    <3>4. QED
      BY <3>1, <3>2, <3>3
  <2>3. QED
    BY <1>4, <2>1, <2>2, Received
<1>5. CASE UNCHANGED vars
  BY <1>5 DEF vars, taskVars, mapVars, heapVars, senderVars
<1>6. QED
  BY <1>1, <1>2, <1>3, <1>4, <1>5
  DEF Next, SendStep, TaskStep, SendAction, Senders

(* Nothing is added through the map to a queue that is not in it. *)
LEMMA NextNothingLeft == IInv /\ [Next]_vars => NothingLeftThroughMap'
<1> SUFFICES ASSUME IInv, [Next]_vars
             PROVE  NothingLeftThroughMap'
  OBVIOUS
<1> USE QueueAssumption DEF IInv, NothingLeftThroughMap, Goto
<1>1. ASSUME NEW p \in Senders, SendAction(p)
      PROVE  NothingLeftThroughMap'
  <2> DEFINE Ended == {"close", "erase", "off", "open", "register"}
  <2>1. \A k \in Tasks : pc'[k] \in Ended => pc[k] \in Ended /\ k # p
    BY <1>1, OthersStay DEF Senders, Home, CallPCs
  <2>0. abandoned' = abandoned
    BY <1>1 DEF SendAction, SendByName, SendMember, SendBroadcast, SendStep,
       LockMap, ReadMember, BroadcastNext, Resolve, Enqueue, UnlockMap
  <2>2. CASE queue' = queue
    BY <2>0, <2>1, <2>2
  <2>3. CASE Enqueue(p)
    <3> DEFINE t == call[p].target
    <3>1. /\ t \in Tasks
          /\ call[p].msg \in Msg
          /\ call[p].msg.via # "member" => m_TQMap[t] \in FDs
          /\ \A i \in 1..Len(queue'[t]) :
               queue'[t][i] = call[p].msg
                 \/ (i \in 1..Len(queue[t]) /\ queue'[t][i] = queue[t][i])
          /\ queue' = [queue EXCEPT ![t] = queue'[t]]
      BY <2>3, Enqueued
    <3>2. \A k \in Tasks \ {t} : queue'[k] = queue[k]
      BY <3>1 DEF TypeOK
    <3>3. pc[t] \in Ended /\ t \notin abandoned => call[p].msg.via = "member"
      BY <3>1 DEF Phases, Hidden
    <3>4. ASSUME NEW k \in Tasks \ abandoned, pc[k] \in Ended
          PROVE  \A i \in 1..Len(queue'[k]) : queue'[k][i].via = "member"
      <4>1. CASE k = t
        BY <3>1, <3>3, <3>4, <4>1
      <4>2. CASE k # t
        BY <3>2, <3>4, <4>2
      <4>3. QED
        BY <4>1, <4>2
    <3> HIDE DEF t
    <3>5. QED
      BY <2>0, <2>1, <3>4
  <2>4. QED
    BY <1>1, <2>2, <2>3, OthersStay
<1>2. ASSUME NEW k \in Tasks, Start(k) \/ Stop(k) \/ Poll(k)
             \/ OpenQueue(k) \/ OpenFails(k)
             \/ Register(k) \/ InitFails(k) \/ CleanupMsg(k) \/ Retract(k)
             \/ Forget(k) \/ CloseQueue(k) \/ Erase(k)
      PROVE  NothingLeftThroughMap'
  <2> DEFINE Ended == {"close", "erase", "off", "open", "register"}
  <2>1. queue' = queue
    BY <1>2 DEF Start, Stop, Poll, OpenQueue, OpenFails, Register, InitFails,
       CleanupMsg, Retract, Forget, CloseQueue, Erase
  <2>2. \A o \in Tasks : pc'[o] \in Ended => pc[o] \in Ended
    BY <1>2 DEF Start, Stop, Poll, OpenQueue, OpenFails, Register, InitFails,
       CleanupMsg, Retract, Forget, CloseQueue, Erase, TypeOK, Senders
  <2>3. abandoned \subseteq abandoned'
    BY <1>2 DEF Start, Stop, Poll, OpenQueue, OpenFails, Register, InitFails,
       CleanupMsg, Retract, Forget, CloseQueue, Erase
  <2>4. QED
    BY <2>1, <2>2, <2>3
<1>3. ASSUME NEW k \in Tasks, DrainTest(k)
      PROVE  NothingLeftThroughMap'
  <2>1. queue[k] = <<>>
    BY <1>3 DEF DrainTest, Phases, Closing, MapNamesOpenQueue
  <2>2. Len(queue[k]) = 0
    BY <2>1
  <2>3. \A o \in Tasks \ {k} : /\ pc'[o] = pc[o]
                               /\ o \in abandoned' <=> o \in abandoned
    BY <1>3 DEF DrainTest, TypeOK, Senders
  <2>4. queue' = queue
    BY <1>3 DEF DrainTest
  <2>5. QED
    BY <2>2, <2>3, <2>4
<1>4. ASSUME NEW k \in Tasks, Receive(k)
      PROVE  NothingLeftThroughMap'
  <2>1. pc'[k] \in {"handle", "loop"}
    BY <1>4 DEF Receive, TypeOK, Senders
  <2>2. \A o \in Tasks \ {k} : queue'[o] = queue[o]
    <3>1. queue' = queue \/ queue' = [queue EXCEPT ![k] = queue'[k]]
      BY <1>4, Received
    <3>2. QED
      BY <3>1 DEF TypeOK
  <2>3. /\ \A o \in Tasks \ {k} : pc'[o] = pc[o]
        /\ abandoned' = abandoned
    BY <1>4 DEF Receive, TypeOK, Senders
  <2>4. QED
    BY <2>1, <2>2, <2>3
<1>5. CASE UNCHANGED vars
  BY <1>5 DEF vars, taskVars, mapVars, heapVars, senderVars
<1>6. QED
  BY <1>1, <1>2, <1>3, <1>4, <1>5
  DEF Next, SendStep, TaskStep, SendAction, Senders

(* Every part of the invariant holds after every step. *)
LEMMA Invariance == Spec => []IInv
<1>1. Init => IInv
  BY InitIInv
<1>2. IInv /\ [Next]_vars => IInv'
  BY NextTypeOK, NextPhases, NextHeld, NextSends, NextMapNames, NextArrives,
     NextNothingLeft DEF IInv
<1>3. QED
  BY <1>1, <1>2, PTL DEF Spec

(* The variables keep their types, and a queue never holds more messages than
   it was created for, however many senders wait for room in it. *)
THEOREM TypeCorrect == Spec => []TypeOK
<1>1. IInv => TypeOK
  BY DEF IInv
<1>2. QED
  BY <1>1, Invariance, PTL

(* Whoever finds a descriptor in the map, or in a task, finds it open on the
   queue of that task: Run nulls the entry and the member before it closes the
   queue, and mq_open hands out only numbers that are closed. *)
THEOREM MapNamesSafe == Spec => []MapNamesOpenQueue
<1>1. IInv => MapNamesOpenQueue
  BY DEF IInv
<1>2. QED
  BY <1>1, Invariance, PTL

(* A message sent by name reaches the task of that name and no other, because
   SendMessage keeps the map's mutex from the look-up to the end of mq_send. *)
THEOREM NamedSafe == Spec => []NamedArrivesWhereSent
<1>1. IInv => NamedArrivesWhereSent
  BY DEF IInv
<1>2. QED
  BY <1>1, Invariance, PTL

(* What a task leaves in its queue when it ends was sent through its object:
   its entry is gone when it tests the queue, and no send through the map is
   under way then.  A task whose Init failed after it registered the queue has
   not tested it, and is excepted until a later incarnation does. *)
THEOREM NothingLeftSafe == Spec => []NothingLeftThroughMap
<1>1. IInv => NothingLeftThroughMap
  BY DEF IInv
<1>2. QED
  BY <1>1, Invariance, PTL

-----------------------------------------------------------------------------
(* What never ends *)

(* Threads of which each is in the clean-up loop with messages pending, or
   waits for room in the queue of another one of them. *)
Stuck(S) ==
  \A p \in S : \/ p \in Tasks /\ DrainPending(p)
               \/ Blocked(p) /\ call[p].target \in S

(* What a stuck thread waits for. *)
LEMMA StuckWaits ==
  ASSUME NEW S \in SUBSET Senders, IInv, Stuck(S)
  PROVE  /\ \A p \in S : pc[p] \in {"drain", "enqueue"}
         /\ \A p \in S : pc[p] = "drain" =>
              /\ p \in Tasks /\ myQueue[p] \in FDs
              /\ openOn[myQueue[p]] = p /\ queue[p] # <<>>
         /\ \A p \in S : pc[p] = "enqueue" =>
              /\ call[p].target \in S \cap Tasks
              /\ Len(queue[call[p].target]) = QCap
<1> USE QueueAssumption DEF IInv
<1>1. \A p \in S : pc[p] \in {"drain", "enqueue"}
  BY DEF Stuck, DrainPending, Blocked
<1>2. ASSUME NEW p \in S, pc[p] = "drain"
      PROVE  /\ p \in Tasks /\ myQueue[p] \in FDs
             /\ openOn[myQueue[p]] = p /\ queue[p] # <<>>
  <2>1. p \in Tasks /\ DrainPending(p)
    BY <1>2 DEF Stuck, Blocked
  <2>2. QED
    BY <2>1 DEF DrainPending, Phases, Closing, MapNamesOpenQueue, TypeOK
<1>3. ASSUME NEW p \in S, pc[p] = "enqueue"
      PROVE  /\ call[p].target \in S \cap Tasks
             /\ Len(queue[call[p].target]) = QCap
  BY <1>3 DEF Stuck, DrainPending, Blocked, Sends, SendOK
<1>4. QED
  BY <1>1, <1>2, <1>3

(* A stuck thread rests, and nobody takes a message from its queue. *)
LEMMA StuckRests ==
  ASSUME NEW S \in SUBSET Senders, IInv, Stuck(S), [Next]_vars
  PROVE  /\ \A p \in S : pc'[p] = pc[p] /\ call'[p] = call[p]
         /\ \A k \in S \cap Tasks : /\ myQueue'[k] = myQueue[k]
                                    /\ queue[k] # <<>> => queue'[k] # <<>>
                                    /\ Len(queue[k]) = QCap =>
                                         queue'[k] = queue[k]
         /\ \A k \in S \cap Tasks : pc[k] = "drain" =>
              openOn'[myQueue[k]] = openOn[myQueue[k]]
<1> USE QueueAssumption DEF IInv
<1>1. /\ \A p \in S : pc[p] \in {"drain", "enqueue"}
      /\ \A p \in S : pc[p] = "drain" =>
           /\ p \in Tasks /\ myQueue[p] \in FDs
           /\ openOn[myQueue[p]] = p /\ queue[p] # <<>>
      /\ \A p \in S : pc[p] = "enqueue" =>
           /\ call[p].target \in S \cap Tasks
           /\ Len(queue[call[p].target]) = QCap
  BY StuckWaits
<1>2. ASSUME NEW p \in Senders, SendAction(p)
      PROVE  /\ \A o \in S : pc'[o] = pc[o] /\ call'[o] = call[o]
             /\ \A k \in S \cap Tasks : /\ myQueue'[k] = myQueue[k]
                                        /\ queue[k] # <<>> => queue'[k] # <<>>
                                        /\ Len(queue[k]) = QCap =>
                                             queue'[k] = queue[k]
             /\ openOn' = openOn
  <2>1. p \notin S
    <3>1. pc[p] # "drain"
      BY <1>2 DEF SendAction, SendByName, SendMember, SendBroadcast, SendStep,
         LockMap, ReadMember, BroadcastNext, Resolve, Enqueue, UnlockMap, Ready
    <3>2. pc[p] = "enqueue" => Enqueue(p) /\ Len(queue[call[p].target]) < QCap
      BY <1>2 DEF SendAction, SendByName, SendMember, SendBroadcast, SendStep,
         LockMap, ReadMember, BroadcastNext, Resolve, Enqueue, UnlockMap, Ready
    <3>3. QED
      BY <1>1, <3>1, <3>2
  <2>2. /\ \A o \in S : pc'[o] = pc[o] /\ call'[o] = call[o]
        /\ UNCHANGED <<myQueue, openOn>>
    BY <1>2, <2>1, OthersStay DEF taskVars
  <2>3. ASSUME NEW k \in Tasks
        PROVE  /\ queue[k] # <<>> => queue'[k] # <<>>
               /\ Len(queue[k]) = QCap => queue'[k] = queue[k]
    <3>1. CASE queue' = queue
      BY <3>1
    <3>2. CASE Enqueue(p)
      <4>1. PICK t \in Tasks, m \in Msg :
              /\ Len(queue[t]) < QCap
              /\ queue' = [queue EXCEPT ![t] = Append(queue[t], m)]
        BY <3>2, Enqueued DEF Enqueue
      <4>2. queue[t] \in Seq(Msg)
        BY DEF TypeOK
      <4>3. Append(queue[t], m) # <<>>
        BY <4>2, AppendProperties
      <4>4. QED
        BY <4>1, <4>3 DEF TypeOK
    <3>3. QED
      BY <1>2, <3>1, <3>2, OthersStay
  <2>4. QED
    BY <2>2, <2>3
<1>3. ASSUME NEW k \in Tasks, Start(k) \/ Stop(k) \/ Poll(k) \/ Receive(k)
             \/ CleanupMsg(k) \/ DrainTest(k)
             \/ OpenQueue(k) \/ OpenFails(k) \/ Register(k) \/ InitFails(k)
             \/ Retract(k) \/ Forget(k) \/ CloseQueue(k) \/ Erase(k)
      PROVE  /\ \A o \in S : pc'[o] = pc[o] /\ call'[o] = call[o]
             /\ \A o \in S \cap Tasks : /\ myQueue'[o] = myQueue[o]
                                        /\ queue'[o] = queue[o]
             /\ \A o \in S \cap Tasks : pc[o] = "drain" =>
                  openOn'[myQueue[o]] = openOn[myQueue[o]]
  <2>1. call' = call
    BY <1>3
    DEF Start, Stop, Poll, Receive, CleanupMsg, DrainTest, OpenQueue,
        OpenFails, Register, InitFails, Retract, Forget, CloseQueue, Erase,
        senderVars
  <2>2. CASE Stop(k)
    BY <2>1, <2>2 DEF Stop, taskVars
  <2>3. k \notin S \/ Stop(k)
    <3>1. DrainTest(k) => k \notin S
      BY <1>1 DEF DrainTest
    <3>2. QED
      BY <1>1, <1>3, <3>1 DEF Start, Poll, Receive, CleanupMsg,
         DrainTest, OpenQueue, OpenFails, Register, InitFails, Retract, Forget,
         CloseQueue, Erase
  <2>4. ASSUME k \notin S
        PROVE  /\ \A o \in S : pc'[o] = pc[o]
               /\ \A o \in S \cap Tasks : /\ myQueue'[o] = myQueue[o]
                                          /\ queue'[o] = queue[o]
               /\ \A o \in S \cap Tasks : pc[o] = "drain" =>
                    openOn'[myQueue[o]] = openOn[myQueue[o]]
    <3>1. \A o \in S : pc'[o] = pc[o]
      BY <1>3, <2>4 DEF Start, Stop, Poll, Receive, CleanupMsg,
         DrainTest, OpenQueue, OpenFails, Register, InitFails, Retract, Forget,
         CloseQueue, Erase, Goto, TypeOK
    <3>2. \A o \in S \cap Tasks : myQueue'[o] = myQueue[o]
      BY <1>3, <2>4 DEF Start, Stop, Poll, Receive, CleanupMsg,
         DrainTest, OpenQueue, OpenFails, Register, InitFails, Retract, Forget,
         CloseQueue, Erase, taskVars, TypeOK
    <3>3. \A o \in S \cap Tasks : queue'[o] = queue[o]
      <4>1. CASE Receive(k)
        <5>1. queue' = queue \/ queue' = [queue EXCEPT ![k] = queue'[k]]
          BY <4>1, Received
        <5>2. QED
          BY <2>4, <5>1 DEF TypeOK
      <4>2. CASE ~Receive(k)
        BY <1>3, <4>2
        DEF Start, Stop, Poll, CleanupMsg, DrainTest, OpenQueue, OpenFails,
            Register, InitFails, Retract, Forget, CloseQueue, Erase
      <4>3. QED
        BY <4>1, <4>2
    <3>4. ASSUME NEW o \in S \cap Tasks, pc[o] = "drain"
          PROVE  openOn'[myQueue[o]] = openOn[myQueue[o]]
      <4>1. myQueue[o] \in FDs /\ openOn[myQueue[o]] = o
        BY <1>1, <3>4
      <4>2. CASE OpenQueue(k)
        BY <4>1, <4>2 DEF OpenQueue, TypeOK
      <4>3. CASE CloseQueue(k)
        <5>1. myQueue[k] \in FDs /\ openOn[myQueue[k]] = k
          BY <4>3 DEF CloseQueue, Phases, Closing, MapNamesOpenQueue, TypeOK
        <5>2. myQueue[k] # myQueue[o]
          BY <2>4, <4>1, <5>1
        <5>3. QED
          BY <4>1, <4>3, <5>2 DEF CloseQueue, TypeOK
      <4>4. CASE ~OpenQueue(k) /\ ~CloseQueue(k)
        BY <1>3, <4>4
        DEF Start, Stop, Poll, Receive, CleanupMsg, DrainTest, OpenFails,
            Register, InitFails, Retract, Forget, Erase
      <4>5. QED
        BY <4>2, <4>3, <4>4
    <3>5. QED
      BY <3>1, <3>2, <3>3, <3>4
  <2>5. QED
    BY <2>1, <2>2, <2>3, <2>4
<1>4. CASE UNCHANGED vars
  BY <1>4 DEF vars
<1>5. QED
  BY <1>2, <1>3, <1>4 DEF Next, SendStep, TaskStep, SendAction, Senders

(* A stuck thread stays stuck. *)
LEMMA NextStuck ==
  ASSUME NEW S \in SUBSET Senders, IInv, Stuck(S), [Next]_vars
  PROVE  Stuck(S)'
<1>1. /\ \A p \in S : pc[p] \in {"drain", "enqueue"}
      /\ \A p \in S : pc[p] = "drain" =>
           /\ p \in Tasks /\ myQueue[p] \in FDs
           /\ openOn[myQueue[p]] = p /\ queue[p] # <<>>
      /\ \A p \in S : pc[p] = "enqueue" =>
           /\ call[p].target \in S \cap Tasks
           /\ Len(queue[call[p].target]) = QCap
  BY StuckWaits
<1>2. /\ \A p \in S : pc'[p] = pc[p] /\ call'[p] = call[p]
      /\ \A k \in S \cap Tasks : /\ myQueue'[k] = myQueue[k]
                                 /\ queue[k] # <<>> => queue'[k] # <<>>
                                 /\ Len(queue[k]) = QCap =>
                                      queue'[k] = queue[k]
      /\ \A k \in S \cap Tasks : pc[k] = "drain" =>
           openOn'[myQueue[k]] = openOn[myQueue[k]]
  BY StuckRests
<1>3. ASSUME NEW p \in S
      PROVE  \/ p \in Tasks /\ DrainPending(p)'
             \/ Blocked(p)' /\ call'[p].target \in S
  <2>1. CASE pc[p] = "drain"
    <3>1. /\ p \in Tasks /\ pc'[p] = "drain"
          /\ openOn'[myQueue'[p]] = p /\ queue'[p] # <<>>
      BY <1>1, <1>2, <2>1
    <3>2. QED
      BY <3>1 DEF DrainPending
  <2>2. CASE pc[p] = "enqueue"
    <3>1. PICK t \in S \cap Tasks : t = call[p].target /\ Len(queue[t]) = QCap
      BY <1>1, <2>2
    <3>2. call'[p].target = t /\ Len(queue'[t]) = QCap /\ pc'[p] = "enqueue"
      BY <1>2, <2>2, <3>1
    <3>3. QED
      BY <3>1, <3>2 DEF Blocked
  <2>3. QED
    BY <1>1, <2>1, <2>2
<1>4. QED
  BY <1>3 DEF Stuck

(* The clean-up loop that is entered with a message pending is never left, and
   threads that wait for room in each other's queues, or in the queue of a task
   in that loop, wait for ever: no Stop, no timeout and no other thread's step
   gets any of them out.  The least case is a task that sends to itself when
   its queue is full. *)
THEOREM StuckForEver ==
  ASSUME NEW S \in SUBSET Senders
  PROVE  Spec => [](Stuck(S) => []Stuck(S))
<1>1. IInv /\ Stuck(S) /\ [Next]_vars => Stuck(S)'
  BY NextStuck
<1>2. QED
  BY <1>1, Invariance, PTL DEF Spec

(* If one of them sends through the map, the map stays locked as well: no task
   starts or ends any more, and no message goes by name. *)
THEOREM MapLockedForEver ==
  ASSUME NEW S \in SUBSET Senders, NEW p \in S
  PROVE  Spec => [](Stuck(S) /\ InMap(p) => [](m_mutexTQMap = p))
<1>1. IInv /\ Stuck(S) /\ InMap(p) /\ [Next]_vars => Stuck(S)' /\ InMap(p)'
  BY NextStuck, StuckRests DEF InMap
<1>2. IInv /\ InMap(p) => m_mutexTQMap = p
  BY DEF IInv, Held
<1>3. QED
  BY <1>1, <1>2, Invariance, PTL DEF Spec

(* A task that finds messages pending in its clean-up loop stays there: for
   every instance, what PendingAreCleanedUp states fails for good. *)
THEOREM DrainNeverEnds ==
  ASSUME NEW k \in Tasks
  PROVE  Spec => [](DrainPending(k) => [](pc[k] = "drain"))
<1>1. DrainPending(k) => Stuck({k})
  BY DEF Stuck
<1>2. IInv /\ Stuck({k}) /\ pc[k] = "drain" /\ [Next]_vars
        => Stuck({k})' /\ (pc[k] = "drain")'
  <2>1. {k} \in SUBSET Senders
    BY DEF Senders
  <2>2. QED
    BY <2>1, NextStuck, StuckRests
<1>3. DrainPending(k) => pc[k] = "drain"
  BY DEF DrainPending
<1>4. QED
  BY <1>1, <1>2, <1>3, Invariance, PTL DEF Spec
=============================================================================
