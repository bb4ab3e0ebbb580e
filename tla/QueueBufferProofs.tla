-------------------------- MODULE QueueBufferProofs --------------------------
(***************************************************************************)
(* Proofs about the buffers of QueueTask's messages: one that is sent to   *)
(* one task has one holder until it is freed, and QueueTask implements     *)
(* BufferLife, for any numbers of tasks, callers, descriptors and buffers  *)
(* and any size of the queues.                                             *)
(***************************************************************************)
EXTENDS QueueTaskProofs, FiniteSetTheorems

\* The buffers sent to one task, and the one of them that is at a place.
Single == Bufs \ BroadcastBufs
BufAt(e) == MsgAt(e).buf
At(e) == IF BufAt(e) \in Single THEN BufAt(e) ELSE NoBuf

QueueAt(k, i) == <<"queue", k, i>>
HandOf(k) == <<"hand", k, 0>>
CallOf(p) == <<"call", p, 0>>

\* Where a sender has a message, and where a task has one.
Sending == {"lock", "member", "next", "resolve", "enqueue"}
Handling == CallPCs \cup {"handle", "cleanup"}

(* A broadcast has a buffer of its own kind; a thread has no buffer left when
   it gets the next one. *)
CallsOK ==
  \A p \in Senders :
    /\ call[p].msg.via = "broadcast" => call[p].msg.buf \notin Single
    /\ pc[p] \notin Sending => call[p].msg.buf = NoBuf
HandsOK == \A k \in Tasks : pc[k] \notin Handling => m_TaskMsg[k].buf = NoBuf

\* The buffers that somebody still has to free: those of the sends that failed
\* stay allocated for ever.
InUse == live \ lost

(* A buffer is at one place at most, and at one if it is in use. *)
Distinct ==
  \A e, f \in Places : At(e) = At(f) /\ At(e) # NoBuf => e = f
Kept ==
  /\ \A b \in Single : b \in InUse <=> \E e \in Places : At(e) = b
  /\ lost \cap Single \subseteq live
  /\ live \cap freed \cap Single = {}

BufferInv == CallsOK /\ HandsOK /\ Distinct /\ Kept

-----------------------------------------------------------------------------
(* What a step can do to these buffers *)
SameAt(S) == \A e \in Places \ S : At(e)' = At(e)
SameHeap == /\ (live \cap Single)' = live \cap Single
            /\ (freed \cap Single)' = freed \cap Single
            /\ (lost \cap Single)' = lost \cap Single

NothingMoves == SameAt({}) /\ SameHeap

Allocates(p, b) ==
  /\ b \in Single \ (live \cup freed)
  /\ At(CallOf(p)) = NoBuf /\ At(CallOf(p))' = b /\ SameAt({CallOf(p)})
  /\ (live \cap Single)' = (live \cap Single) \cup {b}
  /\ (freed \cap Single)' = freed \cap Single
  /\ (lost \cap Single)' = lost \cap Single

Puts(p, k, i) ==
  /\ At(CallOf(p)) # NoBuf /\ At(CallOf(p))' = NoBuf
  /\ At(QueueAt(k, i)) = NoBuf /\ At(QueueAt(k, i))' = At(CallOf(p))
  /\ SameAt({CallOf(p), QueueAt(k, i)}) /\ SameHeap

Takes(k) ==
  /\ At(HandOf(k)) = NoBuf /\ At(HandOf(k))' = At(QueueAt(k, 1))
  /\ \A i \in 1..QCap :
       At(QueueAt(k, i))' = IF i < QCap THEN At(QueueAt(k, i + 1)) ELSE NoBuf
  /\ SameAt({HandOf(k)} \cup {QueueAt(k, i) : i \in 1..QCap}) /\ SameHeap

Loses(p) ==
  /\ At(CallOf(p)) # NoBuf /\ At(CallOf(p))' = NoBuf /\ SameAt({CallOf(p)})
  /\ (live \cap Single)' = live \cap Single
  /\ (freed \cap Single)' = freed \cap Single
  /\ (lost \cap Single)' = (lost \cap Single) \cup {At(CallOf(p))}

Frees(k) ==
  /\ At(HandOf(k)) # NoBuf /\ At(HandOf(k))' = NoBuf /\ SameAt({HandOf(k)})
  /\ (live \cap Single)' = (live \cap Single) \ {At(HandOf(k))}
  /\ (freed \cap Single)' = (freed \cap Single) \cup {At(HandOf(k))}
  /\ (lost \cap Single)' = lost \cap Single

BufferStep ==
  \/ NothingMoves
  \/ \E p \in Senders, b \in Single : Allocates(p, b)
  \/ \E p \in Senders, k \in Tasks, i \in 1..QCap : Puts(p, k, i)
  \/ \E k \in Tasks : Takes(k)
  \/ \E p \in Senders : Loses(p)
  \/ \E k \in Tasks : Frees(k)

(* The places are those of the queues, of the hands and of the calls. *)
LEMMA PlaceKinds ==
  /\ \A k \in Tasks, i \in 1..QCap : QueueAt(k, i) \in Places
  /\ \A k \in Tasks : HandOf(k) \in Places
  /\ \A p \in Senders : CallOf(p) \in Places
  /\ \A e \in Places :
       \/ \E k \in Tasks, i \in 1..QCap : e = QueueAt(k, i)
       \/ \E k \in Tasks : e = HandOf(k)
       \/ \E p \in Senders : e = CallOf(p)
<1>1. \A k \in Tasks, i \in 1..QCap : QueueAt(k, i) \in Places
  BY DEF Places, QueueAt
<1>2. \A k \in Tasks : HandOf(k) \in Places
  BY DEF Places, HandOf
<1>3. \A p \in Senders : CallOf(p) \in Places
  BY DEF Places, CallOf
<1>4. ASSUME NEW e \in Places
      PROVE  \/ \E k \in Tasks, i \in 1..QCap : e = QueueAt(k, i)
             \/ \E k \in Tasks : e = HandOf(k)
             \/ \E p \in Senders : e = CallOf(p)
  <2>1. CASE e \in {"queue"} \X Tasks \X (1..QCap)
    BY <2>1 DEF QueueAt
  <2>2. CASE e \in {"hand"} \X Tasks \X {0}
    BY <2>2 DEF HandOf
  <2>3. CASE e \in {"call"} \X Senders \X {0}
    BY <2>3 DEF CallOf
  <2>4. QED
    BY <2>1, <2>2, <2>3 DEF Places
<1>5. QED
  BY <1>1, <1>2, <1>3, <1>4

(* The places are told apart by their kind, their thread and their index. *)
LEMMA PlacesDiffer ==
  /\ \A k, l, p : QueueAt(k, l) # HandOf(p) /\ QueueAt(k, l) # CallOf(p)
  /\ \A k, p : HandOf(k) # CallOf(p)
  /\ \A k, l : HandOf(k) = HandOf(l) => k = l
  /\ \A k, l : CallOf(k) = CallOf(l) => k = l
  /\ \A k, l, i, j : QueueAt(k, i) = QueueAt(l, j) => k = l /\ i = j
BY DEF QueueAt, HandOf, CallOf

(* What is at a place, before a step and after it. *)
LEMMA BufPlaces ==
  /\ \A k, i : /\ BufAt(QueueAt(k, i)) = IF i <= Len(queue[k])
                                         THEN queue[k][i].buf ELSE NoBuf
               /\ BufAt(QueueAt(k, i))' = IF i <= Len(queue'[k])
                                          THEN queue'[k][i].buf ELSE NoBuf
  /\ \A k : /\ BufAt(HandOf(k)) = m_TaskMsg[k].buf
            /\ BufAt(HandOf(k))' = m_TaskMsg'[k].buf
  /\ \A p : /\ BufAt(CallOf(p)) = call[p].msg.buf
            /\ BufAt(CallOf(p))' = call'[p].msg.buf
BY DEF BufAt, MsgAt, QueueAt, HandOf, CallOf, NoMsg

(* A step of a sender with its own call, queues and hands untouched: the other
   places are as they were. *)
LEMMA OnlyCall ==
  ASSUME NEW p \in Senders, UNCHANGED <<queue, m_TaskMsg>>,
         \A o \in Senders \ {p} : call'[o] = call[o]
  PROVE  SameAt({CallOf(p)})
<1> SUFFICES ASSUME NEW e \in Places, e # CallOf(p)
             PROVE  BufAt(e)' = BufAt(e)
  BY DEF SameAt, At
<1>1. CASE \E k \in Tasks, i \in 1..QCap : e = QueueAt(k, i)
  BY <1>1, BufPlaces
<1>2. CASE \E k \in Tasks : e = HandOf(k)
  BY <1>2, BufPlaces
<1>3. CASE \E o \in Senders : e = CallOf(o)
  <2>1. PICK o \in Senders \ {p} : e = CallOf(o)
    BY <1>3
  <2>2. QED
    BY <2>1, BufPlaces
<1>4. QED
  BY <1>1, <1>2, <1>3, PlaceKinds

(* A step that leaves messages and heap alone moves nothing. *)
LEMMA Unmoved ==
  ASSUME UNCHANGED <<queue, m_TaskMsg, call, live, freed, lost>>
  PROVE  NothingMoves
BY DEF NothingMoves, SameAt, SameHeap, At, BufAt, MsgAt

(* A sender that begins has allocated a buffer for its call. *)
LEMMA BeginMoves ==
  ASSUME IInv, BufferInv, NEW p \in Senders,
         SendByName(p) \/ SendMember(p) \/ SendBroadcast(p)
  PROVE  NothingMoves \/ \E b \in Single : Allocates(p, b)
<1>1. /\ UNCHANGED <<queue, m_TaskMsg>>
      /\ \A o \in Senders \ {p} : call'[o] = call[o]
  <2>1. SendAction(p)
    BY DEF SendAction
  <2>2. \A o \in Senders \ {p} : call'[o] = call[o]
    BY <2>1, OthersStay DEF IInv
  <2>3. UNCHANGED <<queue, m_TaskMsg>>
    BY DEF SendByName, SendMember, SendBroadcast, taskVars
  <2>4. QED
    BY <2>2, <2>3
<1>2. SameAt({CallOf(p)})
  BY <1>1, OnlyCall
<1>3. call[p].msg.buf = NoBuf /\ At(CallOf(p)) = NoBuf
  <2>1. pc[p] \notin Sending
    BY DEF SendByName, SendMember, SendBroadcast, Ready, Sending
  <2>2. QED
    BY <2>1, BufPlaces DEF BufferInv, CallsOK, At
<1>4. PICK b \in Bufs \cup {NoBuf} :
        /\ Allocate(b) /\ call'[p].msg.buf = b /\ b \notin live \cup freed
  <2>1. call[p] \in Call
    BY DEF IInv, TypeOK
  <2>2. CASE SendByName(p)
    <3>1. PICK k \in Tasks, b \in Fresh(Bufs \ BroadcastBufs) :
            /\ Allocate(b)
            /\ call' = [call EXCEPT
                       ![p].msg = [via |-> "name", to |-> k, buf |-> b]]
      BY <2>2 DEF SendByName
    <3>2. call'[p].msg = [via |-> "name", to |-> k, buf |-> b]
      BY <3>1 DEF IInv, TypeOK, Call
    <3>3. QED
      BY <3>1, <3>2, QueueAssumption DEF Fresh, IInv, TypeOK
  <2>3. CASE SendMember(p)
    <3>1. PICK k \in Tasks, b \in Fresh(Bufs \ BroadcastBufs) :
            /\ Allocate(b)
            /\ call' = [call EXCEPT
                     ![p].msg = [via |-> "member", to |-> NoOne, buf |-> b],
                     ![p].target = k]
      BY <2>3, Zenon DEF SendMember
    <3>2. call'[p].msg = [via |-> "member", to |-> NoOne, buf |-> b]
      BY <3>1 DEF IInv, TypeOK, Call
    <3>3. QED
      BY <3>1, <3>2, QueueAssumption DEF Fresh, IInv, TypeOK
  <2>4. CASE SendBroadcast(p)
    <3>1. PICK b \in Fresh(BroadcastBufs) :
            /\ Allocate(b)
            /\ call' = [call EXCEPT
                     ![p].msg = [via |-> "broadcast", to |-> NoOne, buf |-> b]]
      BY <2>4 DEF SendBroadcast
    <3>2. call'[p].msg = [via |-> "broadcast", to |-> NoOne, buf |-> b]
      BY <3>1 DEF IInv, TypeOK, Call
    <3>3. QED
      BY <3>1, <3>2, QueueAssumption DEF Fresh, IInv, TypeOK
  <2>5. QED
    BY <2>2, <2>3, <2>4
<1>5. At(CallOf(p))' = IF b \in Single THEN b ELSE NoBuf
  BY <1>4, BufPlaces DEF At
<1>6. CASE b \in Single
  BY <1>2, <1>3, <1>4, <1>5, <1>6, QueueAssumption
  DEF Allocates, Allocate, Single
<1>7. CASE b \notin Single
  <2>1. SameHeap
    BY <1>4, <1>7, QueueAssumption DEF SameHeap, Allocate, Single
  <2>2. SameAt({})
    BY <1>2, <1>3, <1>5, <1>7 DEF SameAt
  <2>3. QED
    BY <2>1, <2>2 DEF NothingMoves
<1>8. QED
  BY <1>6, <1>7

(* A sender whose send ends without a message sent: it keeps the message of a
   broadcast, which goes on or has no buffer of its own, and loses the buffer
   of any other. *)
LEMMA FailMoves ==
  ASSUME IInv, BufferInv, NEW p \in Senders, NEW l,
         EndSend(p), SendFails(p, l), UNCHANGED <<queue, m_TaskMsg>>
  PROVE  NothingMoves \/ Loses(p)
<1> USE DEF IInv, TypeOK
<1>1. SameAt({CallOf(p)})
  BY OnlyCall DEF EndSend
<1>2. CASE call[p].msg.via = "broadcast"
  <2>1. call'[p].msg = call[p].msg /\ UNCHANGED heapVars
    BY <1>2 DEF EndSend, SendFails, Call, heapVars
  <2>2. SameAt({})
    BY <1>1, <2>1, BufPlaces DEF SameAt, At
  <2>3. QED
    BY <2>1, <2>2 DEF NothingMoves, SameHeap, heapVars
<1>3. CASE call[p].msg.via # "broadcast"
  <2>1. /\ call'[p].msg = NoMsg /\ UNCHANGED <<live, freed>>
        /\ lost' = lost \cup ({call[p].msg.buf} \ {NoBuf})
    BY <1>3 DEF EndSend, SendFails, NoCall
  <2>2. At(CallOf(p))' = NoBuf
    BY <2>1, BufPlaces DEF At, NoMsg
  <2>3. CASE call[p].msg.buf \in Single
    <3>1. At(CallOf(p)) = call[p].msg.buf /\ call[p].msg.buf # NoBuf
      BY <2>3, BufPlaces, QueueAssumption DEF At, Single
    <3>2. QED
      BY <1>1, <2>1, <2>2, <2>3, <3>1 DEF Loses
  <2>4. CASE call[p].msg.buf \notin Single
    <3>1. At(CallOf(p)) = NoBuf
      BY <2>4, BufPlaces DEF At
    <3>2. SameAt({})
      BY <1>1, <2>2, <3>1 DEF SameAt
    <3>3. SameHeap
      BY <2>1, <2>4 DEF SameHeap
    <3>4. QED
      BY <3>2, <3>3 DEF NothingMoves
  <2>5. QED
    BY <2>3, <2>4
<1>4. QED
  BY <1>2, <1>3

(* A message is put behind those that are in the queue. *)
LEMMA PutBehind ==
  ASSUME IInv, NEW p \in Senders, Enqueue(p)
  PROVE  LET t == call[p].target
             n == Len(queue[t]) + 1
         IN  /\ t \in Tasks /\ n \in 1..QCap
             /\ Len(queue'[t]) = n /\ queue'[t][n] = call[p].msg
             /\ \A i \in 1..(n - 1) : queue'[t][i] = queue[t][i]
             /\ \A k \in Tasks \ {t} : queue'[k] = queue[k]
<1> DEFINE t == call[p].target
           q == queue[t]
<1>1. t \in Tasks /\ call[p].msg \in Msg
  BY Enqueued DEF IInv
<1>2. q \in Seq(Msg) /\ Len(q) \in Nat /\ Len(q) < QCap /\ Len(q) <= QCap
  BY <1>1, LenProperties, QueueAssumption DEF IInv, TypeOK, Enqueue
<1>3. queue' = [queue EXCEPT ![t] = Append(q, call[p].msg)]
  BY DEF Enqueue
<1>4. /\ queue'[t] = Append(q, call[p].msg)
      /\ \A k \in Tasks \ {t} : queue'[k] = queue[k]
  BY <1>1, <1>3 DEF IInv, TypeOK
<1>5. /\ Len(Append(q, call[p].msg)) = Len(q) + 1
      /\ Append(q, call[p].msg)[Len(q) + 1] = call[p].msg
      /\ \A i \in 1..Len(q) : Append(q, call[p].msg)[i] = q[i]
  BY <1>1, <1>2, QueueSteps
<1>6. QED
  BY <1>1, <1>2, <1>4, <1>5, QueueAssumption

(* The message that is put into a queue takes its buffer along. *)
LEMMA EnqueueMoves ==
  ASSUME IInv, BufferInv, NEW p \in Senders, Enqueue(p)
  PROVE  NothingMoves
           \/ \E k \in Tasks, i \in 1..QCap : Puts(p, k, i)
<1>1. PICK t \in Tasks, n \in 1..QCap :
        /\ t = call[p].target /\ n = Len(queue[t]) + 1
        /\ Len(queue'[t]) = n /\ queue'[t][n] = call[p].msg
        /\ \A i \in 1..(n - 1) : queue'[t][i] = queue[t][i]
        /\ \A k \in Tasks \ {t} : queue'[k] = queue[k]
  BY PutBehind
<1>2. /\ UNCHANGED m_TaskMsg /\ SameHeap
      /\ \A o \in Senders \ {p} : call'[o] = call[o]
  BY DEF Enqueue, EndSend, taskVars, SameHeap, heapVars, IInv, TypeOK
<1>3. Len(queue[t]) \in Nat /\ n - 1 = Len(queue[t])
  BY <1>1, LenProperties DEF IInv, TypeOK
<1>4. SameAt({CallOf(p), QueueAt(t, n)})
  <2> SUFFICES ASSUME NEW e \in Places, e # CallOf(p), e # QueueAt(t, n)
               PROVE  BufAt(e)' = BufAt(e)
    BY DEF SameAt, At
  <2>1. ASSUME NEW k \in Tasks, NEW i \in 1..QCap, e = QueueAt(k, i)
        PROVE  BufAt(e)' = BufAt(e)
    <3>1. CASE k # t
      BY <1>1, <2>1, <3>1, BufPlaces
    <3>2. CASE k = t
      <4>1. i # n
        BY <2>1, <3>2
      <4>2. CASE i < n
        <5>1. i \in 1..(n - 1) /\ i <= Len(queue[t]) /\ i <= Len(queue'[t])
          BY <1>1, <1>3, <4>2
        <5>2. QED
          BY <1>1, <2>1, <3>2, <5>1, BufPlaces
      <4>3. CASE i > n
        <5>1. ~(i <= Len(queue[t])) /\ ~(i <= Len(queue'[t]))
          BY <1>1, <1>3, <4>3
        <5>2. QED
          BY <2>1, <3>2, <5>1, BufPlaces
      <4>4. QED
        BY <1>1, <4>1, <4>2, <4>3
    <3>3. QED
      BY <3>1, <3>2
  <2>2. CASE \E k \in Tasks : e = HandOf(k)
    BY <1>2, <2>2, BufPlaces
  <2>3. ASSUME NEW o \in Senders, e = CallOf(o)
        PROVE  BufAt(e)' = BufAt(e)
    BY <1>2, <2>3, BufPlaces
  <2>4. QED
    BY <2>1, <2>2, <2>3, PlaceKinds
<1>5. /\ BufAt(QueueAt(t, n)) = NoBuf
      /\ BufAt(QueueAt(t, n))' = call[p].msg.buf
  <2>1. ~(n <= Len(queue[t])) /\ n <= Len(queue'[t])
    BY <1>1, <1>3
  <2>2. QED
    BY <1>1, <2>1, BufPlaces
<1>6. At(QueueAt(t, n)) = NoBuf /\ At(QueueAt(t, n))' = At(CallOf(p))
  BY <1>5, BufPlaces, QueueAssumption DEF At, Single
<1>7. CASE call[p].msg.via = "broadcast"
  <2>1. call'[p].msg = call[p].msg
    BY <1>7 DEF Enqueue, EndSend, Call, IInv, TypeOK
  <2>2. call[p].msg.buf \notin Single
    BY <1>7 DEF BufferInv, CallsOK
  <2>3. At(CallOf(p)) = NoBuf /\ At(CallOf(p))' = NoBuf
    BY <2>1, <2>2, BufPlaces DEF At
  <2>4. SameAt({})
    BY <1>4, <1>6, <2>3 DEF SameAt
  <2>5. QED
    BY <1>2, <2>4 DEF NothingMoves
<1>8. CASE call[p].msg.via # "broadcast"
  <2>1. call'[p].msg = NoMsg
    BY <1>8 DEF Enqueue, EndSend, NoCall, IInv, TypeOK
  <2>2. At(CallOf(p))' = NoBuf
    BY <2>1, BufPlaces DEF At, NoMsg
  <2>3. CASE At(CallOf(p)) = NoBuf
    <3>1. SameAt({})
      BY <1>4, <1>6, <2>2, <2>3 DEF SameAt
    <3>2. QED
      BY <1>2, <3>1 DEF NothingMoves
  <2>4. CASE At(CallOf(p)) # NoBuf
    <3>1. Puts(p, t, n)
      BY <1>2, <1>4, <1>6, <2>2, <2>4 DEF Puts
    <3>2. QED
      BY <1>1, <3>1
  <2>5. QED
    BY <2>3, <2>4
<1>9. QED
  BY <1>7, <1>8

(* Between its begin and its delivery a send keeps its buffer, or fails. *)
LEMMA SendMoves ==
  ASSUME IInv, BufferInv, NEW p \in Senders,
         LockMap(p) \/ ReadMember(p) \/ BroadcastNext(p) \/ Resolve(p)
           \/ UnlockMap(p)
  PROVE  NothingMoves \/ Loses(p)
<1> USE DEF IInv, TypeOK
<1>1. UNCHANGED <<queue, m_TaskMsg>>
  BY DEF LockMap, ReadMember, BroadcastNext, Resolve, UnlockMap, taskVars
<1>2. \A o \in Senders \ {p} : call'[o] = call[o]
  <2>1. SendAction(p)
    BY DEF SendAction, SendStep
  <2>2. QED
    BY <2>1, OthersStay
<1>3. SameAt({CallOf(p)})
  BY <1>1, <1>2, OnlyCall
<1>4. ASSUME call'[p].msg.buf = call[p].msg.buf
               \/ /\ call[p].msg.buf \notin Single
                  /\ call'[p].msg.buf \notin Single,
             UNCHANGED heapVars
      PROVE  NothingMoves
  <2>1. At(CallOf(p))' = At(CallOf(p))
    BY <1>4, BufPlaces DEF At
  <2>2. SameAt({})
    BY <1>3, <2>1 DEF SameAt
  <2>3. QED
    BY <1>4, <2>2 DEF NothingMoves, SameHeap, heapVars
<1>5. CASE LockMap(p)
  <2>1. CASE Found(p) \/ FoundAll(p)
    <3>1. call'[p].msg = call[p].msg /\ UNCHANGED heapVars
      BY <2>1 DEF Found, FoundAll, Call
    <3>2. QED
      BY <1>4, <3>1
  <2>2. CASE NotFound(p, "unlock")
    BY <1>1, <2>2, FailMoves DEF NotFound
  <2>3. QED
    BY <1>5, <2>1, <2>2 DEF LockMap
<1>6. CASE BroadcastNext(p)
  <2>1. UNCHANGED heapVars
    BY <1>6 DEF BroadcastNext
  <2>2. CASE call' = [call EXCEPT ![p] = NoCall]
    <3>1. call[p].msg.buf \notin Single
      BY <1>6 DEF BroadcastNext, Sends, SendOK, BufferInv, CallsOK
    <3>2. call'[p].msg.buf \notin Single
      BY <2>2, QueueAssumption DEF NoCall, NoMsg, Single
    <3>3. QED
      BY <1>4, <2>1, <3>1, <3>2
  <2>3. ASSUME NEW k \in call[p].todo,
               call' = [call EXCEPT ![p].todo = @ \ {k}, ![p].fd = m_TQMap[k]]
        PROVE  NothingMoves
    <3>1. call'[p].msg = call[p].msg
      BY <2>3 DEF Call
    <3>2. QED
      BY <1>4, <2>1, <3>1
  <2>4. QED
    BY <1>6, <2>2, <2>3 DEF BroadcastNext
<1>7. CASE Resolve(p)
  <2>1. CASE EndSend(p) /\ SendFails(p, AfterSend(p))
    BY <1>1, <2>1, FailMoves
  <2>2. CASE /\ call' = [call EXCEPT ![p].target = openOn[call[p].fd]]
             /\ UNCHANGED heapVars
    <3>1. call'[p].msg = call[p].msg
      BY <2>2 DEF Call
    <3>2. QED
      BY <1>4, <2>2, <3>1
  <2>3. QED
    BY <1>7, <2>1, <2>2 DEF Resolve
<1>8. CASE UnlockMap(p)
  BY <1>4, <1>8 DEF UnlockMap
<1>9. CASE ReadMember(p)
  <2>1. CASE EndSend(p) /\ SendFails(p, Home(p))
    BY <1>1, <2>1, FailMoves
  <2>2. CASE /\ call' = [call EXCEPT ![p].fd = m_QueueID[call[p].target],
                                     ![p].target = NoOne]
             /\ UNCHANGED heapVars
    <3>1. call'[p].msg = call[p].msg
      BY <2>2 DEF Call
    <3>2. QED
      BY <1>4, <2>2, <3>1
  <2>3. QED
    BY <1>9, <2>1, <2>2 DEF ReadMember
<1>10. QED
  BY <1>5, <1>6, <1>7, <1>8, <1>9

(* A task frees what is in its hands. *)
LEMMA CleanupMoves ==
  ASSUME IInv, BufferInv, NEW k \in Tasks, CleanupMsg(k)
  PROVE  NothingMoves \/ Frees(k)
<1>1. /\ UNCHANGED <<queue, call>> /\ Cleanup(m_TaskMsg[k])
      /\ m_TaskMsg'[k] = NoMsg
      /\ \A o \in Tasks \ {k} : m_TaskMsg'[o] = m_TaskMsg[o]
  BY DEF CleanupMsg, IInv, TypeOK
<1>2. SameAt({HandOf(k)})
  <2> SUFFICES ASSUME NEW e \in Places, e # HandOf(k)
               PROVE  BufAt(e)' = BufAt(e)
    BY DEF SameAt, At
  <2>1. CASE \E o \in Tasks, i \in 1..QCap : e = QueueAt(o, i)
    BY <1>1, <2>1, BufPlaces
  <2>2. CASE \E o \in Tasks : e = HandOf(o)
    <3>1. PICK o \in Tasks \ {k} : e = HandOf(o)
      BY <2>2
    <3>2. QED
      BY <1>1, <3>1, BufPlaces
  <2>3. CASE \E o \in Senders : e = CallOf(o)
    BY <1>1, <2>3, BufPlaces
  <2>4. QED
    BY <2>1, <2>2, <2>3, PlaceKinds
<1>3. At(HandOf(k))' = NoBuf
  BY <1>1, BufPlaces DEF At, NoMsg
<1>4. CASE m_TaskMsg[k].buf \in Single
  <2>1. At(HandOf(k)) = m_TaskMsg[k].buf /\ m_TaskMsg[k].buf # NoBuf
    BY <1>4, BufPlaces, QueueAssumption DEF At, Single
  <2>2. QED
    BY <1>1, <1>2, <1>3, <1>4, <2>1 DEF Frees, Cleanup
<1>5. CASE m_TaskMsg[k].buf \notin Single
  <2>1. At(HandOf(k)) = NoBuf
    BY <1>5, BufPlaces DEF At
  <2>2. SameAt({})
    BY <1>2, <1>3, <2>1 DEF SameAt
  <2>3. SameHeap
    BY <1>1, <1>5 DEF SameHeap, Cleanup
  <2>4. QED
    BY <2>2, <2>3 DEF NothingMoves
<1>6. QED
  BY <1>4, <1>5

(* A task takes the first message of its own queue, and the others move up. *)
LEMMA ReceiveMoves ==
  ASSUME IInv, BufferInv, NEW k \in Tasks, Receive(k)
  PROVE  NothingMoves \/ Takes(k)
<1>1. openOn[m_QueueID[k]] = k
  BY DEF Receive, Phases, Opened, MapNamesOpenQueue, IInv
<1>2. UNCHANGED <<call, live, freed, lost>>
  BY DEF Receive, senderVars
<1>3. CASE UNCHANGED <<m_TaskMsg, queue>>
  BY <1>2, <1>3, Unmoved
<1>4. CASE /\ queue[k] # <<>>
           /\ m_TaskMsg' = [m_TaskMsg EXCEPT ![k] = Head(queue[k])]
           /\ queue' = [queue EXCEPT ![k] = Tail(queue[k])]
  <2>1. /\ queue[k] \in Seq(Msg) /\ Len(queue[k]) <= QCap
        /\ Len(queue[k]) \in Nat /\ QCap \in Nat \ {0}
    BY LenProperties, QueueAssumption DEF IInv, TypeOK
  <2>2. /\ Head(queue[k]) = queue[k][1] /\ 1 <= Len(queue[k])
        /\ Len(Tail(queue[k])) = Len(queue[k]) - 1
        /\ \A i \in 1..Len(Tail(queue[k])) :
             Tail(queue[k])[i] = queue[k][i + 1]
    BY <1>4, <2>1, HeadTailProperties, QueueSteps, LenProperties
  <2>3. /\ m_TaskMsg'[k] = queue[k][1] /\ queue'[k] = Tail(queue[k])
        /\ \A o \in Tasks \ {k} : /\ m_TaskMsg'[o] = m_TaskMsg[o]
                                  /\ queue'[o] = queue[o]
    BY <1>4, <2>2 DEF IInv, TypeOK
  <2>4. At(HandOf(k)) = NoBuf
    <3>1. pc[k] \notin Handling
      BY DEF Receive, Handling, CallPCs
    <3>2. QED
      BY <3>1, BufPlaces DEF BufferInv, HandsOK, At
  <2>5. At(HandOf(k))' = At(QueueAt(k, 1))
    BY <2>2, <2>3, BufPlaces DEF At
  <2>6. ASSUME NEW i \in 1..QCap
        PROVE  At(QueueAt(k, i))' = IF i < QCap THEN At(QueueAt(k, i + 1))
                                                ELSE NoBuf
    <3>1. CASE i <= Len(queue'[k])
      <4>1. i \in 1..Len(Tail(queue[k])) /\ i + 1 <= Len(queue[k]) /\ i < QCap
        BY <2>1, <2>2, <2>3, <3>1
      <4>2. queue'[k][i] = queue[k][i + 1]
        BY <2>2, <2>3, <4>1
      <4>3. BufAt(QueueAt(k, i))' = BufAt(QueueAt(k, i + 1))
        BY <3>1, <4>1, <4>2, BufPlaces
      <4>4. QED
        BY <4>1, <4>3 DEF At
    <3>2. CASE ~(i <= Len(queue'[k]))
      <4>1. ~(i + 1 <= Len(queue[k]))
        BY <2>1, <2>2, <2>3, <3>2
      <4>2. BufAt(QueueAt(k, i))' = NoBuf /\ BufAt(QueueAt(k, i + 1)) = NoBuf
        BY <3>2, <4>1, BufPlaces
      <4>3. QED
        BY <4>2 DEF At
    <3>3. QED
      BY <3>1, <3>2
  <2>7. SameAt({HandOf(k)} \cup {QueueAt(k, i) : i \in 1..QCap})
    <3> SUFFICES ASSUME NEW e \in Places, e # HandOf(k),
                        \A i \in 1..QCap : e # QueueAt(k, i)
                 PROVE  BufAt(e)' = BufAt(e)
      BY DEF SameAt, At
    <3>1. ASSUME NEW o \in Tasks, NEW i \in 1..QCap, e = QueueAt(o, i)
          PROVE  BufAt(e)' = BufAt(e)
      BY <2>3, <3>1, BufPlaces
    <3>2. ASSUME NEW o \in Tasks, e = HandOf(o)
          PROVE  BufAt(e)' = BufAt(e)
      BY <2>3, <3>2, BufPlaces
    <3>3. CASE \E o \in Senders : e = CallOf(o)
      BY <1>2, <3>3, BufPlaces
    <3>4. QED
      BY <3>1, <3>2, <3>3, PlaceKinds
  <2>8. SameHeap
    BY <1>2 DEF SameHeap
  <2>9. QED
    BY <2>4, <2>5, <2>6, <2>7, <2>8 DEF Takes
<1>5. QED
  BY <1>1, <1>3, <1>4 DEF Receive

(* Every step does one of these things, to at most one buffer. *)
LEMMA StepMoves == IInv /\ BufferInv /\ [Next]_vars => BufferStep
<1> SUFFICES ASSUME IInv, BufferInv, [Next]_vars
             PROVE  BufferStep
  OBVIOUS
<1>1. ASSUME NEW p \in Senders,
             SendByName(p) \/ SendMember(p) \/ SendBroadcast(p)
      PROVE  BufferStep
  BY <1>1, BeginMoves DEF BufferStep
<1>2. ASSUME NEW p \in Senders, SendStep(p)
      PROVE  BufferStep
  BY <1>2, SendMoves, EnqueueMoves DEF SendStep, BufferStep
<1>3. ASSUME NEW k \in Tasks, CleanupMsg(k) \/ Receive(k)
      PROVE  BufferStep
  BY <1>3, CleanupMoves, ReceiveMoves DEF BufferStep
<1>4. ASSUME NEW k \in Tasks, Start(k) \/ Stop(k) \/ Poll(k)
             \/ DrainTest(k) \/ OpenQueue(k) \/ OpenFails(k) \/ Register(k)
             \/ InitFails(k) \/ Retract(k) \/ Forget(k) \/ CloseQueue(k)
             \/ Erase(k)
      PROVE  BufferStep
  <2>1. UNCHANGED <<queue, m_TaskMsg, call, live, freed, lost>>
    BY <1>4
    DEF Start, Stop, Poll, DrainTest, OpenQueue, OpenFails, Register,
        InitFails, Retract, Forget, CloseQueue, Erase, taskVars, heapVars,
        senderVars
  <2>2. QED
    BY <2>1, Unmoved DEF BufferStep
<1>5. CASE UNCHANGED vars
  BY <1>5, Unmoved DEF vars, BufferStep
<1>6. QED
  BY <1>1, <1>2, <1>3, <1>4, <1>5, QueueAssumption DEF Next, TaskStep, Senders

-----------------------------------------------------------------------------
(* The invariant of the buffers is kept *)

(* A broadcast is given a buffer of its kind; a send that ends forgets its
   message. *)
LEMMA NextCalls == IInv /\ BufferInv /\ [Next]_vars => CallsOK'
<1> SUFFICES ASSUME IInv, BufferInv, [Next]_vars
             PROVE  CallsOK'
  OBVIOUS
<1> DEFINE OK(p) == /\ call[p].msg.via = "broadcast"
                         => call[p].msg.buf \notin Single
                    /\ pc[p] \notin Sending => call[p].msg.buf = NoBuf
<1>0. \A p \in Senders : OK(p)
  BY DEF BufferInv, CallsOK
<1>1. ASSUME NEW p \in Senders, SendAction(p)
      PROVE  OK(p)'
  <2>n. NoCall.msg.via # "broadcast" /\ NoCall.msg.buf = NoBuf
    BY DEF NoCall, NoMsg
  <2>a. AfterSend(p) \in Sending => call[p].msg.via = "broadcast"
    BY DEF AfterSend, Home, Sending
  <2>e. ASSUME EndSend(p),
               pc'[p] = AfterSend(p) \/ call[p].msg.via # "broadcast"
        PROVE  OK(p)'
    <3>1. CASE call[p].msg.via = "broadcast"
      <4>1. call'[p].msg = call[p].msg
        BY <2>e, <3>1 DEF EndSend, Call, IInv, TypeOK
      <4>2. pc'[p] \in Sending
        BY <2>e, <3>1 DEF AfterSend, Sending
      <4>3. QED
        BY <1>0, <4>1, <4>2
    <3>2. CASE call[p].msg.via # "broadcast"
      <4>1. call'[p] = NoCall
        BY <2>e, <3>2 DEF EndSend, IInv, TypeOK
      <4>2. QED
        BY <2>n, <4>1
    <3>3. QED
      BY <3>1, <3>2
  <2>k. ASSUME call'[p].msg = call[p].msg, pc'[p] \in Sending
        PROVE  OK(p)'
    BY <1>0, <2>k
  <2>1. CASE SendByName(p)
    <3>1. PICK k \in Tasks, b \in Fresh(Bufs \ BroadcastBufs) :
            call' = [call EXCEPT
                       ![p].msg = [via |-> "name", to |-> k, buf |-> b]]
      BY <2>1 DEF SendByName
    <3>2. call'[p].msg = [via |-> "name", to |-> k, buf |-> b]
      BY <3>1 DEF IInv, TypeOK, Call
    <3>3. pc'[p] \in Sending
      BY <2>1 DEF SendByName, Goto, Sending, IInv, TypeOK
    <3>4. QED
      BY <3>2, <3>3
  <2>2. CASE SendMember(p)
    <3>1. PICK k \in Tasks, b \in Fresh(Bufs \ BroadcastBufs) :
            call' = [call EXCEPT
                     ![p].msg = [via |-> "member", to |-> NoOne, buf |-> b],
                     ![p].target = k]
      BY <2>2, Zenon DEF SendMember
    <3>2. call'[p].msg = [via |-> "member", to |-> NoOne, buf |-> b]
      BY <3>1 DEF IInv, TypeOK, Call
    <3>3. pc'[p] \in Sending
      BY <2>2 DEF SendMember, Goto, Sending, IInv, TypeOK
    <3>4. QED
      BY <3>2, <3>3
  <2>3. CASE SendBroadcast(p)
    <3>1. PICK b \in Fresh(BroadcastBufs) :
            call' = [call EXCEPT
                     ![p].msg = [via |-> "broadcast", to |-> NoOne, buf |-> b]]
      BY <2>3 DEF SendBroadcast
    <3>2. call'[p].msg = [via |-> "broadcast", to |-> NoOne, buf |-> b]
      BY <3>1 DEF IInv, TypeOK, Call
    <3>3. b \notin Single
      BY QueueAssumption DEF Fresh, Single
    <3>4. pc'[p] \in Sending
      BY <2>3 DEF SendBroadcast, Goto, Sending, IInv, TypeOK
    <3>5. QED
      BY <3>2, <3>3, <3>4
  <2>4. CASE LockMap(p)
    <3>1. CASE Found(p) \/ FoundAll(p)
      <4>1. call'[p].msg = call[p].msg /\ pc'[p] \in Sending
        BY <3>1 DEF Found, FoundAll, Goto, Sending, Call, IInv, TypeOK
      <4>2. QED
        BY <2>k, <4>1
    <3>2. CASE NotFound(p, "unlock")
      BY <2>e, <3>2 DEF NotFound
    <3>3. QED
      BY <2>4, <3>1, <3>2 DEF LockMap
  <2>5. CASE BroadcastNext(p)
    <3>1. CASE call' = [call EXCEPT ![p] = NoCall]
      BY <2>n, <3>1 DEF IInv, TypeOK
    <3>2. ASSUME NEW k \in call[p].todo,
                 call' = [call EXCEPT ![p].todo = @ \ {k},
                                      ![p].fd = m_TQMap[k]],
                 Goto(p, "resolve")
          PROVE  OK(p)'
      <4>1. call'[p].msg = call[p].msg /\ pc'[p] \in Sending
        BY <3>2 DEF Goto, Sending, Call, IInv, TypeOK
      <4>2. QED
        BY <2>k, <4>1
    <3>3. QED
      BY <2>5, <3>1, <3>2 DEF BroadcastNext
  <2>6. CASE Resolve(p)
    <3>1. CASE EndSend(p) /\ SendFails(p, AfterSend(p))
      <4>1. pc'[p] = AfterSend(p)
        BY <3>1 DEF SendFails, Goto, AfterSend, Home, IInv, TypeOK
      <4>2. QED
        BY <2>e, <3>1, <4>1
    <3>2. CASE /\ call' = [call EXCEPT ![p].target = openOn[call[p].fd]]
               /\ Goto(p, "enqueue")
      <4>1. call'[p].msg = call[p].msg /\ pc'[p] \in Sending
        BY <3>2 DEF Goto, Sending, Call, IInv, TypeOK
      <4>2. QED
        BY <2>k, <4>1
    <3>3. QED
      BY <2>6, <3>1, <3>2 DEF Resolve
  <2>7. CASE Enqueue(p)
    <3>1. EndSend(p) /\ pc'[p] = AfterSend(p)
      BY <2>7 DEF Enqueue, Goto, AfterSend, Home, IInv, TypeOK
    <3>2. QED
      BY <2>e, <3>1
  <2>8. CASE UnlockMap(p)
    <3>1. call' = call /\ pc[p] \notin Sending
      BY <2>8 DEF UnlockMap, Sending
    <3>2. QED
      BY <1>0, <3>1
  <2>9. CASE ReadMember(p)
    <3>1. call[p].msg.via # "broadcast"
      BY <2>9 DEF ReadMember, IInv, Sends, SendOK
    <3>2. CASE EndSend(p)
      BY <2>e, <3>1, <3>2
    <3>3. CASE /\ call' = [call EXCEPT ![p].fd = m_QueueID[call[p].target],
                                       ![p].target = NoOne]
               /\ Goto(p, "resolve")
      <4>1. call'[p].msg = call[p].msg /\ pc'[p] \in Sending
        BY <3>3 DEF Goto, Sending, Call, IInv, TypeOK
      <4>2. QED
        BY <2>k, <4>1
    <3>4. QED
      BY <2>9, <3>2, <3>3 DEF ReadMember
  <2>10. QED
    BY <1>1, <2>1, <2>2, <2>3, <2>4, <2>5, <2>6, <2>7, <2>8, <2>9
    DEF SendAction, SendStep
<1>2. ASSUME NEW p \in Senders, SendAction(p)
      PROVE  CallsOK'
  <2>1. \A o \in Senders \ {p} : OK(o)'
    BY <1>0, <1>2, OthersStay DEF IInv
  <2>2. QED
    BY <1>1, <1>2, <2>1 DEF CallsOK
<1>3. ASSUME NEW k \in Tasks, Start(k) \/ Stop(k) \/ TaskStep(k)
      PROVE  CallsOK'
  <2>1. call' = call
    BY <1>3
    DEF TaskStep, Start, Stop, Poll, Receive, CleanupMsg, DrainTest,
        OpenQueue, OpenFails, Register, InitFails, Retract, Forget,
        CloseQueue, Erase, senderVars
  <2>2. /\ \A o \in Senders \ {k} : pc'[o] = pc[o]
        /\ pc[k] \in Sending => pc'[k] = pc[k]
    BY <1>3
    DEF TaskStep, Start, Stop, Poll, Receive, CleanupMsg, DrainTest,
        OpenQueue, OpenFails, Register, InitFails, Retract, Forget,
        CloseQueue, Erase, Goto, Sending, IInv, TypeOK
  <2>3. QED
    BY <1>0, <2>1, <2>2 DEF CallsOK
<1>4. CASE UNCHANGED vars
  BY <1>0, <1>4 DEF vars, CallsOK
<1>5. QED
  BY <1>2, <1>3, <1>4, QueueAssumption DEF Next, SendAction, Senders

(* A task has a message in its hands from Receive to CleanupMsg only. *)
LEMMA NextHands == IInv /\ BufferInv /\ [Next]_vars => HandsOK'
<1> SUFFICES ASSUME IInv, BufferInv, [Next]_vars
             PROVE  HandsOK'
  OBVIOUS
<1>0. HandsOK
  BY DEF BufferInv
<1>1. ASSUME NEW p \in Senders, SendAction(p)
      PROVE  HandsOK'
  <2>1. /\ m_TaskMsg' = m_TaskMsg
        /\ \A o \in Senders \ {p} : pc'[o] = pc[o]
        /\ pc'[p] = Home(p) \/ pc'[p] \in CallPCs
    BY <1>1, OthersStay DEF IInv, taskVars
  <2>2. p \in Tasks => pc'[p] \in Handling
    BY <2>1 DEF Home, Handling
  <2>3. QED
    BY <1>0, <2>1, <2>2 DEF HandsOK, Senders
<1>2. ASSUME NEW k \in Tasks, Receive(k) \/ CleanupMsg(k)
      PROVE  HandsOK'
  <2>1. /\ \A o \in Tasks \ {k} : /\ pc'[o] = pc[o]
                                  /\ m_TaskMsg'[o] = m_TaskMsg[o]
        /\ \/ pc'[k] = "handle"
           \/ pc[k] = "receive" /\ m_TaskMsg' = m_TaskMsg
           \/ m_TaskMsg'[k] = NoMsg
    BY <1>2 DEF Receive, CleanupMsg, Goto, IInv, TypeOK, Senders
  <2>2. QED
    BY <1>0, <2>1 DEF HandsOK, Handling, CallPCs, NoMsg
<1>3. ASSUME NEW k \in Tasks, Start(k) \/ Stop(k) \/ Poll(k)
             \/ DrainTest(k) \/ OpenQueue(k) \/ OpenFails(k) \/ Register(k)
             \/ InitFails(k) \/ Retract(k) \/ Forget(k) \/ CloseQueue(k)
             \/ Erase(k)
      PROVE  HandsOK'
  <2>1. m_TaskMsg' = m_TaskMsg
    BY <1>3
    DEF Start, Stop, Poll, DrainTest, OpenQueue, OpenFails, Register,
        InitFails, Retract, Forget, CloseQueue, Erase, taskVars
  <2>2. /\ \A o \in Senders \ {k} : pc'[o] = pc[o]
        /\ pc[k] \in Handling => pc'[k] \in Handling
    BY <1>3
    DEF Start, Stop, Poll, DrainTest, OpenQueue, OpenFails, Register,
        InitFails, Retract, Forget, CloseQueue, Erase, Goto, Handling,
        CallPCs, IInv, TypeOK, Senders
  <2>3. QED
    BY <1>0, <2>1, <2>2 DEF HandsOK, Senders
<1>4. CASE UNCHANGED vars
  BY <1>0, <1>4 DEF vars, HandsOK
<1>5. QED
  BY <1>1, <1>2, <1>3, <1>4, QueueAssumption
  DEF Next, TaskStep, SendAction, SendStep, Senders

(* Where a task takes a message, each place gets what another one had, and
   nothing is dropped on the way. *)
LEMMA TakesShifts ==
  ASSUME NEW k \in Tasks, Takes(k)
  PROVE  /\ \A f \in Places : At(f)' # NoBuf =>
              \E e \in Places :
                /\ At(e) = At(f)'
                /\ \/ f = HandOf(k) /\ e = QueueAt(k, 1)
                   \/ \E i \in 1..QCap : /\ i < QCap /\ f = QueueAt(k, i)
                                         /\ e = QueueAt(k, i + 1)
                   \/ /\ f # HandOf(k) /\ \A i \in 1..QCap : f # QueueAt(k, i)
                      /\ e = f
         /\ \A e \in Places : At(e) # NoBuf =>
              \/ e = QueueAt(k, 1) /\ At(HandOf(k))' = At(e)
              \/ \E i \in 1..QCap : /\ e = QueueAt(k, i + 1)
                                    /\ At(QueueAt(k, i))' = At(e)
              \/ /\ e # HandOf(k) /\ \A i \in 1..QCap : e # QueueAt(k, i)
                 /\ At(e)' = At(e)
<1>q. QCap \in Nat \ {0}
  BY QueueAssumption
<1>1. ASSUME NEW f \in Places, At(f)' # NoBuf
      PROVE  \E e \in Places :
                /\ At(e) = At(f)'
                /\ \/ f = HandOf(k) /\ e = QueueAt(k, 1)
                   \/ \E i \in 1..QCap : /\ i < QCap /\ f = QueueAt(k, i)
                                         /\ e = QueueAt(k, i + 1)
                   \/ /\ f # HandOf(k) /\ \A i \in 1..QCap : f # QueueAt(k, i)
                      /\ e = f
  <2>1. CASE f = HandOf(k)
    <3>1. QueueAt(k, 1) \in Places
      BY <1>q, PlaceKinds
    <3>2. QED
      BY <2>1, <3>1 DEF Takes
  <2>2. ASSUME NEW i \in 1..QCap, f = QueueAt(k, i)
        PROVE  /\ i < QCap /\ QueueAt(k, i + 1) \in Places
               /\ At(QueueAt(k, i + 1)) = At(f)'
    <3>1. i < QCap /\ At(f)' = At(QueueAt(k, i + 1))
      BY <1>1, <2>2 DEF Takes
    <3>2. i + 1 \in 1..QCap
      BY <1>q, <3>1
    <3>3. QED
      BY <3>1, <3>2, PlaceKinds
  <2>3. CASE f # HandOf(k) /\ \A i \in 1..QCap : f # QueueAt(k, i)
    BY <2>3 DEF Takes, SameAt
  <2>4. QED
    BY <2>1, <2>2, <2>3
<1>2. ASSUME NEW e \in Places, At(e) # NoBuf
      PROVE  \/ e = QueueAt(k, 1) /\ At(HandOf(k))' = At(e)
             \/ \E i \in 1..QCap : /\ e = QueueAt(k, i + 1)
                                   /\ At(QueueAt(k, i))' = At(e)
             \/ /\ e # HandOf(k) /\ \A i \in 1..QCap : e # QueueAt(k, i)
                /\ At(e)' = At(e)
  <2>1. e # HandOf(k)
    BY <1>2 DEF Takes
  <2>2. CASE e = QueueAt(k, 1)
    BY <2>2 DEF Takes
  <2>3. ASSUME NEW j \in 1..QCap, j # 1, e = QueueAt(k, j)
        PROVE  \E i \in 1..QCap : /\ e = QueueAt(k, i + 1)
                                  /\ At(QueueAt(k, i))' = At(e)
    <3>1. PICK i \in 1..QCap : i < QCap /\ j = i + 1
      <4>1. j - 1 \in 1..QCap /\ j - 1 < QCap /\ j = (j - 1) + 1
        BY <1>q, <2>3
      <4>2. QED
        BY <4>1
    <3>2. At(QueueAt(k, i))' = At(QueueAt(k, i + 1))
      BY <3>1 DEF Takes
    <3>3. QED
      BY <2>3, <3>1, <3>2
  <2>4. CASE \A i \in 1..QCap : e # QueueAt(k, i)
    BY <2>1, <2>4 DEF Takes, SameAt
  <2>5. QED
    BY <2>1, <2>2, <2>3, <2>4
<1>3. QED
  BY <1>1, <1>2

(* No step puts a buffer into two places. *)
LEMMA NextDistinct == BufferInv /\ BufferStep => Distinct'
<1> SUFFICES ASSUME BufferInv, BufferStep, NEW f \in Places, NEW g \in Places,
                    At(f)' = At(g)', At(f)' # NoBuf
             PROVE  f = g
  BY DEF Distinct, Places, Senders
<1>0. /\ \A e, h \in Places : At(e) = At(h) /\ At(e) # NoBuf => e = h
      /\ \A e \in Places : At(e) # NoBuf => At(e) \in live /\ At(e) \in Single
  BY DEF BufferInv, Distinct, Kept, At, InUse
<1>1. CASE NothingMoves
  BY <1>0, <1>1 DEF NothingMoves, SameAt
<1>2. ASSUME NEW p \in Senders, NEW b \in Single, Allocates(p, b)
      PROVE  f = g
  <2>1. \A e \in Places : At(e) # b
    BY <1>0, <1>2, QueueAssumption DEF Allocates, Single
  <2>2. QED
    BY <1>0, <1>2, <2>1 DEF Allocates, SameAt
<1>3. ASSUME NEW p \in Senders, NEW k \in Tasks, NEW i \in 1..QCap,
             Puts(p, k, i)
      PROVE  f = g
  <2>1. CallOf(p) \in Places /\ QueueAt(k, i) \in Places
    BY PlaceKinds
  <2>2. QED
    BY <1>0, <1>3, <2>1 DEF Puts, SameAt
<1>4. ASSUME NEW k \in Tasks, Takes(k)
      PROVE  f = g
  <2>1. PICK e \in Places :
          /\ At(e) = At(f)'
          /\ \/ f = HandOf(k) /\ e = QueueAt(k, 1)
             \/ \E i \in 1..QCap : /\ i < QCap /\ f = QueueAt(k, i)
                                   /\ e = QueueAt(k, i + 1)
             \/ /\ f # HandOf(k) /\ \A i \in 1..QCap : f # QueueAt(k, i)
                /\ e = f
    BY <1>4, TakesShifts
  <2>2. PICK h \in Places :
          /\ At(h) = At(g)'
          /\ \/ g = HandOf(k) /\ h = QueueAt(k, 1)
             \/ \E i \in 1..QCap : /\ i < QCap /\ g = QueueAt(k, i)
                                   /\ h = QueueAt(k, i + 1)
             \/ /\ g # HandOf(k) /\ \A i \in 1..QCap : g # QueueAt(k, i)
                /\ h = g
    BY <1>4, TakesShifts
  <2>3. e = h
    BY <1>0, <2>1, <2>2
  <2>4. /\ 1 \in 1..QCap
        /\ \A i \in 1..QCap : i < QCap => i + 1 \in 1..QCap /\ i + 1 # 1
    BY QueueAssumption
  <2>5. CASE f = HandOf(k)
    BY <2>1, <2>2, <2>3, <2>4, <2>5, PlacesDiffer
  <2>6. ASSUME NEW i \in 1..QCap, i < QCap, f = QueueAt(k, i)
        PROVE  f = g
    <3>1. e = QueueAt(k, i + 1)
      BY <2>1, <2>6, PlacesDiffer
    <3>2. g # HandOf(k)
      BY <2>2, <2>3, <2>4, <2>6, <3>1, PlacesDiffer
    <3>3. ~(\A j \in 1..QCap : g # QueueAt(k, j))
      BY <2>2, <2>3, <2>4, <2>6, <3>1, <3>2
    <3>4. PICK j \in 1..QCap : g = QueueAt(k, j) /\ h = QueueAt(k, j + 1)
      BY <2>2, <3>2, <3>3
    <3>5. i = j
      <4>1. QueueAt(k, i + 1) = QueueAt(k, j + 1)
        BY <2>3, <3>1, <3>4
      <4>2. i + 1 = j + 1
        BY <4>1 DEF QueueAt
      <4>3. QED
        BY <4>2, QueueAssumption
    <3>6. QED
      BY <2>6, <3>4, <3>5
  <2>7. CASE f # HandOf(k) /\ \A i \in 1..QCap : f # QueueAt(k, i)
    BY <2>1, <2>2, <2>3, <2>4, <2>7
  <2>8. QED
    BY <2>1, <2>5, <2>6, <2>7
<1>5. ASSUME NEW k \in Tasks, Frees(k)
      PROVE  f = g
  BY <1>0, <1>5 DEF Frees, SameAt
<1>6. ASSUME NEW p \in Senders, Loses(p)
      PROVE  f = g
  BY <1>0, <1>6 DEF Loses, SameAt
<1>7. QED
  BY <1>1, <1>2, <1>3, <1>4, <1>5, <1>6 DEF BufferStep

(* What is freed or lost was somewhere, and no buffer gets lost otherwise. *)
LEMMA NextKept == BufferInv /\ BufferStep => Kept'
<1> SUFFICES ASSUME BufferInv, BufferStep
             PROVE  Kept'
  OBVIOUS
<1>0. /\ \A e, h \in Places : At(e) = At(h) /\ At(e) # NoBuf => e = h
      /\ \A b \in Single : b # NoBuf
      /\ \A e \in Places : At(e) # NoBuf => At(e) \in InUse /\ At(e) \in Single
      /\ \A b \in Single : b \in InUse <=> \E e \in Places : At(e) = b
  BY QueueAssumption DEF BufferInv, Distinct, Kept, At, Single
<1>l. \A b \in Single : /\ b \in InUse <=> b \in live /\ b \notin lost
                        /\ b \in lost => b \in live
                        /\ ~(b \in live /\ b \in freed)
  BY DEF InUse, BufferInv, Kept
<1> DEFINE KeptNext ==
             /\ \A b \in Single : b \in live' /\ b \notin lost'
                                    <=> \E e \in Places : At(e)' = b
             /\ \A b \in Single : /\ b \in lost' => b \in live'
                                  /\ ~(b \in live' /\ b \in freed')
<1>s. SUFFICES KeptNext
  BY DEF Kept, InUse, Places, Senders, Single
<1>h. /\ (live \cap Single)' = live' \cap Single
      /\ (freed \cap Single)' = freed' \cap Single
      /\ (lost \cap Single)' = lost' \cap Single
  BY DEF Single
<1>1. CASE NothingMoves
  BY <1>0, <1>1, <1>h, <1>l DEF NothingMoves, SameAt, SameHeap
<1>2. ASSUME NEW p \in Senders, NEW c \in Single, Allocates(p, c)
      PROVE  KeptNext
  BY <1>0, <1>2, <1>h, <1>l, PlaceKinds DEF Allocates, SameAt
<1>3. ASSUME NEW p \in Senders, NEW k \in Tasks, NEW i \in 1..QCap,
             Puts(p, k, i)
      PROVE  KeptNext
  <2>1. CallOf(p) \in Places /\ QueueAt(k, i) \in Places
    BY PlaceKinds
  <2>2. QED
    BY <1>0, <1>3, <1>h, <1>l, <2>1 DEF Puts, SameAt, SameHeap
<1>4. ASSUME NEW k \in Tasks, Takes(k)
      PROVE  KeptNext
  <2>1. HandOf(k) \in Places /\ \A i \in 1..QCap : QueueAt(k, i) \in Places
    BY PlaceKinds
  <2>2. ASSUME NEW b \in Single
        PROVE  (\E e \in Places : At(e) = b) <=> \E e \in Places : At(e)' = b
    <3>1. ASSUME NEW e \in Places, At(e) = b
          PROVE  \E f \in Places : At(f)' = b
      BY <1>0, <1>4, <2>1, <3>1, TakesShifts
    <3>2. ASSUME NEW f \in Places, At(f)' = b
          PROVE  \E e \in Places : At(e) = b
      BY <1>0, <1>4, <3>2, TakesShifts
    <3>3. QED
      BY <3>1, <3>2
  <2>3. SameHeap
    BY <1>4 DEF Takes
  <2>4. QED
    BY <1>0, <1>h, <1>l, <2>2, <2>3 DEF SameHeap
<1>5. ASSUME NEW k \in Tasks, Frees(k)
      PROVE  KeptNext
  <2>1. HandOf(k) \in Places
    BY PlaceKinds
  <2>2. QED
    BY <1>0, <1>5, <1>h, <1>l, <2>1 DEF Frees, SameAt
<1>6. ASSUME NEW p \in Senders, Loses(p)
      PROVE  KeptNext
  <2>1. CallOf(p) \in Places
    BY PlaceKinds
  <2>2. QED
    BY <1>0, <1>6, <1>h, <1>l, <2>1 DEF Loses, SameAt
<1>7. QED
  BY <1>1, <1>2, <1>3, <1>4, <1>5, <1>6 DEF BufferStep

(* No buffer is allocated at first. *)
LEMMA InitBuffers == Init => BufferInv
<1> SUFFICES ASSUME Init
             PROVE  BufferInv
  OBVIOUS
<1>1. CallsOK /\ HandsOK
  BY DEF CallsOK, HandsOK, Init, NoCall, NoMsg, Senders
<1>2. \A k \in Tasks : queue[k] = <<>> /\ Len(queue[k]) = 0
  BY EmptySeq DEF Init
<1>3. ASSUME NEW e \in Places
      PROVE  BufAt(e) = NoBuf
  <2>1. ASSUME NEW k \in Tasks, NEW i \in 1..QCap, e = QueueAt(k, i)
        PROVE  BufAt(e) = NoBuf
    <3>1. ~(i <= Len(queue[k]))
      BY <1>2, QueueAssumption
    <3>2. QED
      BY <2>1, <3>1, BufPlaces
  <2>2. CASE \E k \in Tasks : e = HandOf(k)
    BY <2>2, BufPlaces DEF Init, NoMsg
  <2>3. CASE \E p \in Senders : e = CallOf(p)
    BY <2>3, BufPlaces DEF Init, NoCall, NoMsg
  <2>4. QED
    BY <2>1, <2>2, <2>3, PlaceKinds
<1>4. \A e \in Places : At(e) = NoBuf
  BY <1>3 DEF At
<1>5. Distinct /\ Kept
  BY <1>4, QueueAssumption DEF Distinct, Kept, InUse, Init, Single
<1>6. QED
  BY <1>1, <1>5 DEF BufferInv

LEMMA BufferInvariance == Spec => []BufferInv
<1>1. Init => BufferInv
  BY InitBuffers
<1>2. IInv /\ BufferInv /\ [Next]_vars => BufferInv'
  BY NextCalls, NextHands, StepMoves, NextDistinct, NextKept DEF BufferInv
<1>3. QED
  BY <1>1, <1>2, Invariance, PTL DEF Spec

(* A buffer that is sent to one task has exactly one holder until it is freed,
   and none after: a send that succeeds hands it over in the step that
   delivers.  It is lost by a send that fails, and by nothing else: it stays
   allocated then, and nobody has it. *)
THEOREM OneHolderSafe == Spec => []OneHolderUntilFreed
<1>1. BufferInv => OneHolderUntilFreed
  <2> SUFFICES ASSUME BufferInv, NEW b \in Bufs \ BroadcastBufs
               PROVE  /\ b \in live \ lost => Cardinality(Holders(b)) = 1
                      /\ b \in freed \cup lost => Holders(b) = {}
                      /\ b \notin freed \cap lost
    BY DEF OneHolderUntilFreed
  <2>1. b \in Single /\ b # NoBuf
    BY QueueAssumption DEF Single
  <2>2. \A e \in Places : At(e) = b <=> MsgAt(e).buf = b
    BY <2>1 DEF At, BufAt
  <2>3. Holders(b) = {e \in Places : At(e) = b}
    BY <2>2 DEF Holders
  <2>4. ASSUME b \in live \ lost
        PROVE  Cardinality(Holders(b)) = 1
    <3>1. PICK e \in Places : At(e) = b
      BY <2>1, <2>4 DEF BufferInv, Kept, InUse
    <3>2. Holders(b) = {e}
      BY <2>1, <2>3, <3>1 DEF BufferInv, Distinct
    <3>3. QED
      BY <3>2, FS_Singleton
  <2>5. ASSUME b \in freed \cup lost
        PROVE  Holders(b) = {}
    BY <2>1, <2>3, <2>5 DEF BufferInv, Kept, InUse
  <2>6. b \notin freed \cap lost
    BY <2>1 DEF BufferInv, Kept
  <2>7. QED
    BY <2>4, <2>5, <2>6
<1>2. QED
  BY <1>1, BufferInvariance, PTL

(* What NoDanglingMessage says is true of every buffer that is not broadcast:
   no message in a queue or in a handler's hands carries one that was freed. *)
SingleNeverDangle ==
  \A k \in Tasks :
    /\ \A i \in 1..Len(queue[k]) : queue[k][i].buf \notin freed \cap Single
    /\ m_TaskMsg[k].buf \notin freed \cap Single

THEOREM OnlyBroadcastsDangle == Spec => []SingleNeverDangle
<1>1. ASSUME IInv, BufferInv, NEW e \in Places
      PROVE  BufAt(e) \notin freed \cap Single
  <2>1. ASSUME BufAt(e) \in Single
        PROVE  BufAt(e) \in live
    BY <1>1, <2>1, QueueAssumption DEF BufferInv, Kept, InUse, At
  <2>2. QED
    BY <1>1, <2>1 DEF BufferInv, Kept
<1>2. ASSUME IInv, BufferInv, NEW k \in Tasks
      PROVE  /\ \A i \in 1..Len(queue[k]) :
                  queue[k][i].buf \notin freed \cap Single
             /\ m_TaskMsg[k].buf \notin freed \cap Single
  <2>1. Len(queue[k]) \in Nat /\ Len(queue[k]) <= QCap
    BY <1>2 DEF IInv, TypeOK
  <2>2. ASSUME NEW i \in 1..Len(queue[k])
        PROVE  queue[k][i].buf \notin freed \cap Single
    <3>1. i \in 1..QCap /\ BufAt(QueueAt(k, i)) = queue[k][i].buf
      BY <2>1, BufPlaces, QueueAssumption
    <3>2. QED
      BY <1>1, <1>2, <3>1, PlaceKinds
  <2>3. m_TaskMsg[k].buf \notin freed \cap Single
    BY <1>1, <1>2, BufPlaces, PlaceKinds
  <2>4. QED
    BY <2>2, <2>3
<1>3. IInv /\ BufferInv => SingleNeverDangle
  BY <1>2 DEF SingleNeverDangle
<1>4. QED
  BY <1>3, Invariance, BufferInvariance, PTL

-----------------------------------------------------------------------------
(* QueueTask implements BufferLife *)

PlaceOf(b) ==
  IF b \in freed THEN <<"freed", NoOne>>
  ELSE IF b \in lost THEN <<"lost", NoOne>>
  ELSE IF b \notin live THEN <<"unused", NoOne>>
  ELSE LET e == CHOOSE x \in Places : At(x) = b IN <<e[1], e[2]>>

where == [b \in Single |-> PlaceOf(b)]

Life == INSTANCE BufferLife
        WITH Bufs <- Single, Nobody <- NoOne, place <- where

LocatedAll ==
  \A b \in Single :
    /\ b \in freed => PlaceOf(b) = <<"freed", NoOne>>
    /\ b \in lost => PlaceOf(b) = <<"lost", NoOne>>
    /\ b \notin live \cup freed => PlaceOf(b) = <<"unused", NoOne>>
    /\ \A e \in Places : At(e) = b => PlaceOf(b) = <<e[1], e[2]>>

(* Where a buffer is, for BufferLife, before a step and after it. *)
LEMMA Located == BufferInv => LocatedAll
<1> SUFFICES ASSUME BufferInv, NEW b \in Single
             PROVE  /\ b \in freed => PlaceOf(b) = <<"freed", NoOne>>
                    /\ b \in lost => PlaceOf(b) = <<"lost", NoOne>>
                    /\ b \notin live \cup freed
                         => PlaceOf(b) = <<"unused", NoOne>>
                    /\ \A e \in Places :
                         At(e) = b => PlaceOf(b) = <<e[1], e[2]>>
  BY DEF LocatedAll
<1>0. /\ b \in lost => b \in live
      /\ ~(b \in live /\ b \in freed)
  BY DEF BufferInv, Kept
<1>1. ASSUME NEW e \in Places, At(e) = b
      PROVE  PlaceOf(b) = <<e[1], e[2]>>
  <2>1. b # NoBuf
    BY QueueAssumption DEF Single
  <2>2. b \in live /\ b \notin lost /\ b \notin freed
    BY <1>0, <1>1 DEF BufferInv, Kept, InUse
  <2>3. (CHOOSE x \in Places : At(x) = b) = e
    BY <1>1, <2>1 DEF BufferInv, Distinct
  <2>4. QED
    BY <2>2, <2>3 DEF PlaceOf
<1>2. QED
  BY <1>0, <1>1 DEF PlaceOf

LEMMA LocatedNext == BufferInv' => LocatedAll'
BY Located, PTL

(* A buffer that stays unused, freed, lost, or with the same holder has not
   moved. *)
LEMMA Rests ==
  ASSUME LocatedAll, LocatedAll', BufferInv, NEW b \in Single,
         b \in live' <=> b \in live, b \in freed' <=> b \in freed,
         b \in lost' <=> b \in lost,
         \A e \in Places : At(e) = b =>
           \E f \in Places : At(f)' = b /\ f[1] = e[1] /\ f[2] = e[2]
  PROVE  PlaceOf(b)' = PlaceOf(b)
<1>1. CASE b \in freed
  BY <1>1 DEF LocatedAll
<1>2. CASE b \notin live \cup freed
  BY <1>2 DEF LocatedAll
<1>3. CASE b \in live \ lost
  <2>1. PICK e \in Places : At(e) = b
    BY <1>3 DEF BufferInv, Kept, InUse
  <2>2. PICK f \in Places : At(f)' = b /\ f[1] = e[1] /\ f[2] = e[2]
    BY <2>1
  <2>3. PlaceOf(b) = <<e[1], e[2]>> /\ PlaceOf(b)' = <<f[1], f[2]>>
    BY <2>1, <2>2 DEF LocatedAll
  <2>4. QED
    BY <2>2, <2>3
<1>4. CASE b \in lost
  BY <1>4 DEF LocatedAll
<1>5. QED
  BY <1>1, <1>2, <1>3, <1>4

(* A step that moves one buffer and lets the others rest is a Move. *)
LEMMA OneMoves ==
  ASSUME NEW b \in Single, NEW from, NEW to,
         PlaceOf(b) \in from, PlaceOf(b)' = to,
         \A o \in Single \ {b} : PlaceOf(o)' = PlaceOf(o)
  PROVE  Life!Move(b, from, to)
BY DEF Life!Move, where, Single

(* A step of QueueTask is one of BufferLife, or moves nothing. *)
LEMMA LifeStep ==
  ASSUME BufferInv, BufferInv', BufferStep
  PROVE  [Life!Next]_where
<1> USE DEF Life!Unused, Life!Freed, Life!Lost
<1>0. /\ LocatedAll /\ LocatedAll'
      /\ \A b \in Single : b # NoBuf
      /\ \A e \in Places : At(e) # NoBuf => At(e) \in Single /\ At(e) \in live
      /\ \A e, f \in Places : At(e) = At(f) /\ At(e) # NoBuf => e = f
  BY Located, LocatedNext, QueueAssumption
  DEF BufferInv, Distinct, Kept, InUse, At, Single
<1>h. /\ (live \cap Single)' = live' \cap Single
      /\ (freed \cap Single)' = freed' \cap Single
      /\ (lost \cap Single)' = lost' \cap Single
  BY DEF Single
<1>p. /\ \A k \in Tasks, i \in 1..QCap : /\ QueueAt(k, i) \in Places
                                         /\ QueueAt(k, i)[1] = "queue"
                                         /\ QueueAt(k, i)[2] = k
      /\ \A k \in Tasks : /\ HandOf(k) \in Places
                          /\ HandOf(k)[1] = "hand" /\ HandOf(k)[2] = k
      /\ \A p \in Senders : /\ CallOf(p) \in Places
                            /\ CallOf(p)[1] = "call" /\ CallOf(p)[2] = p
  BY PlaceKinds DEF QueueAt, HandOf, CallOf
<1>r. ASSUME \A b \in Single : PlaceOf(b)' = PlaceOf(b)
      PROVE  where' = where
  BY <1>r DEF where, Single
<1>1. CASE NothingMoves
  <2>1. ASSUME NEW b \in Single
        PROVE  PlaceOf(b)' = PlaceOf(b)
    <3>1. /\ b \in live' <=> b \in live
          /\ b \in freed' <=> b \in freed
          /\ b \in lost' <=> b \in lost
      BY <1>1, <1>h DEF NothingMoves, SameHeap
    <3>2. \A e \in Places : At(e)' = At(e)
      BY <1>1 DEF NothingMoves, SameAt
    <3>3. QED
      BY <1>0, <3>1, <3>2, Rests
  <2>2. QED
    BY <1>r, <2>1
<1>2. ASSUME NEW p \in Senders, NEW b \in Single, Allocates(p, b)
      PROVE  Life!Next
  <2>1. PlaceOf(b) \in {Life!Unused}
    BY <1>0, <1>2 DEF Allocates, LocatedAll
  <2>2. PlaceOf(b)' = <<"call", p>>
    BY <1>0, <1>2, <1>p DEF Allocates, LocatedAll
  <2>3. ASSUME NEW o \in Single \ {b}
        PROVE  PlaceOf(o)' = PlaceOf(o)
    <3>1. /\ o \in live' <=> o \in live
          /\ o \in freed' <=> o \in freed
          /\ o \in lost' <=> o \in lost
      BY <1>2, <1>h DEF Allocates
    <3>2. \A e \in Places : At(e) = o => At(e)' = o
      BY <1>0, <1>2 DEF Allocates, SameAt
    <3>3. QED
      BY <1>0, <3>1, <3>2, Rests
  <2>4. Life!Move(b, {Life!Unused}, <<"call", p>>)
    BY <2>1, <2>2, <2>3, OneMoves
  <2>5. QED
    BY <2>4 DEF Life!Allocate, Life!Next
<1>3. ASSUME NEW p \in Senders, NEW k \in Tasks, NEW i \in 1..QCap,
             Puts(p, k, i)
      PROVE  Life!Next
  <2>1. PICK b \in Single : b = At(CallOf(p)) /\ b # NoBuf
    BY <1>0, <1>3, <1>p DEF Puts
  <2>2. PlaceOf(b) \in {"call"} \X Senders
    <3>1. PlaceOf(b) = <<"call", p>>
      BY <1>0, <1>p, <2>1 DEF LocatedAll
    <3>2. QED
      BY <3>1
  <2>3. PlaceOf(b)' = <<"queue", k>>
    <3>1. At(QueueAt(k, i))' = b
      BY <1>3, <2>1 DEF Puts
    <3>2. QED
      BY <1>0, <1>p, <3>1 DEF LocatedAll
  <2>4. ASSUME NEW o \in Single \ {b}
        PROVE  PlaceOf(o)' = PlaceOf(o)
    <3>1. /\ o \in live' <=> o \in live
          /\ o \in freed' <=> o \in freed
          /\ o \in lost' <=> o \in lost
      BY <1>3, <1>h DEF Puts, SameHeap
    <3>2. \A e \in Places : At(e) = o => At(e)' = o
      BY <1>0, <1>3, <2>1 DEF Puts, SameAt
    <3>3. QED
      BY <1>0, <3>1, <3>2, Rests
  <2>5. Life!Move(b, {"call"} \X Senders, <<"queue", k>>)
    BY <2>2, <2>3, <2>4, OneMoves
  <2>6. QED
    BY <2>5 DEF Life!Send, Life!Next
<1>4. ASSUME NEW k \in Tasks, Takes(k)
      PROVE  [Life!Next]_where
  <2>q. 1 \in 1..QCap
    BY QueueAssumption
  <2>1. ASSUME NEW o \in Single, At(QueueAt(k, 1)) # o
        PROVE  PlaceOf(o)' = PlaceOf(o)
    <3>1. /\ o \in live' <=> o \in live
          /\ o \in freed' <=> o \in freed
          /\ o \in lost' <=> o \in lost
      BY <1>4, <1>h DEF Takes, SameHeap
    <3>2. ASSUME NEW e \in Places, At(e) = o
          PROVE  \E f \in Places : At(f)' = o /\ f[1] = e[1] /\ f[2] = e[2]
      <4>1. CASE \E i \in 1..QCap : /\ e = QueueAt(k, i + 1)
                                    /\ At(QueueAt(k, i))' = At(e)
        <5>1. PICK i \in 1..QCap : /\ e = QueueAt(k, i + 1)
                                   /\ At(QueueAt(k, i))' = At(e)
          BY <4>1
        <5>2. e[1] = "queue" /\ e[2] = k
          BY <5>1 DEF QueueAt
        <5>3. QED
          BY <1>p, <3>2, <5>1, <5>2
      <4>2. CASE At(e)' = At(e)
        BY <3>2, <4>2
      <4>3. QED
        BY <1>0, <1>4, <2>1, <3>2, <4>1, <4>2, TakesShifts
    <3>3. QED
      BY <1>0, <3>1, <3>2, Rests
  <2>2. CASE At(QueueAt(k, 1)) = NoBuf
    BY <1>0, <1>r, <2>1, <2>2
  <2>3. CASE At(QueueAt(k, 1)) # NoBuf
    <3>1. PICK b \in Single : b = At(QueueAt(k, 1))
      BY <1>0, <1>p, <2>3, <2>q
    <3>2. PlaceOf(b) \in {<<"queue", k>>}
      BY <1>0, <1>p, <2>q, <3>1 DEF LocatedAll
    <3>3. PlaceOf(b)' = <<"hand", k>>
      <4>1. At(HandOf(k))' = b
        BY <1>4, <3>1 DEF Takes
      <4>2. QED
        BY <1>0, <1>p, <4>1 DEF LocatedAll
    <3>4. Life!Move(b, {<<"queue", k>>}, <<"hand", k>>)
      BY <2>1, <3>1, <3>2, <3>3, OneMoves
    <3>5. QED
      BY <3>4 DEF Life!Receive, Life!Next
  <2>4. QED
    BY <2>2, <2>3
<1>5. ASSUME NEW p \in Senders, Loses(p)
      PROVE  Life!Next
  <2>1. PICK b \in Single : b = At(CallOf(p)) /\ b # NoBuf
    BY <1>0, <1>5, <1>p DEF Loses
  <2>2. PlaceOf(b) \in {"call"} \X Senders
    <3>1. PlaceOf(b) = <<"call", p>>
      BY <1>0, <1>p, <2>1 DEF LocatedAll
    <3>2. QED
      BY <3>1
  <2>3. PlaceOf(b)' = Life!Lost
    <3>1. b \in lost'
      BY <1>5, <1>h, <2>1 DEF Loses
    <3>2. QED
      BY <1>0, <3>1 DEF LocatedAll
  <2>4. ASSUME NEW o \in Single \ {b}
        PROVE  PlaceOf(o)' = PlaceOf(o)
    <3>1. /\ o \in live' <=> o \in live
          /\ o \in freed' <=> o \in freed
          /\ o \in lost' <=> o \in lost
      BY <1>5, <1>h, <2>1 DEF Loses
    <3>2. \A f \in Places : At(f) = o => At(f)' = o
      BY <1>0, <1>5, <2>1 DEF Loses, SameAt
    <3>3. QED
      BY <1>0, <3>1, <3>2, Rests
  <2>5. Life!Move(b, {"call"} \X Senders, Life!Lost)
    BY <2>2, <2>3, <2>4, OneMoves
  <2>6. QED
    BY <2>5 DEF Life!Lose, Life!Next
<1>6. ASSUME NEW k \in Tasks, Frees(k)
      PROVE  Life!Next
  <2>1. PICK b \in Single : b = At(HandOf(k)) /\ b # NoBuf
    BY <1>0, <1>6, <1>p DEF Frees
  <2>2. PlaceOf(b) \in {"hand"} \X Tasks
    <3>1. PlaceOf(b) = <<"hand", k>>
      BY <1>0, <1>p, <2>1 DEF LocatedAll
    <3>2. QED
      BY <3>1
  <2>3. PlaceOf(b)' = Life!Freed
    <3>1. b \in freed'
      BY <1>6, <1>h, <2>1 DEF Frees
    <3>2. QED
      BY <1>0, <3>1 DEF LocatedAll
  <2>4. ASSUME NEW o \in Single \ {b}
        PROVE  PlaceOf(o)' = PlaceOf(o)
    <3>1. /\ o \in live' <=> o \in live
          /\ o \in freed' <=> o \in freed
          /\ o \in lost' <=> o \in lost
      BY <1>6, <1>h, <2>1 DEF Frees
    <3>2. \A f \in Places : At(f) = o => At(f)' = o
      BY <1>0, <1>6, <2>1 DEF Frees, SameAt
    <3>3. QED
      BY <1>0, <3>1, <3>2, Rests
  <2>5. Life!Move(b, {"hand"} \X Tasks, Life!Freed)
    BY <2>2, <2>3, <2>4, OneMoves
  <2>6. QED
    BY <2>5 DEF Life!Free, Life!Next
<1>7. QED
  BY <1>1, <1>2, <1>3, <1>4, <1>5, <1>6 DEF BufferStep

(* QueueTask keeps BufferLife's promise for every buffer that is sent to one
   task: it goes from its sender to one queue, from there to the hands of the
   task that has the queue and to no other, and it is freed once, by the task
   that received it; only a send that failed loses it. *)
THEOREM BuffersKeepTheirLife == Spec => Life!Spec
<1>1. Init => Life!Init
  BY DEF Init, Life!Init, Life!Unused, where, PlaceOf, Single
<1>2. BufferInv /\ BufferInv' /\ IInv /\ [Next]_vars => [Life!Next]_where
  BY StepMoves, LifeStep
<1>3. QED
  BY <1>1, <1>2, Invariance, BufferInvariance, PTL DEF Spec, Life!Spec

=============================================================================
