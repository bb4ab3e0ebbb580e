----------------------------- MODULE TaskProofs -----------------------------
(***************************************************************************)
(* Safety of the CAefTask life cycle, for any sets of callers and threads. *)
(* The inductive invariant is IInv; the other results are read off it.     *)
(***************************************************************************)
EXTENDS Task, TLAPS

(* TypeOK is inductive but for the range of the semaphore, which depends on
   who holds it: a post is safe because the actor that makes it is the one
   holder. *)
IInv == TypeOK /\ SemaphoreIsToken /\ RegisteredWhileRunning

(* The invariant holds of a task that was just constructed: the semaphore is
   free and no thread exists. *)
LEMMA InitIInv == Init => IInv
  <1> SUFFICES ASSUME Init PROVE IInv
    OBVIOUS
  <1> USE ActorsAssumption DEF Actors, CallerPCs, ThreadPCs, BodyPCs, AfterPCs
  <1>1. TypeOK
    BY DEF Init, TypeOK
  <1>2. \A p \in Actors : pc[p] \in {"idle", "unused"}
    BY DEF Init
  <1>3. SemaphoreIsToken
    <2>1. \A p \in Actors : ~Holds(p)
      BY <1>2 DEF Holds
    <2>2. m_semTaskStop # 0
      BY DEF Init
    <2>3. QED
      BY <2>1, <2>2 DEF SemaphoreIsToken
  <1>4. RegisteredWhileRunning
    BY <1>2 DEF Init, RegisteredWhileRunning
  <1>5. QED
    BY <1>1, <1>3, <1>4 DEF IInv

(* No step takes a member out of its type; the semaphore stays binary because
   whoever posts it is its only holder. *)
LEMMA NextTypeOK == IInv /\ [Next]_vars => TypeOK'
  <1> SUFFICES ASSUME IInv, [Next]_vars PROVE TypeOK'
    OBVIOUS
  <1> USE ActorsAssumption DEF Actors, CallerPCs, ThreadPCs, BodyPCs, AfterPCs,
          At, Goto,
          idVars, flagVars, lifeVars
  <1>t. TypeOK
    BY DEF IInv
  <1>1. ASSUME NEW c \in Callers, CallerStep(c) PROVE TypeOK'
    <2>1. CASE Start(c)
      BY <1>t, <2>1 DEF Start, TypeOK
    <2>2. CASE Create(c)
      BY <1>t, <2>2 DEF Create, TypeOK
    <2>3. CASE CreateFails(c)
      BY <1>t, <2>3 DEF CreateFails, TypeOK
    <2>4. CASE AssignID(c)
      BY <1>t, <2>4 DEF AssignID, TypeOK
    <2>5. CASE Stop(c)
      BY <1>t, <2>5 DEF Stop, TypeOK
    <2>6. CASE StopTryWait(c)
      BY <1>t, <2>6 DEF StopTryWait, TypeOK
    <2>7. CASE StopPost(c)
      <3>1. m_semTaskStop = 0
        BY <2>7 DEF IInv, SemaphoreIsToken, Holds, StopPost
      <3>2. QED
        BY <1>t, <2>7, <3>1 DEF StopPost, TypeOK
    <2>8. CASE StopInform(c)
      BY <1>t, <2>8 DEF StopInform, TypeOK
    <2>9. CASE StopInformClear(c)
      BY <1>t, <2>9 DEF StopInformClear, TypeOK
    <2>10. CASE SetDeleteFlag(c)
      BY <1>t, <2>10 DEF SetDeleteFlag, TypeOK
    <2>11. QED
      BY <1>1, <2>1, <2>2, <2>3, <2>4, <2>5, <2>6, <2>7, <2>8, <2>9, <2>10
      DEF CallerStep
  <1>2. ASSUME NEW t \in Threads, ThreadStep(t) PROVE TypeOK'
    <2>1. CASE Enter(t)
      BY <1>t, <2>1 DEF Enter, TypeOK
    <2>2. CASE Begin(t)
      BY <1>t, <2>2 DEF Begin, TypeOK
    <2>3. CASE InitTask(t)
      BY <1>t, <2>3 DEF InitTask, TypeOK
    <2>4. CASE InitFails(t)
      BY <1>t, <2>4 DEF InitFails, TypeOK
    <2>5. CASE RunEnds(t)
      BY <1>t, <2>5 DEF RunEnds, TypeOK
    <2>6. CASE RunReturns(t)
      BY <1>t, <2>6 DEF RunReturns, TypeOK
    <2>7. CASE SelfStop(t)
      BY <1>t, <2>7 DEF SelfStop, TypeOK
    <2>8. CASE ExitErase(t)
      BY <1>t, <2>8 DEF ExitErase, TypeOK
    <2>9. CASE ExitInvalidate(t)
      BY <1>t, <2>9 DEF ExitInvalidate, TypeOK
    <2>10. CASE Post(t)
      <3>1. m_semTaskStop = 0
        BY <2>10 DEF IInv, SemaphoreIsToken, Holds, Post
      <3>2. QED
        BY <1>t, <2>10, <3>1 DEF Post, TypeOK
    <2>11. CASE Notify(t)
      BY <1>t, <2>11 DEF Notify, TypeOK
    <2>12. CASE Delete(t)
      BY <1>t, <2>12 DEF Delete, TypeOK
    <2>13. CASE RunCleansUp(t)
      BY <1>t, <2>13 DEF RunCleansUp, TypeOK
    <2>14. CASE Inform(t)
      BY <1>t, <2>14 DEF Inform, TypeOK
    <2>15. QED
      BY <1>2, <2>1, <2>2, <2>3, <2>4, <2>5, <2>6, <2>7, <2>8, <2>9, <2>10,
         <2>11, <2>12, <2>13, <2>14
      DEF ThreadStep, ThreadProgress, ThreadWait
  <1>3. CASE UNCHANGED vars
    BY <1>t, <1>3 DEF vars, TypeOK
  <1>5. CASE ReceiverChanges
    BY <1>t, <1>5 DEF ReceiverChanges, TypeOK
  <1>4. QED
    BY <1>1, <1>2, <1>3, <1>5 DEF Next

(* Only StopTryWait and Enter take the semaphore, from 1, when nobody holds
   it; only StopPost and Post give it back, from the one holder. *)
LEMMA NextToken == IInv /\ [Next]_vars => SemaphoreIsToken'
  <1> SUFFICES ASSUME IInv, [Next]_vars PROVE SemaphoreIsToken'
    OBVIOUS
  <1> USE ActorsAssumption DEF Actors, CallerPCs, ThreadPCs, BodyPCs, AfterPCs,
          At, Goto,
          Holds, SemaphoreIsToken
  <1>t. TypeOK /\ SemaphoreIsToken
    BY DEF IInv
  <1>k. ASSUME \A p \in Actors : Holds(p)' <=> Holds(p), UNCHANGED m_semTaskStop
        PROVE SemaphoreIsToken'
    BY <1>t, <1>k
  <1>p. pc \in [Actors -> CallerPCs \cup ThreadPCs] /\ m_semTaskStop \in {0, 1}
    BY <1>t DEF TypeOK
  <1>1. ASSUME NEW c \in Callers, CallerStep(c) PROVE SemaphoreIsToken'
    <2>1. CASE Start(c)
      BY <1>k, <1>p, <2>1 DEF Start
    <2>2. CASE Create(c)
      BY <1>k, <1>p, <2>2 DEF Create
    <2>3. CASE CreateFails(c)
      BY <1>k, <1>p, <2>3 DEF CreateFails
    <2>4. CASE AssignID(c)
      BY <1>k, <1>p, <2>4 DEF AssignID
    <2>5. CASE Stop(c)
      BY <1>k, <1>p, <2>5 DEF Stop
    <2>6. CASE StopTryWait(c)
      BY <1>t, <1>p, <2>6 DEF StopTryWait
    <2>7. CASE StopPost(c)
      BY <1>t, <1>p, <2>7 DEF StopPost
    <2>8. CASE StopInform(c)
      BY <1>k, <1>p, <2>8 DEF StopInform
    <2>9. CASE StopInformClear(c)
      BY <1>k, <1>p, <2>9 DEF StopInformClear
    <2>10. CASE SetDeleteFlag(c)
      BY <1>k, <1>p, <2>10 DEF SetDeleteFlag
    <2>11. QED
      BY <1>1, <2>1, <2>2, <2>3, <2>4, <2>5, <2>6, <2>7, <2>8, <2>9, <2>10
      DEF CallerStep
  <1>2. ASSUME NEW t \in Threads, ThreadStep(t) PROVE SemaphoreIsToken'
    <2>1. CASE Enter(t)
      BY <1>t, <1>p, <2>1 DEF Enter
    <2>2. CASE Begin(t)
      BY <1>k, <1>p, <2>2 DEF Begin
    <2>3. CASE InitTask(t)
      BY <1>k, <1>p, <2>3 DEF InitTask
    <2>4. CASE InitFails(t)
      BY <1>k, <1>p, <2>4 DEF InitFails
    <2>5. CASE RunEnds(t)
      BY <1>k, <1>p, <2>5 DEF RunEnds
    <2>6. CASE RunReturns(t)
      BY <1>k, <1>p, <2>6 DEF RunReturns
    <2>7. CASE SelfStop(t)
      BY <1>k, <1>p, <2>7 DEF SelfStop
    <2>8. CASE ExitErase(t)
      BY <1>k, <1>p, <2>8 DEF ExitErase
    <2>9. CASE ExitInvalidate(t)
      BY <1>k, <1>p, <2>9 DEF ExitInvalidate
    <2>10. CASE Post(t)
      BY <1>t, <1>p, <2>10 DEF Post
    <2>11. CASE Notify(t)
      BY <1>k, <1>p, <2>11 DEF Notify
    <2>12. CASE Delete(t)
      BY <1>k, <1>p, <2>12 DEF Delete
    <2>13. CASE RunCleansUp(t)
      BY <1>k, <1>p, <2>13 DEF RunCleansUp
    <2>14. CASE Inform(t)
      BY <1>k, <1>p, <2>14 DEF Inform
    <2>15. QED
      BY <1>2, <2>1, <2>2, <2>3, <2>4, <2>5, <2>6, <2>7, <2>8, <2>9, <2>10,
         <2>11, <2>12, <2>13, <2>14
      DEF ThreadStep, ThreadProgress, ThreadWait
  <1>3. CASE UNCHANGED vars
    BY <1>k, <1>3 DEF vars
  <1>5. CASE ReceiverChanges
    BY <1>k, <1>5 DEF ReceiverChanges
  <1>4. QED
    BY <1>1, <1>2, <1>3, <1>5 DEF Next

(* Two threads in the body are one thread: the two of them hold the
   semaphore. *)
LEMMA OneInBody ==
  ASSUME SemaphoreIsToken, NEW t \in Threads, NEW u \in Threads,
         InBody(t), InBody(u)
  PROVE  t = u
  BY DEF SemaphoreIsToken, Holds, InBody, Actors

(* The threads between Init and the erasure are all in the body, so the one
   that leaves erases its own entry. *)
LEMMA NextRegistered == IInv /\ [Next]_vars => RegisteredWhileRunning'
  <1> SUFFICES ASSUME IInv, [Next]_vars PROVE RegisteredWhileRunning'
    OBVIOUS
  <1> USE ActorsAssumption DEF Actors, CallerPCs, ThreadPCs, BodyPCs, AfterPCs,
          At, Goto,
          idVars, flagVars, lifeVars
  <1>r. RegisteredWhileRunning /\ SemaphoreIsToken
    BY DEF IInv
  <1>p. pc \in [Actors -> CallerPCs \cup ThreadPCs]
    BY DEF IInv, TypeOK
  <1>k. ASSUME UNCHANGED registered,
               \A t \in Threads :
                 \/ pc'[t] = pc[t]
                 \/ {pc[t], pc'[t]} \cap {"init", "run", "cleanup", "erase"} = {}
        PROVE  RegisteredWhileRunning'
    BY <1>r, <1>k DEF RegisteredWhileRunning
  <1>1. ASSUME NEW c \in Callers, CallerStep(c) PROVE RegisteredWhileRunning'
    <2>1. CASE Start(c)
      BY <1>k, <1>p, <2>1 DEF Start
    <2>2. CASE Create(c)
      BY <1>k, <1>p, <2>2 DEF Create
    <2>3. CASE CreateFails(c)
      BY <1>k, <1>p, <2>3 DEF CreateFails
    <2>4. CASE AssignID(c)
      BY <1>k, <1>p, <2>4 DEF AssignID
    <2>5. CASE Stop(c)
      BY <1>k, <1>p, <2>5 DEF Stop
    <2>6. CASE StopTryWait(c)
      BY <1>k, <1>p, <2>6 DEF StopTryWait
    <2>7. CASE StopPost(c)
      BY <1>k, <1>p, <2>7 DEF StopPost
    <2>8. CASE StopInform(c)
      BY <1>k, <1>p, <2>8 DEF StopInform
    <2>9. CASE StopInformClear(c)
      BY <1>k, <1>p, <2>9 DEF StopInformClear
    <2>10. CASE SetDeleteFlag(c)
      BY <1>k, <1>p, <2>10 DEF SetDeleteFlag
    <2>11. QED
      BY <1>1, <2>1, <2>2, <2>3, <2>4, <2>5, <2>6, <2>7, <2>8, <2>9, <2>10
      DEF CallerStep
  <1>2. ASSUME NEW t \in Threads, ThreadStep(t) PROVE RegisteredWhileRunning'
    <2>1. CASE Enter(t)
      BY <1>k, <1>p, <2>1 DEF Enter
    <2>2. CASE Begin(t)
      BY <1>r, <1>p, <2>2 DEF Begin, RegisteredWhileRunning
    <2>3. CASE InitTask(t)
      BY <1>r, <1>p, <2>3 DEF InitTask, RegisteredWhileRunning
    <2>4. CASE InitFails(t)
      <3>1. pc'[t] = "erase" /\ pc' = [pc EXCEPT ![t] = "erase"]
        BY <1>p, <2>4 DEF InitFails
      <3>2. registered => registered'
        BY <2>4 DEF InitFails
      <3>5. \A u \in Threads : pc'[u] \in {"run", "cleanup"}
                                    => pc[u] \in {"run", "cleanup"}
        BY <1>p, <3>1
      <3>3. \A u \in Threads : pc'[u] \in {"run", "cleanup"} => registered'
        BY <1>r, <3>2, <3>5 DEF RegisteredWhileRunning
      <3>4. QED
        BY <3>1, <3>3 DEF RegisteredWhileRunning
    <2>5. CASE RunEnds(t)
      BY <1>r, <1>p, <2>5 DEF RunEnds, RegisteredWhileRunning
    <2>6. CASE RunReturns(t)
      BY <1>r, <1>p, <2>6 DEF RunReturns, RegisteredWhileRunning
    <2>7. CASE SelfStop(t)
      BY <1>k, <1>p, <2>7 DEF SelfStop
    <2>8. CASE ExitErase(t)
      <3>1. ASSUME NEW u \in Threads, u # t
              PROVE  pc[u] \notin {"run", "cleanup"}
        BY <1>r, <2>8, <3>1, OneInBody DEF ExitErase, InBody
      <3>2. QED
        BY <1>p, <2>8, <3>1 DEF ExitErase, RegisteredWhileRunning
    <2>9. CASE ExitInvalidate(t)
      BY <1>k, <1>p, <2>9 DEF ExitInvalidate
    <2>10. CASE Post(t)
      BY <1>k, <1>p, <2>10 DEF Post
    <2>11. CASE Notify(t)
      BY <1>k, <1>p, <2>11 DEF Notify
    <2>12. CASE Delete(t)
      BY <1>k, <1>p, <2>12 DEF Delete
    <2>13. CASE RunCleansUp(t)
      BY <1>r, <1>p, <2>13 DEF RunCleansUp, RegisteredWhileRunning
    <2>14. CASE Inform(t)
      BY <1>k, <1>p, <2>14 DEF Inform
    <2>15. QED
      BY <1>2, <2>1, <2>2, <2>3, <2>4, <2>5, <2>6, <2>7, <2>8, <2>9, <2>10,
         <2>11, <2>12, <2>13, <2>14
      DEF ThreadStep, ThreadProgress, ThreadWait
  <1>3. CASE UNCHANGED vars
    BY <1>k, <1>3 DEF vars
  <1>5. CASE ReceiverChanges
    BY <1>k, <1>5 DEF ReceiverChanges
  <1>4. QED
    BY <1>1, <1>2, <1>3, <1>5 DEF Next

(* The invariant holds in every reachable state. *)
THEOREM Invariance == Spec => []IInv
  <1>1. IInv /\ [Next]_vars => IInv'
    BY NextTypeOK, NextToken, NextRegistered DEF IInv
  <1>2. QED
    BY InitIInv, <1>1, PTL DEF Spec

(* Every member keeps its type; in particular the semaphore stays binary. *)
THEOREM TypeCorrect == Spec => []TypeOK
  BY Invariance, PTL DEF IInv

(* One actor at most is between a wait and a post of m_semTaskStop. *)
THEOREM TokenSafe == Spec => []SemaphoreIsToken
  BY Invariance, PTL DEF IInv

(* The map of task names holds the name exactly as long as a thread of the
   task is between Init and Exit. *)
THEOREM RegistrationSafe == Spec => []RegisteredWhileRunning
  BY Invariance, PTL DEF IInv

(* Only Begin sets the flag, and a thread cannot be at Begin while another is
   in Run. *)
THEOREM StopIsSticky == Spec => StopSticks
  <1>1. ASSUME IInv, [Next]_vars, NEW t \in Threads, pc[t] = "run",
               ~m_bTaskRunning
        PROVE  ~m_bTaskRunning'
    <2>1. ASSUME NEW c \in Callers, CallerStep(c) PROVE ~m_bTaskRunning'
      BY <1>1, <2>1
      DEF CallerStep, Start, Create, CreateFails, AssignID, Stop, StopTryWait,
          StopPost, StopInform, StopInformClear, SetDeleteFlag, flagVars
    <2>2. ASSUME NEW u \in Threads, ThreadStep(u) PROVE ~m_bTaskRunning'
      <3>1. ~Begin(u)
        <4>1. ASSUME Begin(u) PROVE FALSE
          <5>1. InBody(u) /\ InBody(t) /\ pc[u] = "begin"
            BY <1>1, <4>1 DEF Begin, At, InBody, BodyPCs
          <5>2. t = u
            BY <1>1, <5>1, OneInBody DEF IInv
          <5>3. QED
            BY <1>1, <5>1, <5>2
        <4>2. QED
          BY <4>1
      <3>2. QED
        BY <1>1, <2>2, <3>1
        DEF ThreadStep, ThreadProgress, ThreadWait, RunCleansUp, Inform,
            Enter, InitTask, InitFails, RunEnds, RunReturns, SelfStop,
            ExitErase, ExitInvalidate, Post, Notify, Delete, flagVars
    <2>3. QED
      BY <1>1, <2>1, <2>2 DEF Next, ReceiverChanges, flagVars, vars
  <1>2. IInv /\ [Next]_vars
          => [\A t \in Threads :
                pc[t] = "run" /\ ~m_bTaskRunning => ~m_bTaskRunning']_vars
    BY <1>1
  <1>3. QED
    BY Invariance, <1>2, PTL DEF Spec, StopSticks

-----------------------------------------------------------------------------
(* What a Stop that succeeds is worth *)

\* No thread is in the body, and none is on its way there.
Quiet == /\ \A t \in Threads : pc[t] \in {"unused"} \cup AfterPCs
         /\ \A c \in Callers : pc[c] # "create"

\* A thread was created and has not come to its sem_wait, or will be.
Arriving == \/ \E t \in Threads : pc[t] = "enter"
            \/ \E c \in Callers : pc[c] = "create"

(* When Stop returns AEF_SUCCESS, the task has stopped, unless a Start is just
   creating a thread or has created one that did not begin yet: these are the
   only cases in which StoppedMeansStopped fails. *)
THEOREM SuccessMeansStopped ==
  Spec => [][\A c \in Callers :
               c \in toldStopped' \ toldStopped => Quiet' \/ Arriving']_vars
  <1>1. ASSUME IInv, IInv', [Next]_vars, NEW c \in Callers,
               c \in toldStopped' \ toldStopped
        PROVE  Quiet' \/ Arriving'
    <2> USE ActorsAssumption DEF Actors
    <2>1. StopPost(c)
      <3>1. ASSUME NEW d \in Callers, CallerStep(d) PROVE StopPost(c)
        BY <1>1, <3>1
        DEF CallerStep, Start, Create, CreateFails, AssignID, Stop,
            StopTryWait, StopPost, StopInform, StopInformClear, SetDeleteFlag
      <3>2. ASSUME NEW t \in Threads, ThreadStep(t) PROVE FALSE
        BY <1>1, <3>2
        DEF ThreadStep, ThreadProgress, ThreadWait, RunCleansUp, Inform,
            Enter, Begin, InitTask, InitFails, RunEnds, RunReturns, SelfStop,
            ExitErase, ExitInvalidate, Post, Notify, Delete
      <3>3. QED
        BY <1>1, <3>1, <3>2 DEF Next, ReceiverChanges, vars
    <2>2. \A t \in Threads : pc[t] \notin BodyPCs
      BY <1>1, <2>1 DEF StopPost, At, IInv, SemaphoreIsToken, Holds
    <2>3. /\ \A t \in Threads : pc'[t] = pc[t]
          /\ \A d \in Callers : pc'[d] # "create" \/ pc[d] = "create"
      BY <2>1, <1>1 DEF StopPost, Goto, IInv, TypeOK
    <2>4. \A t \in Threads :
            pc'[t] \in {"unused", "enter"} \cup AfterPCs
      BY <1>1, <2>2, <2>3 DEF IInv, TypeOK, ThreadPCs
    <2>5. QED
      BY <2>4 DEF Quiet, Arriving
  <1>2. IInv /\ IInv' /\ [Next]_vars
          => [\A c \in Callers :
                c \in toldStopped' \ toldStopped => Quiet' \/ Arriving']_vars
    BY <1>1
  <1>3. QED
    BY Invariance, <1>2, PTL DEF Spec

(* A task that is quiet stays so until somebody starts it: a Stop that
   returned AEF_SUCCESS, with no Start under way, holds until the next Start. *)
THEOREM QuietUntilStart ==
  Spec => [][Quiet => Quiet' \/ \E c \in Callers : Start(c)]_vars
  <1>1. ASSUME IInv, [Next]_vars, Quiet, ~\E c \in Callers : Start(c)
        PROVE  Quiet'
    <2> USE ActorsAssumption DEF Actors, At, Goto, IInv, TypeOK, Quiet,
            AfterPCs
    <2>1. ASSUME NEW c \in Callers, CallerStep(c) PROVE Quiet'
      BY <1>1, <2>1
      DEF CallerStep, Create, CreateFails, AssignID, Stop, StopTryWait,
          StopPost, StopInform, StopInformClear, SetDeleteFlag
    <2>2. ASSUME NEW t \in Threads, ThreadStep(t) PROVE Quiet'
      BY <1>1, <2>2
      DEF ThreadStep, ThreadProgress, ThreadWait, RunCleansUp, Inform, Enter,
          Begin, InitTask, InitFails, RunEnds, RunReturns, SelfStop,
          ExitErase, ExitInvalidate, Post, Notify, Delete
    <2>3. QED
      BY <1>1, <2>1, <2>2 DEF Next, ReceiverChanges, vars
  <1>2. IInv /\ [Next]_vars
          => [Quiet => Quiet' \/ \E c \in Callers : Start(c)]_vars
    BY <1>1
  <1>3. QED
    BY Invariance, <1>2, PTL DEF Spec

-----------------------------------------------------------------------------
(* A task that looks running for ever *)

\* Past ExitInvalidate, a thread never writes m_TaskID again.
Past(t) == pc[t] \in {"post"} \cup AfterPCs

\* The task has an ID, nobody is inside Start, and no thread will clear it.
Lost == /\ m_TaskID # NoThread
        /\ \A t \in Threads : pc[t] = "unused" \/ Past(t)
        /\ \A c \in Callers : pc[c] \notin {"create", "assign"}

(* From then on every Start finds the task running: it keeps the ID. *)
LEMMA LostRests ==
  ASSUME IInv, Lost, [Next]_vars
  PROVE  /\ Lost' /\ m_TaskID' = m_TaskID
         /\ \A t \in Threads : pc[t] = "unused" => pc'[t] = "unused"
  <1> USE ActorsAssumption DEF Actors, At, Goto, IInv, TypeOK, Lost, Past,
          idVars, AfterPCs
  <1>1. ASSUME NEW c \in Callers, CallerStep(c)
        PROVE  /\ Lost' /\ m_TaskID' = m_TaskID
               /\ \A t \in Threads : pc[t] = "unused" => pc'[t] = "unused"
    BY <1>1
    DEF CallerStep, Start, Create, CreateFails, AssignID, Stop, StopTryWait,
        StopPost, StopInform, StopInformClear, SetDeleteFlag
  <1>2. ASSUME NEW t \in Threads, ThreadStep(t)
        PROVE  /\ Lost' /\ m_TaskID' = m_TaskID
               /\ \A u \in Threads : pc[u] = "unused" => pc'[u] = "unused"
    BY <1>2
    DEF ThreadStep, ThreadProgress, ThreadWait, RunCleansUp, Inform, Enter,
        Begin, InitTask, InitFails, RunEnds, RunReturns, SelfStop, ExitErase,
        ExitInvalidate, Post, Notify, Delete
  <1>3. CASE UNCHANGED vars
    BY <1>3 DEF vars
  <1>5. CASE ReceiverChanges
    BY <1>5 DEF ReceiverChanges
  <1>4. QED
    BY <1>1, <1>2, <1>3, <1>5 DEF Next

(* RestartableWhenEnded fails for good: a task whose ID was stored after its
   thread had cleared it can never be started again, by anybody. *)
THEOREM LostForever ==
  ASSUME NEW t \in Threads
  PROVE  Spec => [](Lost /\ pc[t] = "unused" => [](Lost /\ pc[t] = "unused"))
  <1>1. IInv /\ Lost /\ pc[t] = "unused" /\ [Next]_vars
          => Lost' /\ (pc[t] = "unused")'
    BY LostRests
  <1>2. QED
    BY Invariance, <1>1, PTL DEF Spec

(* The handle and the ID are those of threads that were created. *)
Created == \A t \in Threads :
             t \in {m_threadHandle, m_TaskID} => pc[t] # "unused"

LEMMA CreatedSafe == Spec => []Created
  <1>1. Init => Created
    BY ActorsAssumption DEF Init, Created
  <1>2. IInv /\ Created /\ [Next]_vars => Created'
    <2> SUFFICES ASSUME IInv, Created, [Next]_vars PROVE Created'
      OBVIOUS
    <2> USE ActorsAssumption DEF Actors, At, Goto, IInv, TypeOK, Created,
            idVars
    <2>1. ASSUME NEW c \in Callers, CallerStep(c) PROVE Created'
      BY <2>1
      DEF CallerStep, Start, Create, CreateFails, AssignID, Stop, StopTryWait,
          StopPost, StopInform, StopInformClear, SetDeleteFlag
    <2>2. ASSUME NEW t \in Threads, ThreadStep(t) PROVE Created'
      BY <2>2
      DEF ThreadStep, ThreadProgress, ThreadWait, RunCleansUp, Inform, Enter,
          Begin, InitTask, InitFails, RunEnds, RunReturns, SelfStop,
          ExitErase, ExitInvalidate, Post, Notify, Delete
    <2>3. CASE UNCHANGED vars
      BY <2>3 DEF vars
    <2>4. CASE ReceiverChanges
      BY <2>4 DEF ReceiverChanges
    <2>5. QED
      BY <2>1, <2>2, <2>3, <2>4 DEF Next
  <1>3. QED
    BY <1>1, <1>2, Invariance, PTL DEF Spec

(* That happens in one way only: a Start stores the handle of a thread that is
   past its Exit already, or it fails after another Start did that. *)
THEOREM LostByLateStart ==
  Spec => [][~Lost /\ Lost' =>
               \E c \in Callers :
                 \/ AssignID(c) /\ m_threadHandle \in Threads
                                /\ Past(m_threadHandle)
                 \/ CreateFails(c) /\ m_TaskID \in Threads /\ Past(m_TaskID)]_vars
  <1>1. ASSUME IInv, Created, [Next]_vars, ~Lost, Lost'
        PROVE  \E c \in Callers :
                 \/ AssignID(c) /\ m_threadHandle \in Threads
                                /\ Past(m_threadHandle)
                 \/ CreateFails(c) /\ m_TaskID \in Threads /\ Past(m_TaskID)
    <2> USE <1>1, ActorsAssumption DEF Actors, At, Goto, IInv, TypeOK, Lost,
            Past, idVars, AfterPCs
    <2>1. ASSUME NEW c \in Callers, CallerStep(c)
          PROVE  \/ AssignID(c) /\ m_threadHandle \in Threads
                                /\ Past(m_threadHandle)
                 \/ CreateFails(c) /\ m_TaskID \in Threads /\ Past(m_TaskID)
      <3>1. CASE AssignID(c)
        BY <3>1 DEF AssignID, Created
      <3>2. CASE CreateFails(c)
        BY <3>2 DEF CreateFails, Created
      <3>3. CASE ~AssignID(c) /\ ~CreateFails(c)
        BY <2>1, <3>3
        DEF CallerStep, Start, Create, Stop, StopTryWait, StopPost,
            StopInform, StopInformClear, SetDeleteFlag
      <3>4. QED
        BY <3>1, <3>2, <3>3
    <2>2. ASSUME NEW t \in Threads, ThreadStep(t) PROVE FALSE
      BY <2>2
      DEF ThreadStep, ThreadProgress, ThreadWait, RunCleansUp, Inform, Enter,
          Begin, InitTask, InitFails, RunEnds, RunReturns, SelfStop,
          ExitErase, ExitInvalidate, Post, Notify, Delete
    <2>3. QED
      BY <2>1, <2>2 DEF Next, ReceiverChanges, vars
  <1>2. IInv /\ Created /\ [Next]_vars
          => [~Lost /\ Lost' =>
                \E c \in Callers :
                  \/ AssignID(c) /\ m_threadHandle \in Threads
                                 /\ Past(m_threadHandle)
                  \/ CreateFails(c) /\ m_TaskID \in Threads
                                    /\ Past(m_TaskID)]_vars
    BY <1>1
  <1>3. QED
    BY Invariance, CreatedSafe, <1>2, PTL DEF Spec

-----------------------------------------------------------------------------
(* The refinement. *)

(* The thread the refinement calls active is any thread that is in the body. *)
LEMMA ActiveIsTheOne ==
  ASSUME SemaphoreIsToken, NEW t \in Threads, InBody(t)
  PROVE  Active = t
  BY OneInBody DEF Active

(* With no thread in the body the refinement says there is no active one. *)
LEMMA NobodyActive ==
  ASSUME \A t \in Threads : ~InBody(t)
  PROVE  Active = NoThread
  BY DEF Active

(* A task that was just constructed has no active and no finished thread. *)
LEMMA InitRefines == Init => Life!Init
  <1> SUFFICES ASSUME Init PROVE Life!Init
    OBVIOUS
  <1>1. \A t \in Threads : pc[t] = "unused"
    BY ActorsAssumption DEF Init, Actors
  <1>2. Active = NoThread
    BY <1>1, NobodyActive DEF InBody, BodyPCs
  <1>3. Finished = {}
    BY <1>1 DEF Finished, AfterPCs
  <1>4. QED
    BY <1>2, <1>3 DEF Life!Init

(* Three kinds of step matter: Enter puts a thread in the body, Post takes it
   out, and every other step leaves both the body and the threads past it as
   they are. *)
LEMMA NextRefines ==
  IInv /\ IInv' /\ [Next]_vars => [Life!Next]_(Life!vars)
  <1> SUFFICES ASSUME IInv, IInv', [Next]_vars
               PROVE  [Life!Next]_(Life!vars)
    OBVIOUS
  <1> USE ActorsAssumption DEF Actors, At, Goto
  <1>p. /\ pc \in [Actors -> CallerPCs \cup ThreadPCs]
        /\ SemaphoreIsToken /\ SemaphoreIsToken'
    BY DEF IInv, TypeOK
  <1>k. ASSUME \A t \in Threads :
                 /\ InBody(t)' <=> InBody(t)
                 /\ t \in Finished' <=> t \in Finished
        PROVE  UNCHANGED Life!vars
    <2>1. Finished' = Finished
      BY <1>k DEF Finished
    <2>2. Active' = Active
      <3>1. CASE \E t \in Threads : InBody(t)
        <4>1. PICK t \in Threads : InBody(t)
          BY <3>1
        <4>2. InBody(t)'
          BY <1>k, <4>1
        <4>3. \A u \in Threads : InBody(u)' => u = t
          BY <1>k, <1>p, <4>1, OneInBody
        <4>4. Active' = t
          BY <4>2, <4>3 DEF Active
        <4>5. QED
          BY <1>p, <4>1, <4>4, ActiveIsTheOne
      <3>2. CASE \A t \in Threads : ~InBody(t)
        <4>1. \A t \in Threads : ~InBody(t)'
          BY <1>k, <3>2
        <4>2. QED
          BY <3>2, <4>1 DEF Active
      <3>3. QED
        BY <3>1, <3>2
    <2>3. QED
      BY <2>1, <2>2 DEF Life!vars
  <1>1. ASSUME NEW t \in Threads, Enter(t) PROVE Life!Begin(t)
    <2>1. ~\E u \in Threads : InBody(u)
      BY <1>p, <1>1 DEF Enter, SemaphoreIsToken, Holds, InBody
    <2>2. Active = NoThread
      BY <2>1, NobodyActive
    <2>3. pc' = [pc EXCEPT ![t] = "begin"] /\ pc[t] = "enter"
      BY <1>1 DEF Enter
    <2>4. InBody(t)'
      BY <1>p, <2>3 DEF InBody, BodyPCs
    <2>5. \A u \in Threads : InBody(u)' => u = t
      BY <1>p, <2>1, <2>3 DEF InBody
    <2>6. Active' = t
      BY <2>4, <2>5 DEF Active
    <2>7. Finished' = Finished /\ t \notin Finished
      BY <1>p, <2>3 DEF Finished, AfterPCs
    <2>8. QED
      BY <2>2, <2>6, <2>7 DEF Life!Begin
  <1>2. ASSUME NEW t \in Threads, Post(t) PROVE Life!End
    <2>1. pc' = [pc EXCEPT ![t] = "notify"] /\ pc[t] = "post"
      BY <1>2 DEF Post
    <2>2. InBody(t)
      BY <2>1 DEF InBody, BodyPCs
    <2>3. Active = t
      BY <1>p, <2>2, ActiveIsTheOne
    <2>4. \A u \in Threads : ~InBody(u)'
      <3>1. SUFFICES ASSUME NEW u \in Threads, InBody(u)' PROVE FALSE
        OBVIOUS
      <3>2. u # t
        BY <1>p, <2>1, <3>1 DEF InBody, BodyPCs
      <3>3. InBody(u)
        BY <1>p, <2>1, <3>1, <3>2 DEF InBody
      <3>4. QED
        BY <1>p, <2>2, <3>2, <3>3, OneInBody
    <2>5. Active' = NoThread
      BY <2>4 DEF Active
    <2>6. Finished' = Finished \cup {t}
      BY <1>p, <2>1 DEF Finished, AfterPCs
    <2>7. QED
      BY <2>3, <2>5, <2>6 DEF Life!End
  <1> USE DEF InBody, BodyPCs, AfterPCs, Finished
  <1>3. ASSUME NEW c \in Callers, CallerStep(c) PROVE UNCHANGED Life!vars
    <2>0. ASSUME NEW l \in CallerPCs, pc' = [pc EXCEPT ![c] = l]
          PROVE  UNCHANGED Life!vars
      BY <1>k, <1>p, <2>0
    <2>1. CASE Create(c)
      BY <1>k, <1>p, <2>1 DEF Create
    <2>2. CASE ~Create(c)
      <3>1. pc' = pc \/ \E l \in CallerPCs : pc' = [pc EXCEPT ![c] = l]
        BY <1>3, <2>2
        DEF CallerStep, Start, CreateFails, AssignID, Stop, StopTryWait,
            StopPost, StopInform, StopInformClear, SetDeleteFlag, CallerPCs
      <3>2. QED
        BY <1>k, <2>0, <3>1
    <2>3. QED
      BY <2>1, <2>2
  <1>4. ASSUME NEW t \in Threads, ThreadStep(t), ~Enter(t), ~Post(t)
        PROVE  UNCHANGED Life!vars
    <2>1. \/ pc' = pc
          \/ \E l, m \in BodyPCs : pc[t] = l /\ pc' = [pc EXCEPT ![t] = m]
          \/ \E l, m \in AfterPCs :
               pc[t] = l /\ pc' = [pc EXCEPT ![t] = m]
      BY <1>4
      DEF ThreadStep, ThreadProgress, ThreadWait, Begin, InitTask, InitFails,
          RunEnds, RunCleansUp, RunReturns, SelfStop, ExitErase,
          ExitInvalidate, Notify, Inform, Delete
    <2>2. QED
      BY <1>k, <1>p, <2>1
  <1>5. CASE UNCHANGED vars
    BY <1>k, <1>5 DEF vars
  <1>6. CASE ReceiverChanges
    BY <1>k, <1>6 DEF ReceiverChanges
  <1>7. QED
    BY <1>1, <1>2, <1>3, <1>4, <1>5, <1>6 DEF Next, Life!Next

(* The life cycle implements TaskLife for any callers and threads: the body
   is executed by one thread at a time, and by each thread once. *)
THEOREM Refinement == Spec => OneThreadAtATime
  BY Invariance, InitRefines, NextRefines, PTL
  DEF Spec, OneThreadAtATime, Life!Spec
=============================================================================
