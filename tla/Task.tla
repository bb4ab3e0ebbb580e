-------------------------------- MODULE Task --------------------------------
(***************************************************************************)
(* The life cycle of one CAefTask object (aefTask.cpp): threads of the     *)
(* application start and stop it, each successful Start creates a thread   *)
(* that executes RunWrapper, and nothing but a semaphore orders any of it. *)
(*                                                                         *)
(* A member that the code reads or writes without a lock is read and       *)
(* written here in a step of its own wherever another thread can see the   *)
(* difference.  A thread of Threads is created once, so the set bounds the *)
(* number of successful Starts.                                            *)
(*                                                                         *)
(* sem_timedwait takes an absolute deadline and Stop passes it a time near *)
(* 1970, so it never waits: it takes the semaphore when it is free and     *)
(* fails at once when it is not, whatever the caller asked for.            *)
(***************************************************************************)
EXTENDS Naturals

CONSTANTS Callers,   \* threads of the application that call the object
          Threads,   \* threads pthread_create can return
          NoThread   \* AEF_INVALID_TASK_ID and INVALID_THREAD_HANDLE

ASSUME ActorsAssumption == /\ Callers \cap Threads = {}
                           /\ NoThread \notin Callers \cup Threads

VARIABLES
  m_TaskID,          \* the thread IsRunning() goes by, or NoThread
  m_threadHandle,    \* what pthread_create wrote, or NoThread
  m_bTaskRunning,    \* the flag Run() polls
  m_pStopInformTask, \* TRUE when it is not NULL
  m_bDeleteMyself,
  m_semTaskStop,     \* value of the semaphore
  registered,        \* the task's name has an entry in m_TQMap
  informed,          \* the threads that sent their "we've stopped" message
  receiver,          \* "running" or "ended": the task that is to be informed
  alive,             \* FALSE once the object has deleted itself, or the
                     \* program has called through NULL
  pc,                \* where each caller and each thread is
  toldStopped        \* the callers whose last Start or Stop was a Stop that
                     \* returned AEF_SUCCESS

vars == <<m_TaskID, m_threadHandle, m_bTaskRunning, m_pStopInformTask,
          m_bDeleteMyself, m_semTaskStop, registered, informed, receiver, alive,
          pc, toldStopped>>

idVars   == <<m_TaskID, m_threadHandle>>
flagVars == <<m_bTaskRunning, m_pStopInformTask, m_bDeleteMyself>>
lifeVars == <<registered, informed, receiver, alive>>

Actors == Callers \cup Threads

\* Start: past the test of m_TaskID; pthread_create has succeeded.
\* Stop: the flag is cleared; the semaphore is held.
\* Stop(pTask, msgID): the task to inform is stored, the flag is not cleared.
CallerPCs == {"idle", "create", "assign", "stopWait", "stopPost", "informStop"}

\* The steps of RunWrapper, in order; "cleanup" is Run past its loop.
BodyPCs   == {"begin", "init", "run", "cleanup", "erase", "invalidate", "post"}
AfterPCs  == {"notify", "inform", "delete", "done"}
ThreadPCs == {"unused", "enter"} \cup BodyPCs \cup AfterPCs

\* Once the object is freed its members have no defined value: nothing that
\* would touch them is modelled.
At(p, l) == alive /\ pc[p] = l
Goto(p, l) == pc' = [pc EXCEPT ![p] = l]

\* CAefTask::Construct
Init ==
  /\ m_TaskID = NoThread
  /\ m_threadHandle = NoThread
  /\ m_bTaskRunning = FALSE
  /\ m_pStopInformTask = FALSE
  /\ m_bDeleteMyself = FALSE
  /\ m_semTaskStop = 1
  /\ registered = FALSE
  /\ informed = {}
  /\ receiver = "running"
  /\ alive = TRUE
  /\ pc = [p \in Actors |-> IF p \in Callers THEN "idle" ELSE "unused"]
  /\ toldStopped = {}

-----------------------------------------------------------------------------
(* The callers *)

\* A Start that also sets the flag for the thread it will create.
Start_SetsRunning(c) ==
  /\ At(c, "idle")
  /\ toldStopped' = toldStopped \ {c}
  /\ \/ /\ m_TaskID = NoThread
        /\ m_bTaskRunning' = TRUE
        /\ m_pStopInformTask' = FALSE
        /\ m_bDeleteMyself' = FALSE
        /\ Goto(c, "create")
     \/ /\ m_TaskID # NoThread
        /\ UNCHANGED <<flagVars, pc>>
  /\ UNCHANGED <<idVars, m_semTaskStop, lifeVars>>

\* Start up to pthread_create: a task that has an ID is not started again.
Start(c) ==
  /\ At(c, "idle")
  /\ toldStopped' = toldStopped \ {c}
  /\ \/ /\ m_TaskID = NoThread
        /\ m_pStopInformTask' = FALSE
        /\ m_bDeleteMyself' = FALSE
        /\ Goto(c, "create")
     \/ /\ m_TaskID # NoThread
        /\ UNCHANGED <<m_pStopInformTask, m_bDeleteMyself, pc>>
  /\ UNCHANGED <<idVars, m_bTaskRunning, m_semTaskStop, lifeVars>>

\* pthread_create succeeds: the new thread may run before the caller does.
Create(c) ==
  /\ At(c, "create")
  /\ \E t \in Threads :
       /\ At(t, "unused")
       /\ m_threadHandle' = t
       /\ pc' = [pc EXCEPT ![c] = "assign", ![t] = "enter"]
  /\ UNCHANGED <<m_TaskID, flagVars, m_semTaskStop, lifeVars, toldStopped>>

CreateFails(c) ==
  /\ At(c, "create")
  /\ m_threadHandle' = NoThread
  /\ Goto(c, "idle")
  /\ UNCHANGED <<m_TaskID, flagVars, m_semTaskStop, lifeVars, toldStopped>>

\* m_TaskID = m_threadHandle, which another Start may have overwritten.
AssignID(c) ==
  /\ At(c, "assign")
  /\ m_TaskID' = m_threadHandle
  /\ Goto(c, "idle")
  /\ UNCHANGED <<m_threadHandle, flagVars, m_semTaskStop, lifeVars,
                 toldStopped>>

\* Stop(msWait) from a thread that is not the task's own.
Stop(c) ==
  /\ At(c, "idle")
  /\ m_bTaskRunning' = FALSE
  /\ toldStopped' = toldStopped \ {c}
  /\ Goto(c, "stopWait")
  /\ UNCHANGED <<idVars, m_pStopInformTask, m_bDeleteMyself, m_semTaskStop,
                 lifeVars>>

\* A Stop that posts the semaphore whether or not it got it.
StopTryWait_AlwaysPosts(c) ==
  /\ At(c, "stopWait")
  /\ m_semTaskStop' = IF m_semTaskStop > 0 THEN m_semTaskStop - 1 ELSE 0
  /\ Goto(c, "stopPost")
  /\ UNCHANGED <<idVars, flagVars, lifeVars, toldStopped>>

StopTryWait(c) ==
  /\ At(c, "stopWait")
  /\ \/ /\ m_semTaskStop > 0
        /\ m_semTaskStop' = m_semTaskStop - 1
        /\ Goto(c, "stopPost")
     \/ /\ m_semTaskStop = 0
        /\ UNCHANGED m_semTaskStop
        /\ Goto(c, "idle")
  /\ UNCHANGED <<idVars, flagVars, lifeVars, toldStopped>>

StopPost(c) ==
  /\ At(c, "stopPost")
  /\ m_semTaskStop' = m_semTaskStop + 1
  /\ toldStopped' = toldStopped \cup {c}
  /\ Goto(c, "idle")
  /\ UNCHANGED <<idVars, flagVars, lifeVars>>

\* Stop(pTask, msgID): two stores, the task to inform first.
StopInform(c) ==
  /\ At(c, "idle")
  /\ m_pStopInformTask' = TRUE
  /\ Goto(c, "informStop")
  /\ UNCHANGED <<idVars, m_bTaskRunning, m_bDeleteMyself, m_semTaskStop,
                 lifeVars, toldStopped>>

StopInformClear(c) ==
  /\ At(c, "informStop")
  /\ m_bTaskRunning' = FALSE
  /\ Goto(c, "idle")
  /\ UNCHANGED <<idVars, m_pStopInformTask, m_bDeleteMyself, m_semTaskStop,
                 lifeVars, toldStopped>>

SetDeleteFlag(c) ==
  /\ At(c, "idle")
  /\ m_bDeleteMyself' = TRUE
  /\ UNCHANGED <<idVars, m_bTaskRunning, m_pStopInformTask, m_semTaskStop,
                 lifeVars, pc, toldStopped>>

-----------------------------------------------------------------------------
(* RunWrapper, executed by each created thread *)

\* The thread does not wait for the semaphore.
Enter_NoWait(t) ==
  /\ At(t, "enter")
  /\ m_semTaskStop' = 0
  /\ Goto(t, "begin")
  /\ UNCHANGED <<idVars, flagVars, lifeVars, toldStopped>>

\* sem_wait
Enter(t) ==
  /\ At(t, "enter")
  /\ m_semTaskStop > 0
  /\ m_semTaskStop' = m_semTaskStop - 1
  /\ Goto(t, "begin")
  /\ UNCHANGED <<idVars, flagVars, lifeVars, toldStopped>>

Begin(t) ==
  /\ At(t, "begin")
  /\ m_bTaskRunning' = TRUE
  /\ Goto(t, "init")
  /\ UNCHANGED <<idVars, m_pStopInformTask, m_bDeleteMyself, m_semTaskStop,
                 lifeVars, toldStopped>>

\* Init adds the task's name to m_TQMap under the map's mutex.
InitTask(t) ==
  /\ At(t, "init")
  /\ registered' = TRUE
  /\ Goto(t, "run")
  /\ UNCHANGED <<idVars, flagVars, m_semTaskStop, informed, receiver, alive,
                 toldStopped>>

\* The Init of a derived class fails, before or after the base class's.
InitFails(t) ==
  /\ At(t, "init")
  /\ registered' \in {registered, TRUE}
  /\ Goto(t, "erase")
  /\ UNCHANGED <<idVars, flagVars, m_semTaskStop, informed, receiver, alive,
                 toldStopped>>

\* Run polls IsRunning() in place of the flag.
RunEnds_PollsIsRunning(t) ==
  /\ At(t, "run")
  /\ m_TaskID = NoThread
  /\ Goto(t, "cleanup")
  /\ UNCHANGED <<idVars, flagVars, m_semTaskStop, lifeVars, toldStopped>>

\* Run's loop finds the flag cleared.
RunEnds(t) ==
  /\ At(t, "run")
  /\ ~m_bTaskRunning
  /\ Goto(t, "cleanup")
  /\ UNCHANGED <<idVars, flagVars, m_semTaskStop, lifeVars, toldStopped>>

\* What Run does after its loop, and then it returns.  A queue task waits for
\* the mutex of the map here and empties its queue, which may never end (see
\* QueueTask), so nothing says that this step is taken.
RunCleansUp(t) ==
  /\ At(t, "cleanup")
  /\ Goto(t, "erase")
  /\ UNCHANGED <<idVars, flagVars, m_semTaskStop, lifeVars, toldStopped>>

\* Run returns by itself, with the flag still set.
RunReturns(t) ==
  /\ At(t, "run")
  /\ m_bTaskRunning
  /\ Goto(t, "erase")
  /\ UNCHANGED <<idVars, flagVars, m_semTaskStop, lifeVars, toldStopped>>

\* The task stops itself from Run.  Its own sem_timedwait, which it reaches
\* when m_TaskID is not yet its ID, fails: the thread holds the semaphore.
SelfStop(t) ==
  /\ At(t, "run")
  /\ m_bTaskRunning' = FALSE
  /\ UNCHANGED <<idVars, m_pStopInformTask, m_bDeleteMyself, m_semTaskStop,
                 lifeVars, pc, toldStopped>>

\* Exit leaves the name to whoever looks for it.
ExitErase_KeepsName(t) ==
  /\ At(t, "erase")
  /\ Goto(t, "invalidate")
  /\ UNCHANGED <<idVars, flagVars, m_semTaskStop, lifeVars, toldStopped>>

\* Exit, in two steps: m_TQMap.erase under its mutex, then m_TaskID.  The
\* mutex belongs to all tasks and may never be free.
ExitErase(t) ==
  /\ At(t, "erase")
  /\ registered' = FALSE
  /\ Goto(t, "invalidate")
  /\ UNCHANGED <<idVars, flagVars, m_semTaskStop, informed, receiver, alive,
                 toldStopped>>

ExitInvalidate(t) ==
  /\ At(t, "invalidate")
  /\ m_TaskID' = NoThread
  /\ Goto(t, "post")
  /\ UNCHANGED <<m_threadHandle, flagVars, m_semTaskStop, lifeVars,
                 toldStopped>>

\* sem_post
Post(t) ==
  /\ At(t, "post")
  /\ m_semTaskStop' = m_semTaskStop + 1
  /\ Goto(t, "notify")
  /\ UNCHANGED <<idVars, flagVars, lifeVars, toldStopped>>

\* The test asks whether this task, not the receiver, is running.
Notify_AsksThisTask(t) ==
  /\ At(t, "notify")
  /\ Goto(t, IF m_pStopInformTask /\ m_TaskID # NoThread THEN "inform"
                                                         ELSE "delete")
  /\ UNCHANGED <<idVars, flagVars, m_semTaskStop, lifeVars, toldStopped>>

\* The test of m_pStopInformTask and of its IsRunning().
Notify(t) ==
  /\ At(t, "notify")
  /\ Goto(t, IF m_pStopInformTask /\ receiver = "running" THEN "inform"
                                                          ELSE "delete")
  /\ UNCHANGED <<idVars, flagVars, m_semTaskStop, lifeVars, toldStopped>>

\* The "we've stopped" message: it may wait for room in the receiver's queue,
\* and its result is ignored.  m_pStopInformTask is read again, and a Start may
\* have cleared it since the test: a call through NULL.
Inform(t) ==
  /\ At(t, "inform")
  /\ \/ /\ m_pStopInformTask
        /\ informed' = IF receiver = "running" THEN informed \cup {t}
                                               ELSE informed
        /\ Goto(t, "delete")
        /\ UNCHANGED alive
     \/ /\ ~m_pStopInformTask
        /\ alive' = FALSE
        /\ Goto(t, "done")
        /\ UNCHANGED informed
  /\ UNCHANGED <<idVars, flagVars, m_semTaskStop, registered, receiver,
                 toldStopped>>

Delete(t) ==
  /\ At(t, "delete")
  /\ alive' = ~m_bDeleteMyself
  /\ Goto(t, "done")
  /\ UNCHANGED <<idVars, flagVars, m_semTaskStop, registered, informed,
                 receiver, toldStopped>>

\* The task to inform ends or is started again.
ReceiverChanges ==
  /\ receiver' \in {"running", "ended"} \ {receiver}
  /\ UNCHANGED <<idVars, flagVars, m_semTaskStop, registered, informed, alive,
                 pc, toldStopped>>

-----------------------------------------------------------------------------
CallerStep(c) ==
  \/ Start(c) \/ Create(c) \/ CreateFails(c) \/ AssignID(c)
  \/ Stop(c) \/ StopTryWait(c) \/ StopPost(c)
  \/ StopInform(c) \/ StopInformClear(c) \/ SetDeleteFlag(c)

\* What the thread does without a decision of the derived class and without
\* waiting for another thread.
ThreadProgress(t) ==
  \/ Begin(t) \/ RunEnds(t) \/ ExitInvalidate(t) \/ Post(t) \/ Notify(t)
  \/ Delete(t)

\* The steps that wait: for the semaphore, the map's mutex, or a queue.
ThreadWait(t) ==
  Enter(t) \/ InitTask(t) \/ RunCleansUp(t) \/ ExitErase(t) \/ Inform(t)

ThreadStep(t) ==
  \/ ThreadProgress(t) \/ ThreadWait(t)
  \/ InitFails(t) \/ RunReturns(t) \/ SelfStop(t)

Next == \/ \E c \in Callers : CallerStep(c)
        \/ \E t \in Threads : ThreadStep(t)
        \/ ReceiverChanges

\* The scheduler runs every created thread that can take a step without
\* waiting, and Run polls its flag.
Fairness == \A t \in Threads : WF_vars(ThreadProgress(t))

Spec == Init /\ [][Next]_vars
FairSpec == Spec /\ Fairness

-----------------------------------------------------------------------------
TypeOK ==
  /\ m_TaskID \in Threads \cup {NoThread}
  /\ m_threadHandle \in Threads \cup {NoThread}
  /\ m_bTaskRunning \in BOOLEAN
  /\ m_pStopInformTask \in BOOLEAN
  /\ m_bDeleteMyself \in BOOLEAN
  /\ m_semTaskStop \in {0, 1}
  /\ registered \in BOOLEAN
  /\ informed \subseteq Threads
  /\ receiver \in {"running", "ended"}
  /\ alive \in BOOLEAN
  /\ pc \in [Actors -> CallerPCs \cup ThreadPCs]
  /\ \A c \in Callers : pc[c] \in CallerPCs
  /\ \A t \in Threads : pc[t] \in ThreadPCs
  /\ toldStopped \subseteq Callers

InBody(t) == pc[t] \in BodyPCs

\* The actors between a wait that took m_semTaskStop and the matching post.
Holds(p) == pc[p] \in BodyPCs \cup {"stopPost"}

(* However Starts and Stops overlap, the semaphore stays binary and one
   actor at most stands between a wait and its post: a second thread created
   by a racing Start is kept out of Init, Run and Exit, and a Stop that finds
   the semaphore free gives it back. *)
SemaphoreIsToken ==
  /\ \A p, q \in Actors : Holds(p) /\ Holds(q) => p = q
  /\ m_semTaskStop = 0 <=> \E p \in Actors : Holds(p)

(* The static map of task names is right about a task in every step: the name
   is there all the while its thread is in Run, and it is gone when no thread
   is between Init and Exit.  An incarnation never erases the entry of the
   next one. *)
RegisteredWhileRunning ==
  /\ \A t \in Threads : pc[t] \in {"run", "cleanup"} => registered
  /\ registered =>
       \E t \in Threads : pc[t] \in {"init", "run", "cleanup", "erase"}

(* A Stop is never forgotten by a thread that is already in Run: no step sets
   the flag again under it, neither a Start nor the thread of another Start. *)
StopSticks ==
  [][\A t \in Threads :
       pc[t] = "run" /\ ~m_bTaskRunning => ~m_bTaskRunning']_vars

\* The thread is where its way to the end depends on others: the map's mutex,
\* the messages that wait in its queue, room in the receiver's queue.
AtTheMercy(t) == pc[t] \in {"cleanup", "erase", "inform"}

(* Stop works as far as the life cycle goes: a thread whose flag is cleared
   while it is in Run ends, whatever the callers do, unless it stays for ever
   at one of the three points at which it needs others. *)
StopEndsRun ==
  \A t \in Threads :
    []<>~AtTheMercy(t) =>
      ((pc[t] = "run" /\ ~m_bTaskRunning) ~> (pc[t] = "done" \/ ~alive))

(* Stop(pTask, msgID) is answered, by a thread that does not stay at such a
   point: the message is sent unless a Start that came in before it forgot the
   receiver, or the receiver ended. *)
StopIsConfirmed ==
  \A t \in Threads :
    []<>~AtTheMercy(t) =>
      ((pc[t] = "run" /\ ~m_bTaskRunning /\ m_pStopInformTask)
         ~> (\/ t \in informed
             \/ ~m_pStopInformTask
             \/ receiver = "ended"
             \/ ~alive))

(* aefTask.cpp:171-174: Stop "stops the task from executing" and returns
   AEF_SUCCESS unless the task has not stopped.  With one caller, a Stop that
   returned AEF_SUCCESS means no thread is in the body until the next Start. *)
StoppedMeansStopped ==
  toldStopped # {} => \A t \in Threads : ~InBody(t)

(* aefTask.cpp:171-172: "The task can be restarted by calling Start()".  When
   every created thread has ended and no caller is inside Start, the task is
   not reported as running, and Start would try to create a thread. *)
RestartableWhenEnded ==
  (/\ \A t \in Threads : pc[t] \in {"unused", "done"}
   /\ \A c \in Callers : pc[c] \notin {"create", "assign"})
    => m_TaskID = NoThread

\* The refinement: the thread in the body, and the threads that left it.
Active   == IF \E t \in Threads : InBody(t)
            THEN CHOOSE t \in Threads : InBody(t)
            ELSE NoThread
Finished == {t \in Threads : pc[t] \in AfterPCs}

Life == INSTANCE TaskLife WITH active <- Active, finished <- Finished

(* The life cycle implements TaskLife: no two threads in the body, and none
   in it twice. *)
OneThreadAtATime == Life!Spec
=============================================================================
