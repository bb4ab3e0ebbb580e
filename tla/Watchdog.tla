------------------------------ MODULE Watchdog ------------------------------
(***************************************************************************)
(* The software watchdog (aefTask.cpp, aefQueueTask.cpp).  A task that has *)
(* registered sets its bit in the static map m_TStatusMap once a second; a *)
(* task that took ownership of the watchdog looks through the map from     *)
(* time to time, clears the bits, and reports the tasks whose bit was      *)
(* still clear.  Map and owner are protected by m_mutexTStatusMap; the     *)
(* members m_TaskID, m_bKickTheDog and m_hWdogReportTimer by nothing,      *)
(* though the functions are public and any thread may call them.           *)
(*                                                                         *)
(* Map and owner hold task IDs as int.  A pthread_t has 64 bits on x86-64  *)
(* and 32 on ARM: a comparison of m_WatchdogTaskId with m_TaskID converts  *)
(* the int back, and an ID that did not fit no longer matches.             *)
(***************************************************************************)
EXTENDS Naturals, FiniteSets

CONSTANTS
  QueueTasks,  \* CAefQueueTasks: they report by a timer, and unregister last
  PlainTasks,  \* other CAefTasks: their Run calls WatchdogReport
  Callers,     \* other threads, ...
  Callee,      \* ... the task each of them calls, ...
  CallerOps,   \* ... the functions they call, ...
  TaskOps,     \* ... and those a task's handlers call for the task itself
  IDs,         \* what pthread_create returns; never reused, nothing joins
  WideIDs,     \* the IDs an int cannot hold
  Invalid,     \* AEF_INVALID_TASK_ID
  NoTask

ASSUME WatchdogAssumption ==
  /\ QueueTasks \cap PlainTasks = {}
  /\ (QueueTasks \cup PlainTasks) \cap Callers = {}
  /\ Callee \in [Callers -> QueueTasks \cup PlainTasks]
  /\ NoTask \notin QueueTasks \cup PlainTasks
  /\ Invalid \notin IDs
  /\ WideIDs \subseteq IDs
  /\ CallerOps \cup TaskOps
       \subseteq {"take", "release", "register", "unregister"}

VARIABLES
  m_TaskID,           \* per task
  threadHandle,       \* the new ID that Start has not stored in m_TaskID yet
  m_bKickTheDog,      \* per task: it is registered
  m_hWdogReportTimer, \* per task: "none", "running", or "failed": it was asked
                      \* for and could not be created or set
  m_TStatusMap,       \* ID -> "absent", "reporting", "silent"
  m_WatchdogTaskId,
  pc,
  taskOf,             \* history: the task an ID was created for
  overtook,           \* history: the tasks whose Init came before their ID was
                      \* stored, and that have not got a timer since
  accused,            \* history: the IDs the last effective check found silent
  untimely            \* history: the tasks that were called from outside
                      \* during another such call, or outside of their Run,
                      \* or that reported or checked before their
                      \* ID was stored, or checked during a call

vars == <<m_TaskID, threadHandle, m_bKickTheDog, m_hWdogReportTimer,
          m_TStatusMap, m_WatchdogTaskId, pc, taskOf, overtook, accused,
          untimely>>

Tasks == QueueTasks \cup PlainTasks
Procs == Tasks \cup Callers

CallPCs == {"take", "release", "register", "unregister",
            "kick", "report", "startTimer", "clear", "stopTimer"}
TaskPCs == {"off", "init", "run", "hung", "unregisterLast", "clearLast",
            "stopTimerLast", "exit", "invalidate"}

IsRunning(t) == m_TaskID[t] # Invalid

\* m_WatchdogTaskId == m_TaskID, both sides cut to int.
OwnerIs_Cut(id) == m_WatchdogTaskId = id

\* m_WatchdogTaskId == m_TaskID
OwnerIs(id) == m_WatchdogTaskId = id /\ id \notin WideIDs

Goto(p, l) == pc' = [pc EXCEPT ![p] = l]
Target(p) == IF p \in Tasks THEN p ELSE Callee[p]
Home(p) == IF p \in Tasks THEN "run" ELSE "idle"
SetStatus(id, s) == m_TStatusMap' = [m_TStatusMap EXCEPT ![id] = s]

lifeVars == <<m_TaskID, threadHandle, taskOf>>
kickVars == <<m_bKickTheDog, m_hWdogReportTimer, overtook>>
dogVars  == <<m_TStatusMap, m_WatchdogTaskId, accused>>

\* CAefQueueTask's constructor registers, when nothing runs yet.
Init ==
  /\ m_TaskID = [t \in Tasks |-> Invalid]
  /\ threadHandle = [t \in Tasks |-> Invalid]
  /\ m_bKickTheDog = [t \in Tasks |-> t \in QueueTasks]
  /\ m_hWdogReportTimer = [t \in Tasks |-> "none"]
  /\ m_TStatusMap = [id \in IDs \cup {Invalid} |-> "absent"]
  /\ m_WatchdogTaskId = Invalid
  /\ pc = [p \in Procs |-> IF p \in Tasks THEN "off" ELSE "idle"]
  /\ taskOf = [id \in IDs |-> NoTask]
  /\ overtook = {}
  /\ accused = {}
  /\ untimely = {}

-----------------------------------------------------------------------------
(* The calls, by a task on itself or by a caller on its callee *)

\* Another thread calls.
Call(c) ==
  /\ pc[c] = "idle"
  /\ \E op \in CallerOps : Goto(c, op)
  /\ UNCHANGED <<lifeVars, kickVars, dogVars>>

\* p is about to execute op, a task out of a handler.
Calls(p, op) == IF p \in Tasks THEN op \in TaskOps /\ pc[p] = "run"
                               ELSE pc[p] = op

TakeWatchdogOwnership(p) ==
  LET t == Target(p) IN
  /\ Calls(p, "take")
  /\ m_WatchdogTaskId' = IF IsRunning(t) /\ m_WatchdogTaskId = Invalid
                         THEN m_TaskID[t] ELSE m_WatchdogTaskId
  /\ Goto(p, Home(p))
  /\ UNCHANGED <<lifeVars, kickVars, m_TStatusMap, accused>>

\* The owner is reset to 0, which Take does not know as nobody.
ReleaseWatchdogOwnership_ToZero(p) ==
  /\ Calls(p, "release")
  /\ m_WatchdogTaskId' = IF OwnerIs(m_TaskID[Target(p)])
                         THEN NoTask ELSE m_WatchdogTaskId
  /\ Goto(p, Home(p))
  /\ UNCHANGED <<lifeVars, kickVars, m_TStatusMap, accused>>

ReleaseWatchdogOwnership(p) ==
  /\ Calls(p, "release")
  /\ m_WatchdogTaskId' = IF OwnerIs(m_TaskID[Target(p)])
                         THEN Invalid ELSE m_WatchdogTaskId
  /\ Goto(p, Home(p))
  /\ UNCHANGED <<lifeVars, kickVars, m_TStatusMap, accused>>

\* RegisterWatchdogKick, line 330.  One that is registered already fails, but
\* the queue task's version goes on to its timer.
AfterKick(p) == IF Target(p) \in QueueTasks THEN "startTimer" ELSE Home(p)

RegisterWatchdogKick(p) ==
  /\ Calls(p, "register")
  /\ m_bKickTheDog' = [m_bKickTheDog EXCEPT ![Target(p)] = TRUE]
  /\ Goto(p, IF ~m_bKickTheDog[Target(p)] /\ IsRunning(Target(p))
             THEN "kick" ELSE AfterKick(p))
  /\ UNCHANGED <<lifeVars, m_hWdogReportTimer, overtook, dogVars>>

\* A task's turn to report: the message of its timer (OnTimer), or its Run.
ReportDue(t) ==
  /\ pc[t] = "run"
  /\ t \in QueueTasks => m_hWdogReportTimer[t] = "running"
  /\ m_bKickTheDog[t]
  /\ Goto(t, "report")
  /\ UNCHANGED <<lifeVars, kickVars, dogVars>>

\* WatchdogReport, 490: `|=` enters an ID that is not in the map.
WatchdogReport(p) ==
  /\ pc[p] \in {"kick", "report"}
  /\ IF m_bKickTheDog[Target(p)]
     THEN SetStatus(m_TaskID[Target(p)], "reporting")
     ELSE UNCHANGED m_TStatusMap
  /\ Goto(p, IF pc[p] = "kick" THEN AfterKick(p) ELSE Home(p))
  /\ UNCHANGED <<lifeVars, kickVars, m_WatchdogTaskId, accused>>

\* StartTimer, whose result nobody looks at: none if IsRunning() is false, and
\* otherwise what timer_create and timer_settime make of it.
NewTimer(t) ==
  \E h \in IF IsRunning(t) THEN {"running", "failed"} ELSE {"none"} :
    m_hWdogReportTimer' = [m_hWdogReportTimer EXCEPT ![t] = h]

\* A timer that is never started for a registered task.
StartReportTimer_Skipped(p) ==
  /\ pc[p] = "startTimer"
  /\ Goto(p, Home(p))
  /\ UNCHANGED <<lifeVars, kickVars, dogVars>>

\* CAefQueueTask::RegisterWatchdogKick, 510: the old timer is replaced.
StartReportTimer(p) ==
  LET t == Target(p) IN
  /\ pc[p] = "startTimer"
  /\ \/ /\ m_bKickTheDog[t] /\ IsRunning(t)
        /\ NewTimer(t)
        /\ overtook' = overtook \ {t}
     \/ /\ ~(m_bKickTheDog[t] /\ IsRunning(t))
        /\ UNCHANGED <<m_hWdogReportTimer, overtook>>
  /\ Goto(p, Home(p))
  /\ UNCHANGED <<lifeVars, m_bKickTheDog, dogVars>>

\* UnregisterWatchdogKick: the entry is erased under the mutex, ...
Last(p, l) == IF pc[p] \notin {"unregisterLast", "clearLast"} THEN l
              ELSE IF l = "clear" THEN "clearLast"
              ELSE IF l = "stopTimer" THEN "stopTimerLast" ELSE "exit"

\* The flag is cleared and the entry stays.
UnregisterWatchdogKick_KeepsEntry(p) ==
  /\ Calls(p, "unregister") \/ pc[p] = "unregisterLast"
  /\ Goto(p, Last(p, IF m_bKickTheDog[Target(p)] THEN "clear" ELSE Home(p)))
  /\ UNCHANGED <<lifeVars, kickVars, dogVars>>

UnregisterWatchdogKick(p) ==
  LET t == Target(p) IN
  /\ Calls(p, "unregister") \/ pc[p] = "unregisterLast"
  /\ \/ /\ m_bKickTheDog[t]
        /\ SetStatus(m_TaskID[t], "absent")
        /\ Goto(p, Last(p, "clear"))
     \/ /\ ~m_bKickTheDog[t]
        /\ UNCHANGED m_TStatusMap
        /\ Goto(p, Last(p, Home(p)))
  /\ UNCHANGED <<lifeVars, kickVars, m_WatchdogTaskId, accused>>

\* ... then the flag is cleared without it, ...
ClearFlag(p) ==
  /\ pc[p] \in {"clear", "clearLast"}
  /\ m_bKickTheDog' = [m_bKickTheDog EXCEPT ![Target(p)] = FALSE]
  /\ Goto(p, Last(p, IF Target(p) \in QueueTasks THEN "stopTimer"
                                                 ELSE Home(p)))
  /\ UNCHANGED <<lifeVars, m_hWdogReportTimer, overtook, dogVars>>

\* ... and a queue task's timer is stopped.
StopReportTimer(p) ==
  /\ pc[p] \in {"stopTimer", "stopTimerLast"}
  /\ m_hWdogReportTimer' = [m_hWdogReportTimer EXCEPT ![Target(p)] = "none"]
  /\ Goto(p, IF pc[p] = "stopTimer" THEN Home(p) ELSE "exit")
  /\ UNCHANGED <<lifeVars, m_bKickTheDog, overtook, dogVars>>

-----------------------------------------------------------------------------
(* The owner's check, which its derived class makes again and again *)

\* The bits are looked at and not cleared.
WatchdogCheck_KeepsBits(t) ==
  /\ pc[t] = "run"
  /\ OwnerIs(m_TaskID[t])
  /\ accused' = {id \in IDs \cup {Invalid} : m_TStatusMap[id] = "silent"}
  /\ UNCHANGED <<lifeVars, kickVars, m_TStatusMap, m_WatchdogTaskId, pc>>

\* One that does not find itself the owner sees nothing and returns true.
WatchdogCheck(t) ==
  LET self == IF m_bKickTheDog[t]
              THEN [m_TStatusMap EXCEPT ![m_TaskID[t]] = "reporting"]
              ELSE m_TStatusMap
  IN /\ pc[t] = "run"
     /\ OwnerIs(m_TaskID[t])
     /\ accused' = {id \in IDs \cup {Invalid} : self[id] = "silent"}
     /\ m_TStatusMap' = [id \in IDs \cup {Invalid} |->
                           IF self[id] = "absent" THEN "absent" ELSE "silent"]
     /\ UNCHANGED <<lifeVars, kickVars, m_WatchdogTaskId, pc>>

-----------------------------------------------------------------------------
(* The life of a task, as far as IsRunning() decides *)

\* One thread starts a task: pthread_create returns the ID of the new thread,
Start(t) ==
  /\ pc[t] = "off"
  /\ ~IsRunning(t) /\ threadHandle[t] = Invalid
  /\ \E id \in IDs :
       /\ taskOf[id] = NoTask
       /\ taskOf' = [taskOf EXCEPT ![id] = t]
       /\ threadHandle' = [threadHandle EXCEPT ![t] = id]
  /\ Goto(t, "init")
  /\ UNCHANGED <<m_TaskID, kickVars, dogVars>>

\* which is stored while that thread already runs, or after it has ended.
AssignID(t) ==
  /\ threadHandle[t] # Invalid
  /\ m_TaskID' = [m_TaskID EXCEPT ![t] = threadHandle[t]]
  /\ threadHandle' = [threadHandle EXCEPT ![t] = Invalid]
  /\ UNCHANGED <<taskOf, kickVars, dogVars, pc>>

\* CAefQueueTask::Init starts the report timer; if there is none after that
\* nobody asks again.
InitTask(t) ==
  /\ pc[t] = "init"
  /\ IF t \in QueueTasks /\ m_bKickTheDog[t]
       THEN NewTimer(t)
       ELSE UNCHANGED m_hWdogReportTimer
  /\ overtook' = IF threadHandle[t] # Invalid THEN overtook \cup {t}
                                              ELSE overtook \ {t}
  /\ Goto(t, "run")
  /\ UNCHANGED <<lifeVars, m_bKickTheDog, dogVars>>

InitFails(t) ==
  /\ pc[t] = "init"
  /\ Goto(t, "exit")
  /\ UNCHANGED <<lifeVars, kickVars, dogVars>>

\* A handler never returns, which is what the watchdog is there for.
Hang(t) ==
  /\ pc[t] = "run"
  /\ Goto(t, "hung")
  /\ UNCHANGED <<lifeVars, kickVars, dogVars>>

\* Run ends; CAefQueueTask::Run unregisters first (255), a plain task does not.
EndRun(t) ==
  /\ pc[t] = "run"
  /\ Goto(t, IF t \in QueueTasks THEN "unregisterLast" ELSE "exit")
  /\ UNCHANGED <<lifeVars, kickVars, dogVars>>

\* Exit invalidates the task ID before it gives the watchdog up.
ExitTask_TooLate(t) ==
  /\ pc[t] = "exit"
  /\ m_TaskID' = [m_TaskID EXCEPT ![t] = Invalid]
  /\ m_WatchdogTaskId' = IF OwnerIs(m_TaskID'[t]) THEN Invalid
                                                   ELSE m_WatchdogTaskId
  /\ Goto(t, "invalidate")
  /\ UNCHANGED <<threadHandle, taskOf, kickVars, m_TStatusMap, accused>>

\* Exit: DeleteAllTimers, then ReleaseWatchdogOwnership, ...
ExitTask(t) ==
  /\ pc[t] = "exit"
  /\ m_hWdogReportTimer' = [m_hWdogReportTimer EXCEPT ![t] = "none"]
  /\ m_WatchdogTaskId' = IF OwnerIs(m_TaskID[t]) THEN Invalid
                                                  ELSE m_WatchdogTaskId
  /\ Goto(t, "invalidate")
  /\ UNCHANGED <<lifeVars, m_bKickTheDog, overtook, m_TStatusMap, accused>>

\* ... and the ID (414).
Invalidate(t) ==
  /\ pc[t] = "invalidate"
  /\ m_TaskID' = [m_TaskID EXCEPT ![t] = Invalid]
  /\ Goto(t, "off")
  /\ UNCHANGED <<threadHandle, taskOf, kickVars, dogVars>>

-----------------------------------------------------------------------------
\* t is in its Run or has none, with no Start on the way.
Settled(t) ==
  /\ threadHandle[t] = Invalid
  /\ pc[t] \in {"run", "hung"} \/ (pc[t] = "off" /\ ~IsRunning(t))

Outside(t) == {p \in Callers : pc[p] # "idle" /\ Callee[p] = t}
Overlap(t) == \E p \in Outside(t) : ~Settled(t) \/ Outside(t) # {p}

\* The tasks that are called untimely come to light.
Mark(S) == untimely' = untimely \cup S \cup {t \in Tasks : Overlap(t)'}

\* A task that reports before its ID is stored is entered under -1.
Early(p) == {t \in Tasks \cap {p} :
               pc[t] \in {"kick", "report"} /\ ~IsRunning(t)}

Step(p) ==
  /\ \/ TakeWatchdogOwnership(p) \/ ReleaseWatchdogOwnership(p)
     \/ RegisterWatchdogKick(p) \/ WatchdogReport(p) \/ StartReportTimer(p)
     \/ UnregisterWatchdogKick(p) \/ ClearFlag(p) \/ StopReportTimer(p)
  /\ Mark(Early(p))

\* If it checks then, and there is no owner, it finds itself the owner,
\* -1 == -1.  And one that is being unregistered enters itself again.
Check(t) ==
  /\ WatchdogCheck(t)
  /\ Mark({x \in {t} : ~IsRunning(x) \/ Outside(x) # {}})

LifeStep(t) ==
  /\ \/ Start(t) \/ AssignID(t) \/ InitTask(t) \/ InitFails(t) \/ Hang(t)
     \/ EndRun(t) \/ ExitTask(t) \/ Invalidate(t) \/ ReportDue(t)
  /\ Mark({})

Next ==
  \/ \E c \in Callers : Call(c) /\ Mark({})
  \/ \E p \in Procs : Step(p)
  \/ \E t \in Tasks : Check(t) \/ LifeStep(t)

\* An owner "is required to check it periodically" (aefTask.cpp:266): one that
\* keeps coming back to its loop checks again and again.  A call that has begun
\* goes on; nobody has to call.
Fairness ==
  /\ \A p \in Procs : WF_vars(pc[p] # "run" /\ Step(p))
  /\ \A t \in Tasks : SF_vars(Check(t))

Spec == Init /\ [][Next]_vars
FairSpec == Spec /\ Fairness

-----------------------------------------------------------------------------
TypeOK ==
  /\ m_TaskID \in [Tasks -> IDs \cup {Invalid}]
  /\ threadHandle \in [Tasks -> IDs \cup {Invalid}]
  /\ m_bKickTheDog \in [Tasks -> BOOLEAN]
  /\ m_hWdogReportTimer \in [Tasks -> {"none", "running", "failed"}]
  /\ m_TStatusMap \in [IDs \cup {Invalid} -> {"absent", "reporting", "silent"}]
  /\ m_WatchdogTaskId \in IDs \cup {Invalid}
  /\ pc \in [Procs -> CallPCs \cup TaskPCs \cup {"idle"}]
  /\ taskOf \in [IDs -> Tasks \cup {NoTask}]
  /\ overtook \subseteq Tasks
  /\ accused \subseteq IDs \cup {Invalid}
  /\ untimely \subseteq Tasks

\* t's thread is between Init and the end of its unregistration.
InRun(t) == pc[t] \notin {"off", "init", "clearLast", "stopTimerLast", "exit",
                          "invalidate"}

(* aefQueueTask.cpp:251: a queue task that stops must not trip the watchdog.
   Whatever is in the map under an ID of a queue task is there for the run
   that goes on, and its task is registered; and there is no entry under the
   invalid ID, which nobody could erase.  It takes calls from other threads
   that overlap each other, or the task's start or end, to break this. *)
EntriesAreLive ==
  /\ \A id \in IDs :
       m_TStatusMap[id] # "absent" /\ taskOf[id] \in QueueTasks \ untimely
         => LET t == taskOf[id] IN
            m_TaskID[t] = id /\ m_bKickTheDog[t] /\ InRun(t)
  /\ m_TStatusMap[Invalid] # "absent" => untimely # {}

(* A registered queue task that runs has a report timer, over calls and
   restarts, and so is not accused for nothing.  There are two ways to lose it
   and no third, both silent: the timer could not be started when it was last
   asked for, and StartTimer's caller does not look; or Init came before Start
   had stored the ID, so that IsRunning() was false (aefQueueTask.cpp:170), and
   nobody has registered the task since. *)
ReportsGoOn ==
  \A t \in QueueTasks \ untimely :
    /\ pc[t] = "run"
    /\ Outside(t) = {}
    /\ m_bKickTheDog[t]
    => m_hWdogReportTimer[t] \in {"running", "failed"} \/ t \in overtook

(* The owner is a task that runs: the watchdog is not left with an owner that
   has ended, which would keep every other task from taking it. *)
OwnerIsRunning ==
  m_WatchdogTaskId \in IDs \ WideIDs =>
    LET t == taskOf[m_WatchdogTaskId] IN
    t \notin untimely =>
      m_TaskID[t] = m_WatchdogTaskId /\ pc[t] \notin {"off", "invalidate"}

(* An owner whose ID does not fit an int is one for ever, though it ends, and
   no check finds anything: on a 64-bit machine the watchdog is off as soon
   as somebody takes it. *)
WideOwnerIsStuck ==
  [][(m_WatchdogTaskId \in WideIDs) =>
        UNCHANGED <<m_WatchdogTaskId, accused>>]_vars

\* The owner is a task that comes back to its loop, and is recognised.
Guarded == \E t \in Tasks : /\ pc[t] \in {"run"} \cup CallPCs
                            /\ IsRunning(t) /\ OwnerIs(m_TaskID[t])

(* A task that hangs with an entry in the map is found by a check, as long as
   the watchdog is guarded and nobody takes the entry out. *)
HungIsNoticed ==
  \A t \in Tasks :
    pc[t] = "hung" /\ m_TStatusMap[m_TaskID[t]] # "absent"
      ~> \/ m_TaskID[t] \in accused
         \/ m_TStatusMap[m_TaskID[t]] = "absent"
         \/ ~Guarded
=============================================================================
