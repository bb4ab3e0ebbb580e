--------------------------- MODULE WatchdogProofs ---------------------------
(***************************************************************************)
(* Proofs about Watchdog: its safety properties hold for any tasks,        *)
(* callers and IDs.                                                        *)
(***************************************************************************)
EXTENDS Watchdog, TLAPS

(* A task that is not called untimely has one caller at a time, and is not
   starting or ending meanwhile. *)
Clean ==
  \A c \in Callers :
    pc[c] # "idle" /\ Callee[c] \notin untimely =>
      /\ Settled(Callee[c])
      /\ \A d \in Callers : pc[d] # "idle" /\ Callee[d] = Callee[c] => d = c

(* Every ID that is in use was created for a task, which has it or had it. *)
Known ==
  /\ \A t \in Tasks :
       /\ m_TaskID[t] # Invalid => taskOf[m_TaskID[t]] = t
       /\ threadHandle[t] # Invalid =>
            taskOf[threadHandle[t]] = t /\ m_TaskID[t] = Invalid
  /\ m_WatchdogTaskId \in IDs => taskOf[m_WatchdogTaskId] \in Tasks
  /\ \A id \in IDs : m_TStatusMap[id] # "absent" => taskOf[id] \in Tasks

(* Callers neither report but in a call of RegisterWatchdogKick, nor live. *)
Places == \A c \in Callers : pc[c] \in (CallPCs \ {"report"}) \cup {"idle"}

(* A caller that reports found the task running. *)
Kicks == \A c \in Callers :
           pc[c] = "kick" /\ Callee[c] \notin untimely => IsRunning(Callee[c])

(* Between the two steps of UnregisterWatchdogKick a queue task has no
   entry. *)
Cleared ==
  \A p \in Procs :
    /\ pc[p] \in {"clear", "clearLast"}
    /\ Target(p) \in QueueTasks \ untimely
    /\ IsRunning(Target(p))
    => m_TStatusMap[m_TaskID[Target(p)]] = "absent"

(* The timer of a queue task is stopped when it is not registered. *)
Stopped ==
  \A p \in Procs :
    /\ pc[p] \in {"stopTimer", "stopTimerLast"}
    /\ Target(p) \in QueueTasks \ untimely
    => ~m_bKickTheDog[Target(p)]

(* A queue task that is registered has been given its timer, unless somebody
   is about to. *)
Timers ==
  \A t \in QueueTasks \ untimely :
    /\ pc[t] \in CallPCs \cup {"run"}
    /\ m_bKickTheDog[t]
    /\ \A p \in Procs : Target(p) = t => pc[p] \notin {"kick", "startTimer"}
    => m_hWdogReportTimer[t] # "none" \/ t \in overtook

(* From Start to the end of Exit a task has its ID or will be given it, and
   one that got to its Run before is in overtook. *)
Named ==
  \A t \in Tasks :
    /\ pc[t] # "off" => IsRunning(t) \/ threadHandle[t] # Invalid
    /\ pc[t] \in CallPCs \cup {"run"} /\ threadHandle[t] # Invalid
         => t \in overtook

IInv == /\ TypeOK /\ Clean /\ Known /\ Places /\ Kicks
        /\ OwnerIsRunning /\ EntriesAreLive /\ Cleared /\ Stopped /\ Timers
        /\ Named

(* Nothing runs and nobody calls at first. *)
LEMMA InitIInv == Init => IInv
<1> SUFFICES ASSUME Init
             PROVE  IInv
  OBVIOUS
<1> USE WatchdogAssumption DEF Init, Tasks, Procs, Target, IsRunning
<1>1. TypeOK
  BY DEF TypeOK, CallPCs, TaskPCs
<1>2. Clean /\ Known /\ Places /\ Kicks
  BY DEF Clean, Known, Places, Kicks
<1>3. OwnerIsRunning /\ EntriesAreLive
  BY DEF OwnerIsRunning, EntriesAreLive
<1>4. Cleared /\ Stopped /\ Timers /\ Named
  BY DEF Cleared, Stopped, Timers, Named, CallPCs
<1>5. QED
  BY <1>1, <1>2, <1>3, <1>4 DEF IInv

(* What is found untimely stays so, and every step looks for it. *)
LEMMA Marked ==
  Next => /\ untimely \subseteq untimely' /\ Clean'
          /\ untimely \subseteq Tasks => untimely' \subseteq Tasks
<1> SUFFICES ASSUME Next
             PROVE  /\ untimely \subseteq untimely' /\ Clean'
                    /\ untimely \subseteq Tasks => untimely' \subseteq Tasks
  OBVIOUS
<1>1. PICK S \in SUBSET Tasks : Mark(S)
  <2>1. ASSUME NEW p \in Procs, Step(p)
        PROVE  \E S \in SUBSET Tasks : Mark(S)
    <3>1. Mark(Early(p)) /\ Early(p) \in SUBSET Tasks
      BY <2>1 DEF Step, Early
    <3>2. QED
      BY <3>1
  <2>2. ASSUME NEW t \in Tasks, Check(t)
        PROVE  \E S \in SUBSET Tasks : Mark(S)
    <3> DEFINE S == {x \in {t} : ~IsRunning(x) \/ Outside(x) # {}}
    <3>1. Mark(S) /\ S \in SUBSET Tasks
      BY <2>2 DEF Check
    <3>2. QED
      BY <3>1
  <2>3. ASSUME Mark({})
        PROVE  \E S \in SUBSET Tasks : Mark(S)
    BY <2>3
  <2>4. QED
    BY <2>1, <2>2, <2>3 DEF Next, LifeStep
<1>2. untimely \subseteq untimely'
  BY <1>1 DEF Mark
<1>3. ASSUME NEW c \in Callers, pc'[c] # "idle", Callee[c] \notin untimely'
      PROVE  /\ Settled(Callee[c])'
             /\ \A d \in Callers :
                  pc'[d] # "idle" /\ Callee[d] = Callee[c] => d = c
  <2>1. Callee[c] \in Tasks /\ c \in Outside(Callee[c])'
    BY <1>3, WatchdogAssumption DEF Tasks, Outside
  <2>2. ~Overlap(Callee[c])'
    BY <1>1, <1>3, <2>1 DEF Mark
  <2>3. Settled(Callee[c])' /\ Outside(Callee[c])' = {c}
    BY <2>1, <2>2 DEF Overlap
  <2>4. ASSUME NEW d \in Callers, pc'[d] # "idle", Callee[d] = Callee[c]
        PROVE  d = c
    BY <2>3, <2>4 DEF Outside
  <2>5. QED
    BY <2>3, <2>4
<1>4. untimely \subseteq Tasks => untimely' \subseteq Tasks
  BY <1>1 DEF Mark
<1>5. QED
  BY <1>2, <1>3, <1>4 DEF Clean

(* Callers go from one part of a call to the next. *)
LEMMA NextPlaces == IInv /\ Next => Places'
<1> SUFFICES ASSUME IInv, Next
             PROVE  Places'
  OBVIOUS
<1> USE WatchdogAssumption DEF IInv, TypeOK, Tasks, Procs, Goto, Target,
        IsRunning, Places, CallPCs
<1>0. untimely \subseteq untimely' /\ Clean'
  BY Marked
<1>1. ASSUME NEW p \in Procs, TakeWatchdogOwnership(p)
      PROVE  Places'
  BY <1>0, <1>1 DEF TakeWatchdogOwnership, lifeVars, kickVars, Calls, Home
<1>2. ASSUME NEW p \in Procs, ReleaseWatchdogOwnership(p)
      PROVE  Places'
  BY <1>0, <1>2 DEF ReleaseWatchdogOwnership, lifeVars, kickVars, Calls, Home,
         OwnerIs
<1>3. ASSUME NEW p \in Procs, RegisterWatchdogKick(p)
      PROVE  Places'
  BY <1>0, <1>3 DEF RegisterWatchdogKick, lifeVars, dogVars, Calls, AfterKick,
         Home
<1>4. ASSUME NEW p \in Procs, WatchdogReport(p),
             Early(p) \subseteq untimely'
      PROVE  Places'
  BY <1>0, <1>4 DEF WatchdogReport, lifeVars, kickVars, Home, AfterKick,
         SetStatus
<1>5. ASSUME NEW p \in Procs, StartReportTimer(p)
      PROVE  Places'
  BY <1>0, <1>5 DEF StartReportTimer, lifeVars, dogVars, Home, NewTimer
<1>6. ASSUME NEW p \in Procs, UnregisterWatchdogKick(p)
      PROVE  Places'
  BY <1>0, <1>6 DEF UnregisterWatchdogKick, lifeVars, kickVars, Calls, Home,
         Last, SetStatus
<1>7. ASSUME NEW p \in Procs, ClearFlag(p)
      PROVE  Places'
  BY <1>0, <1>7 DEF ClearFlag, lifeVars, dogVars, Home, Last
<1>8. ASSUME NEW p \in Procs, StopReportTimer(p)
      PROVE  Places'
  BY <1>0, <1>8 DEF StopReportTimer, lifeVars, dogVars, Home
<1>9. ASSUME NEW c \in Callers, Call(c)
      PROVE  Places'
  BY <1>0, <1>9 DEF Call, lifeVars, kickVars, dogVars
<1>10. ASSUME NEW t \in Tasks, WatchdogCheck(t),
             ~IsRunning(t) \/ Outside(t) # {} => t \in untimely'
      PROVE  Places'
  BY <1>0, <1>10 DEF WatchdogCheck, lifeVars, kickVars, OwnerIs
<1>11. ASSUME NEW t \in Tasks, Start(t)
      PROVE  Places'
  BY <1>0, <1>11 DEF Start, kickVars, dogVars
<1>12. ASSUME NEW t \in Tasks, AssignID(t)
      PROVE  Places'
  BY <1>0, <1>12 DEF AssignID, kickVars, dogVars
<1>13. ASSUME NEW t \in Tasks, InitTask(t)
      PROVE  Places'
  BY <1>0, <1>13 DEF InitTask, lifeVars, dogVars, NewTimer
<1>14. ASSUME NEW t \in Tasks, InitFails(t)
      PROVE  Places'
  BY <1>0, <1>14 DEF InitFails, lifeVars, kickVars, dogVars
<1>15. ASSUME NEW t \in Tasks, Hang(t)
      PROVE  Places'
  BY <1>0, <1>15 DEF Hang, lifeVars, kickVars, dogVars
<1>16. ASSUME NEW t \in Tasks, EndRun(t)
      PROVE  Places'
  BY <1>0, <1>16 DEF EndRun, lifeVars, kickVars, dogVars
<1>17. ASSUME NEW t \in Tasks, ExitTask(t)
      PROVE  Places'
  BY <1>0, <1>17 DEF ExitTask, lifeVars, OwnerIs
<1>18. ASSUME NEW t \in Tasks, Invalidate(t)
      PROVE  Places'
  BY <1>0, <1>18 DEF Invalidate, kickVars, dogVars
<1>19. ASSUME NEW t \in Tasks, ReportDue(t)
      PROVE  Places'
  BY <1>0, <1>19 DEF ReportDue, lifeVars, kickVars, dogVars
<1>20. QED
  BY <1>1, <1>2, <1>3, <1>4, <1>5, <1>6, <1>7, <1>8, <1>9, <1>10, <1>11,
     <1>12, <1>13, <1>14, <1>15, <1>16, <1>17, <1>18, <1>19
  DEF Next, Step, Check, LifeStep, Mark

(* An ID is used when it was created. *)
LEMMA NextKnown == IInv /\ Next => Known'
<1> SUFFICES ASSUME IInv, Next
             PROVE  Known'
  OBVIOUS
<1> USE WatchdogAssumption DEF IInv, TypeOK, Tasks, Procs, Goto, Target,
        IsRunning, Known
<1>0. untimely \subseteq untimely' /\ Clean'
  BY Marked
<1>1. ASSUME NEW p \in Procs, TakeWatchdogOwnership(p)
      PROVE  Known'
  BY <1>0, <1>1 DEF TakeWatchdogOwnership, lifeVars, kickVars, Calls, Home
<1>2. ASSUME NEW p \in Procs, ReleaseWatchdogOwnership(p)
      PROVE  Known'
  BY <1>0, <1>2 DEF ReleaseWatchdogOwnership, lifeVars, kickVars, Calls, Home,
         OwnerIs
<1>3. ASSUME NEW p \in Procs, RegisterWatchdogKick(p)
      PROVE  Known'
  BY <1>0, <1>3 DEF RegisterWatchdogKick, lifeVars, dogVars, Calls, AfterKick,
         Home
<1>4. ASSUME NEW p \in Procs, WatchdogReport(p),
             Early(p) \subseteq untimely'
      PROVE  Known'
  BY <1>0, <1>4 DEF WatchdogReport, lifeVars, kickVars, Home, AfterKick,
         SetStatus
<1>5. ASSUME NEW p \in Procs, StartReportTimer(p)
      PROVE  Known'
  BY <1>0, <1>5 DEF StartReportTimer, lifeVars, dogVars, Home, NewTimer
<1>6. ASSUME NEW p \in Procs, UnregisterWatchdogKick(p)
      PROVE  Known'
  BY <1>0, <1>6 DEF UnregisterWatchdogKick, lifeVars, kickVars, Calls, Home,
         Last, SetStatus
<1>7. ASSUME NEW p \in Procs, ClearFlag(p)
      PROVE  Known'
  BY <1>0, <1>7 DEF ClearFlag, lifeVars, dogVars, Home, Last
<1>8. ASSUME NEW p \in Procs, StopReportTimer(p)
      PROVE  Known'
  BY <1>0, <1>8 DEF StopReportTimer, lifeVars, dogVars, Home
<1>9. ASSUME NEW c \in Callers, Call(c)
      PROVE  Known'
  BY <1>0, <1>9 DEF Call, lifeVars, kickVars, dogVars
<1>10. ASSUME NEW t \in Tasks, WatchdogCheck(t),
             ~IsRunning(t) \/ Outside(t) # {} => t \in untimely'
      PROVE  Known'
  BY <1>0, <1>10 DEF WatchdogCheck, lifeVars, kickVars, OwnerIs
<1>11. ASSUME NEW t \in Tasks, Start(t)
      PROVE  Known'
  BY <1>0, <1>11 DEF Start, kickVars, dogVars
<1>12. ASSUME NEW t \in Tasks, AssignID(t)
      PROVE  Known'
  BY <1>0, <1>12 DEF AssignID, kickVars, dogVars
<1>13. ASSUME NEW t \in Tasks, InitTask(t)
      PROVE  Known'
  BY <1>0, <1>13 DEF InitTask, lifeVars, dogVars, NewTimer
<1>14. ASSUME NEW t \in Tasks, InitFails(t)
      PROVE  Known'
  BY <1>0, <1>14 DEF InitFails, lifeVars, kickVars, dogVars
<1>15. ASSUME NEW t \in Tasks, Hang(t)
      PROVE  Known'
  BY <1>0, <1>15 DEF Hang, lifeVars, kickVars, dogVars
<1>16. ASSUME NEW t \in Tasks, EndRun(t)
      PROVE  Known'
  BY <1>0, <1>16 DEF EndRun, lifeVars, kickVars, dogVars
<1>17. ASSUME NEW t \in Tasks, ExitTask(t)
      PROVE  Known'
  BY <1>0, <1>17 DEF ExitTask, lifeVars, OwnerIs
<1>18. ASSUME NEW t \in Tasks, Invalidate(t)
      PROVE  Known'
  BY <1>0, <1>18 DEF Invalidate, kickVars, dogVars
<1>19. ASSUME NEW t \in Tasks, ReportDue(t)
      PROVE  Known'
  BY <1>0, <1>19 DEF ReportDue, lifeVars, kickVars, dogVars
<1>20. QED
  BY <1>1, <1>2, <1>3, <1>4, <1>5, <1>6, <1>7, <1>8, <1>9, <1>10, <1>11,
     <1>12, <1>13, <1>14, <1>15, <1>16, <1>17, <1>18, <1>19
  DEF Next, Step, Check, LifeStep, Mark

(* The watchdog is taken for a task that runs, and released before it ends. *)
LEMMA NextOwner == IInv /\ Next => OwnerIsRunning'
<1> SUFFICES ASSUME IInv, Next
             PROVE  OwnerIsRunning'
  OBVIOUS
<1> USE WatchdogAssumption DEF IInv, TypeOK, Tasks, Procs, Goto, Target,
        IsRunning, Clean, Settled, Known, OwnerIsRunning
<1>0. untimely \subseteq untimely' /\ Clean'
  BY Marked
<1>1. ASSUME NEW p \in Procs, TakeWatchdogOwnership(p)
      PROVE  OwnerIsRunning'
  <2> DEFINE t == Target(p)
  <2>0. t \in Tasks /\ UNCHANGED <<m_TaskID, taskOf>>
    BY <1>1 DEF TakeWatchdogOwnership, lifeVars
  <2>1. CASE m_WatchdogTaskId' = m_WatchdogTaskId
    <3>1. \A u \in Tasks : pc[u] \notin {"off", "invalidate"}
                            => pc'[u] \notin {"off", "invalidate"}
      BY <1>1 DEF TakeWatchdogOwnership, Home
    <3>2. QED
      BY <1>0, <2>0, <2>1, <3>1
  <2>2. CASE m_WatchdogTaskId' = m_TaskID[t] /\ IsRunning(t)
    <3>1. t \notin untimely => pc'[t] \notin {"off", "invalidate"}
      <4>1. CASE p \in Tasks
        BY <1>1, <4>1 DEF TakeWatchdogOwnership, Calls, Home
      <4>2. CASE p \in Callers
        BY <1>1, <2>2, <4>2 DEF TakeWatchdogOwnership, Calls, Home
      <4>3. QED
        BY <4>1, <4>2
    <3>2. taskOf[m_TaskID[t]] = t
      BY <2>0, <2>2
    <3>3. QED
      BY <1>0, <2>0, <2>2, <3>1, <3>2
  <2>3. QED
    BY <1>1, <2>1, <2>2 DEF TakeWatchdogOwnership
<1>2. ASSUME NEW p \in Procs, ReleaseWatchdogOwnership(p)
      PROVE  OwnerIsRunning'
  BY <1>0, <1>2 DEF ReleaseWatchdogOwnership, lifeVars, kickVars, Calls, Home,
         OwnerIs
<1>3. ASSUME NEW p \in Procs, RegisterWatchdogKick(p)
      PROVE  OwnerIsRunning'
  BY <1>0, <1>3 DEF RegisterWatchdogKick, lifeVars, dogVars, Calls, AfterKick,
         Home
<1>4. ASSUME NEW p \in Procs, WatchdogReport(p),
             Early(p) \subseteq untimely'
      PROVE  OwnerIsRunning'
  BY <1>0, <1>4 DEF WatchdogReport, lifeVars, kickVars, Home, AfterKick,
         SetStatus
<1>5. ASSUME NEW p \in Procs, StartReportTimer(p)
      PROVE  OwnerIsRunning'
  BY <1>0, <1>5 DEF StartReportTimer, lifeVars, dogVars, Home, NewTimer
<1>6. ASSUME NEW p \in Procs, UnregisterWatchdogKick(p)
      PROVE  OwnerIsRunning'
  BY <1>0, <1>6 DEF UnregisterWatchdogKick, lifeVars, kickVars, Calls, Home,
         Last, SetStatus
<1>7. ASSUME NEW p \in Procs, ClearFlag(p)
      PROVE  OwnerIsRunning'
  BY <1>0, <1>7 DEF ClearFlag, lifeVars, dogVars, Home, Last
<1>8. ASSUME NEW p \in Procs, StopReportTimer(p)
      PROVE  OwnerIsRunning'
  BY <1>0, <1>8 DEF StopReportTimer, lifeVars, dogVars, Home
<1>9. ASSUME NEW c \in Callers, Call(c)
      PROVE  OwnerIsRunning'
  BY <1>0, <1>9 DEF Call, lifeVars, kickVars, dogVars
<1>10. ASSUME NEW t \in Tasks, WatchdogCheck(t),
             ~IsRunning(t) \/ Outside(t) # {} => t \in untimely'
      PROVE  OwnerIsRunning'
  BY <1>0, <1>10 DEF WatchdogCheck, lifeVars, kickVars, OwnerIs
<1>11. ASSUME NEW t \in Tasks, Start(t)
      PROVE  OwnerIsRunning'
  BY <1>0, <1>11 DEF Start, kickVars, dogVars
<1>12. ASSUME NEW t \in Tasks, AssignID(t)
      PROVE  OwnerIsRunning'
  BY <1>0, <1>12 DEF AssignID, kickVars, dogVars
<1>13. ASSUME NEW t \in Tasks, InitTask(t)
      PROVE  OwnerIsRunning'
  BY <1>0, <1>13 DEF InitTask, lifeVars, dogVars, NewTimer
<1>14. ASSUME NEW t \in Tasks, InitFails(t)
      PROVE  OwnerIsRunning'
  BY <1>0, <1>14 DEF InitFails, lifeVars, kickVars, dogVars
<1>15. ASSUME NEW t \in Tasks, Hang(t)
      PROVE  OwnerIsRunning'
  BY <1>0, <1>15 DEF Hang, lifeVars, kickVars, dogVars
<1>16. ASSUME NEW t \in Tasks, EndRun(t)
      PROVE  OwnerIsRunning'
  BY <1>0, <1>16 DEF EndRun, lifeVars, kickVars, dogVars
<1>17. ASSUME NEW t \in Tasks, ExitTask(t)
      PROVE  OwnerIsRunning'
  BY <1>0, <1>17 DEF ExitTask, lifeVars, OwnerIs
<1>18. ASSUME NEW t \in Tasks, Invalidate(t)
      PROVE  OwnerIsRunning'
  BY <1>0, <1>18 DEF Invalidate, kickVars, dogVars
<1>19. ASSUME NEW t \in Tasks, ReportDue(t)
      PROVE  OwnerIsRunning'
  BY <1>0, <1>19 DEF ReportDue, lifeVars, kickVars, dogVars
<1>20. QED
  BY <1>1, <1>2, <1>3, <1>4, <1>5, <1>6, <1>7, <1>8, <1>9, <1>10, <1>11,
     <1>12, <1>13, <1>14, <1>15, <1>16, <1>17, <1>18, <1>19
  DEF Next, Step, Check, LifeStep, Mark

(* A task that is called does not end meanwhile, or it is called untimely. *)
LEMMA NextKicks == IInv /\ Next => Kicks'
<1> SUFFICES ASSUME IInv, Next
             PROVE  Kicks'
  OBVIOUS
<1> USE WatchdogAssumption DEF IInv, TypeOK, Tasks, Procs, Goto, Target,
        IsRunning, Clean, Settled, Places, CallPCs, Kicks
<1>0. untimely \subseteq untimely' /\ Clean'
  BY Marked
<1>1. ASSUME NEW p \in Procs, TakeWatchdogOwnership(p)
      PROVE  Kicks'
  BY <1>0, <1>1 DEF TakeWatchdogOwnership, lifeVars, kickVars, Calls, Home
<1>2. ASSUME NEW p \in Procs, ReleaseWatchdogOwnership(p)
      PROVE  Kicks'
  BY <1>0, <1>2 DEF ReleaseWatchdogOwnership, lifeVars, kickVars, Calls, Home,
         OwnerIs
<1>3. ASSUME NEW p \in Procs, RegisterWatchdogKick(p)
      PROVE  Kicks'
  BY <1>0, <1>3 DEF RegisterWatchdogKick, lifeVars, dogVars, Calls, AfterKick,
         Home
<1>4. ASSUME NEW p \in Procs, WatchdogReport(p),
             Early(p) \subseteq untimely'
      PROVE  Kicks'
  BY <1>0, <1>4 DEF WatchdogReport, lifeVars, kickVars, Home, AfterKick,
         SetStatus
<1>5. ASSUME NEW p \in Procs, StartReportTimer(p)
      PROVE  Kicks'
  BY <1>0, <1>5 DEF StartReportTimer, lifeVars, dogVars, Home, NewTimer
<1>6. ASSUME NEW p \in Procs, UnregisterWatchdogKick(p)
      PROVE  Kicks'
  BY <1>0, <1>6 DEF UnregisterWatchdogKick, lifeVars, kickVars, Calls, Home,
         Last, SetStatus
<1>7. ASSUME NEW p \in Procs, ClearFlag(p)
      PROVE  Kicks'
  BY <1>0, <1>7 DEF ClearFlag, lifeVars, dogVars, Home, Last
<1>8. ASSUME NEW p \in Procs, StopReportTimer(p)
      PROVE  Kicks'
  BY <1>0, <1>8 DEF StopReportTimer, lifeVars, dogVars, Home
<1>9. ASSUME NEW c \in Callers, Call(c)
      PROVE  Kicks'
  BY <1>0, <1>9 DEF Call, lifeVars, kickVars, dogVars
<1>10. ASSUME NEW t \in Tasks, WatchdogCheck(t),
             ~IsRunning(t) \/ Outside(t) # {} => t \in untimely'
      PROVE  Kicks'
  BY <1>0, <1>10 DEF WatchdogCheck, lifeVars, kickVars, OwnerIs
<1>11. ASSUME NEW t \in Tasks, Start(t)
      PROVE  Kicks'
  BY <1>0, <1>11 DEF Start, kickVars, dogVars
<1>12. ASSUME NEW t \in Tasks, AssignID(t)
      PROVE  Kicks'
  BY <1>0, <1>12 DEF AssignID, kickVars, dogVars
<1>13. ASSUME NEW t \in Tasks, InitTask(t)
      PROVE  Kicks'
  BY <1>0, <1>13 DEF InitTask, lifeVars, dogVars, NewTimer
<1>14. ASSUME NEW t \in Tasks, InitFails(t)
      PROVE  Kicks'
  BY <1>0, <1>14 DEF InitFails, lifeVars, kickVars, dogVars
<1>15. ASSUME NEW t \in Tasks, Hang(t)
      PROVE  Kicks'
  BY <1>0, <1>15 DEF Hang, lifeVars, kickVars, dogVars
<1>16. ASSUME NEW t \in Tasks, EndRun(t)
      PROVE  Kicks'
  BY <1>0, <1>16 DEF EndRun, lifeVars, kickVars, dogVars
<1>17. ASSUME NEW t \in Tasks, ExitTask(t)
      PROVE  Kicks'
  BY <1>0, <1>17 DEF ExitTask, lifeVars, OwnerIs
<1>18. ASSUME NEW t \in Tasks, Invalidate(t)
      PROVE  Kicks'
  BY <1>0, <1>18 DEF Invalidate, kickVars, dogVars
<1>19. ASSUME NEW t \in Tasks, ReportDue(t)
      PROVE  Kicks'
  BY <1>0, <1>19 DEF ReportDue, lifeVars, kickVars, dogVars
<1>20. QED
  BY <1>1, <1>2, <1>3, <1>4, <1>5, <1>6, <1>7, <1>8, <1>9, <1>10, <1>11,
     <1>12, <1>13, <1>14, <1>15, <1>16, <1>17, <1>18, <1>19
  DEF Next, Step, Check, LifeStep, Mark

(* An entry is made for a task that runs, and it erases it before it ends. *)
LEMMA NextEntries == IInv /\ Next => EntriesAreLive'
<1> SUFFICES ASSUME IInv, Next
             PROVE  EntriesAreLive'
  OBVIOUS
<1> USE WatchdogAssumption DEF IInv, TypeOK, Tasks, Procs, Goto, Target,
        IsRunning, Clean, Settled, Places, CallPCs, Known, Kicks, Cleared,
        EntriesAreLive, InRun
<1>0. untimely \subseteq untimely' /\ Clean'
  BY Marked
<1>1. ASSUME NEW p \in Procs, TakeWatchdogOwnership(p)
      PROVE  EntriesAreLive'
  BY <1>0, <1>1 DEF TakeWatchdogOwnership, lifeVars, kickVars, Calls, Home
<1>2. ASSUME NEW p \in Procs, ReleaseWatchdogOwnership(p)
      PROVE  EntriesAreLive'
  BY <1>0, <1>2 DEF ReleaseWatchdogOwnership, lifeVars, kickVars, Calls, Home,
         OwnerIs
<1>3. ASSUME NEW p \in Procs, RegisterWatchdogKick(p)
      PROVE  EntriesAreLive'
  BY <1>0, <1>3 DEF RegisterWatchdogKick, lifeVars, dogVars, Calls, AfterKick,
         Home
<1>4. ASSUME NEW p \in Procs, WatchdogReport(p),
             Early(p) \subseteq untimely'
      PROVE  EntriesAreLive'
  BY <1>0, <1>4 DEF WatchdogReport, lifeVars, kickVars, Home, AfterKick,
         SetStatus, Early
<1>5. ASSUME NEW p \in Procs, StartReportTimer(p)
      PROVE  EntriesAreLive'
  BY <1>0, <1>5 DEF StartReportTimer, lifeVars, dogVars, Home, NewTimer
<1>6. ASSUME NEW p \in Procs, UnregisterWatchdogKick(p)
      PROVE  EntriesAreLive'
  BY <1>0, <1>6 DEF UnregisterWatchdogKick, lifeVars, kickVars, Calls, Home,
         Last, SetStatus
<1>7. ASSUME NEW p \in Procs, ClearFlag(p)
      PROVE  EntriesAreLive'
  BY <1>0, <1>7 DEF ClearFlag, lifeVars, dogVars, Home, Last
<1>8. ASSUME NEW p \in Procs, StopReportTimer(p)
      PROVE  EntriesAreLive'
  BY <1>0, <1>8 DEF StopReportTimer, lifeVars, dogVars, Home
<1>9. ASSUME NEW c \in Callers, Call(c)
      PROVE  EntriesAreLive'
  BY <1>0, <1>9 DEF Call, lifeVars, kickVars, dogVars
<1>10. ASSUME NEW t \in Tasks, WatchdogCheck(t),
             ~IsRunning(t) \/ Outside(t) # {} => t \in untimely'
      PROVE  EntriesAreLive'
  BY <1>0, <1>10 DEF WatchdogCheck, lifeVars, kickVars, OwnerIs, Outside
<1>11. ASSUME NEW t \in Tasks, Start(t)
      PROVE  EntriesAreLive'
  BY <1>0, <1>11 DEF Start, kickVars, dogVars
<1>12. ASSUME NEW t \in Tasks, AssignID(t)
      PROVE  EntriesAreLive'
  BY <1>0, <1>12 DEF AssignID, kickVars, dogVars
<1>13. ASSUME NEW t \in Tasks, InitTask(t)
      PROVE  EntriesAreLive'
  BY <1>0, <1>13 DEF InitTask, lifeVars, dogVars, NewTimer
<1>14. ASSUME NEW t \in Tasks, InitFails(t)
      PROVE  EntriesAreLive'
  BY <1>0, <1>14 DEF InitFails, lifeVars, kickVars, dogVars
<1>15. ASSUME NEW t \in Tasks, Hang(t)
      PROVE  EntriesAreLive'
  BY <1>0, <1>15 DEF Hang, lifeVars, kickVars, dogVars
<1>16. ASSUME NEW t \in Tasks, EndRun(t)
      PROVE  EntriesAreLive'
  BY <1>0, <1>16 DEF EndRun, lifeVars, kickVars, dogVars
<1>17. ASSUME NEW t \in Tasks, ExitTask(t)
      PROVE  EntriesAreLive'
  BY <1>0, <1>17 DEF ExitTask, lifeVars, OwnerIs
<1>18. ASSUME NEW t \in Tasks, Invalidate(t)
      PROVE  EntriesAreLive'
  BY <1>0, <1>18 DEF Invalidate, kickVars, dogVars
<1>19. ASSUME NEW t \in Tasks, ReportDue(t)
      PROVE  EntriesAreLive'
  BY <1>0, <1>19 DEF ReportDue, lifeVars, kickVars, dogVars
<1>20. QED
  BY <1>1, <1>2, <1>3, <1>4, <1>5, <1>6, <1>7, <1>8, <1>9, <1>10, <1>11,
     <1>12, <1>13, <1>14, <1>15, <1>16, <1>17, <1>18, <1>19
  DEF Next, Step, Check, LifeStep, Mark

(* Nobody else reports for a task that is being unregistered. *)
LEMMA NextCleared == IInv /\ Next => Cleared'
<1> SUFFICES ASSUME IInv, Next
             PROVE  Cleared'
  OBVIOUS
<1> USE WatchdogAssumption DEF IInv, TypeOK, Tasks, Procs, Goto, Target,
        IsRunning, Clean, Settled, Places, CallPCs, Known, EntriesAreLive,
        Cleared
<1>0. untimely \subseteq untimely' /\ Clean'
  BY Marked
<1>1. ASSUME NEW p \in Procs, TakeWatchdogOwnership(p)
      PROVE  Cleared'
  BY <1>0, <1>1 DEF TakeWatchdogOwnership, lifeVars, kickVars, Calls, Home
<1>2. ASSUME NEW p \in Procs, ReleaseWatchdogOwnership(p)
      PROVE  Cleared'
  BY <1>0, <1>2 DEF ReleaseWatchdogOwnership, lifeVars, kickVars, Calls, Home,
         OwnerIs
<1>3. ASSUME NEW p \in Procs, RegisterWatchdogKick(p)
      PROVE  Cleared'
  BY <1>0, <1>3 DEF RegisterWatchdogKick, lifeVars, dogVars, Calls, AfterKick,
         Home
<1>4. ASSUME NEW p \in Procs, WatchdogReport(p),
             Early(p) \subseteq untimely'
      PROVE  Cleared'
  BY <1>0, <1>4 DEF WatchdogReport, lifeVars, kickVars, Home, AfterKick,
         SetStatus, Early
<1>5. ASSUME NEW p \in Procs, StartReportTimer(p)
      PROVE  Cleared'
  BY <1>0, <1>5 DEF StartReportTimer, lifeVars, dogVars, Home, NewTimer
<1>6. ASSUME NEW p \in Procs, UnregisterWatchdogKick(p)
      PROVE  Cleared'
  BY <1>0, <1>6 DEF UnregisterWatchdogKick, lifeVars, kickVars, Calls, Home,
         Last, SetStatus
<1>7. ASSUME NEW p \in Procs, ClearFlag(p)
      PROVE  Cleared'
  BY <1>0, <1>7 DEF ClearFlag, lifeVars, dogVars, Home, Last
<1>8. ASSUME NEW p \in Procs, StopReportTimer(p)
      PROVE  Cleared'
  BY <1>0, <1>8 DEF StopReportTimer, lifeVars, dogVars, Home
<1>9. ASSUME NEW c \in Callers, Call(c)
      PROVE  Cleared'
  BY <1>0, <1>9 DEF Call, lifeVars, kickVars, dogVars
<1>10. ASSUME NEW t \in Tasks, WatchdogCheck(t),
             ~IsRunning(t) \/ Outside(t) # {} => t \in untimely'
      PROVE  Cleared'
  BY <1>0, <1>10 DEF WatchdogCheck, lifeVars, kickVars, OwnerIs, Outside
<1>11. ASSUME NEW t \in Tasks, Start(t)
      PROVE  Cleared'
  BY <1>0, <1>11 DEF Start, kickVars, dogVars
<1>12. ASSUME NEW t \in Tasks, AssignID(t)
      PROVE  Cleared'
  BY <1>0, <1>12 DEF AssignID, kickVars, dogVars
<1>13. ASSUME NEW t \in Tasks, InitTask(t)
      PROVE  Cleared'
  BY <1>0, <1>13 DEF InitTask, lifeVars, dogVars, NewTimer
<1>14. ASSUME NEW t \in Tasks, InitFails(t)
      PROVE  Cleared'
  BY <1>0, <1>14 DEF InitFails, lifeVars, kickVars, dogVars
<1>15. ASSUME NEW t \in Tasks, Hang(t)
      PROVE  Cleared'
  BY <1>0, <1>15 DEF Hang, lifeVars, kickVars, dogVars
<1>16. ASSUME NEW t \in Tasks, EndRun(t)
      PROVE  Cleared'
  BY <1>0, <1>16 DEF EndRun, lifeVars, kickVars, dogVars
<1>17. ASSUME NEW t \in Tasks, ExitTask(t)
      PROVE  Cleared'
  BY <1>0, <1>17 DEF ExitTask, lifeVars, OwnerIs
<1>18. ASSUME NEW t \in Tasks, Invalidate(t)
      PROVE  Cleared'
  BY <1>0, <1>18 DEF Invalidate, kickVars, dogVars
<1>19. ASSUME NEW t \in Tasks, ReportDue(t)
      PROVE  Cleared'
  BY <1>0, <1>19 DEF ReportDue, lifeVars, kickVars, dogVars
<1>20. QED
  BY <1>1, <1>2, <1>3, <1>4, <1>5, <1>6, <1>7, <1>8, <1>9, <1>10, <1>11,
     <1>12, <1>13, <1>14, <1>15, <1>16, <1>17, <1>18, <1>19
  DEF Next, Step, Check, LifeStep, Mark

(* Nobody else registers a task that is being unregistered. *)
LEMMA NextStopped == IInv /\ Next => Stopped'
<1> SUFFICES ASSUME IInv, Next
             PROVE  Stopped'
  OBVIOUS
<1> USE WatchdogAssumption DEF IInv, TypeOK, Tasks, Procs, Goto, Target,
        IsRunning, Clean, Settled, Places, CallPCs, Stopped
<1>0. untimely \subseteq untimely' /\ Clean'
  BY Marked
<1>1. ASSUME NEW p \in Procs, TakeWatchdogOwnership(p)
      PROVE  Stopped'
  BY <1>0, <1>1 DEF TakeWatchdogOwnership, lifeVars, kickVars, Calls, Home
<1>2. ASSUME NEW p \in Procs, ReleaseWatchdogOwnership(p)
      PROVE  Stopped'
  BY <1>0, <1>2 DEF ReleaseWatchdogOwnership, lifeVars, kickVars, Calls, Home,
         OwnerIs
<1>3. ASSUME NEW p \in Procs, RegisterWatchdogKick(p)
      PROVE  Stopped'
  <2>1. /\ m_bKickTheDog' = [m_bKickTheDog EXCEPT ![Target(p)] = TRUE]
        /\ \A q \in Procs \ {p} : pc'[q] = pc[q]
        /\ pc'[p] \in {"kick", "startTimer", Home(p)}
        /\ Calls(p, "register")
    BY <1>3 DEF RegisterWatchdogKick, AfterKick
  <2>2. ASSUME NEW q \in Procs, pc'[q] \in {"stopTimer", "stopTimerLast"},
               Target(q) = Target(p), Target(q) \in QueueTasks \ untimely'
        PROVE  FALSE
    <3>1. q # p /\ pc[q] = pc'[q] /\ Target(q) \notin untimely
      BY <1>0, <2>1, <2>2 DEF Home
    <3>2. CASE p \in Callers
      <4>1. pc[p] = "register" /\ Target(p) = Callee[p] /\ Callee[p] \in Tasks
        BY <2>1, <3>2 DEF Calls
      <4>2. CASE q \in Callers
        BY <2>2, <3>1, <3>2, <4>1, <4>2
      <4>3. CASE q \in Tasks
        BY <2>2, <3>1, <3>2, <4>1, <4>3
      <4>4. QED
        BY <4>2, <4>3
    <3>3. CASE p \in Tasks
      <4>1. q \in Callers /\ Callee[q] = p
        BY <2>2, <3>1, <3>3
      <4>2. Settled(p)'
        BY <1>0, <2>2, <4>1, <3>3
      <4>3. pc'[p] \in {"kick", "startTimer"}
        BY <1>3, <2>2, <3>3 DEF RegisterWatchdogKick, AfterKick
      <4>4. QED
        BY <4>2, <4>3, WatchdogAssumption
    <3>4. QED
      BY <3>2, <3>3
  <2>3. QED
    BY <1>0, <2>1, <2>2
<1>4. ASSUME NEW p \in Procs, WatchdogReport(p),
             Early(p) \subseteq untimely'
      PROVE  Stopped'
  BY <1>0, <1>4 DEF WatchdogReport, lifeVars, kickVars, Home, AfterKick,
         SetStatus
<1>5. ASSUME NEW p \in Procs, StartReportTimer(p)
      PROVE  Stopped'
  BY <1>0, <1>5 DEF StartReportTimer, lifeVars, dogVars, Home, NewTimer
<1>6. ASSUME NEW p \in Procs, UnregisterWatchdogKick(p)
      PROVE  Stopped'
  BY <1>0, <1>6 DEF UnregisterWatchdogKick, lifeVars, kickVars, Calls, Home,
         Last, SetStatus
<1>7. ASSUME NEW p \in Procs, ClearFlag(p)
      PROVE  Stopped'
  BY <1>0, <1>7 DEF ClearFlag, lifeVars, dogVars, Home, Last
<1>8. ASSUME NEW p \in Procs, StopReportTimer(p)
      PROVE  Stopped'
  BY <1>0, <1>8 DEF StopReportTimer, lifeVars, dogVars, Home
<1>9. ASSUME NEW c \in Callers, Call(c)
      PROVE  Stopped'
  BY <1>0, <1>9 DEF Call, lifeVars, kickVars, dogVars
<1>10. ASSUME NEW t \in Tasks, WatchdogCheck(t),
             ~IsRunning(t) \/ Outside(t) # {} => t \in untimely'
      PROVE  Stopped'
  BY <1>0, <1>10 DEF WatchdogCheck, lifeVars, kickVars, OwnerIs
<1>11. ASSUME NEW t \in Tasks, Start(t)
      PROVE  Stopped'
  BY <1>0, <1>11 DEF Start, kickVars, dogVars
<1>12. ASSUME NEW t \in Tasks, AssignID(t)
      PROVE  Stopped'
  BY <1>0, <1>12 DEF AssignID, kickVars, dogVars
<1>13. ASSUME NEW t \in Tasks, InitTask(t)
      PROVE  Stopped'
  BY <1>0, <1>13 DEF InitTask, lifeVars, dogVars, NewTimer
<1>14. ASSUME NEW t \in Tasks, InitFails(t)
      PROVE  Stopped'
  BY <1>0, <1>14 DEF InitFails, lifeVars, kickVars, dogVars
<1>15. ASSUME NEW t \in Tasks, Hang(t)
      PROVE  Stopped'
  BY <1>0, <1>15 DEF Hang, lifeVars, kickVars, dogVars
<1>16. ASSUME NEW t \in Tasks, EndRun(t)
      PROVE  Stopped'
  BY <1>0, <1>16 DEF EndRun, lifeVars, kickVars, dogVars
<1>17. ASSUME NEW t \in Tasks, ExitTask(t)
      PROVE  Stopped'
  BY <1>0, <1>17 DEF ExitTask, lifeVars, OwnerIs
<1>18. ASSUME NEW t \in Tasks, Invalidate(t)
      PROVE  Stopped'
  BY <1>0, <1>18 DEF Invalidate, kickVars, dogVars
<1>19. ASSUME NEW t \in Tasks, ReportDue(t)
      PROVE  Stopped'
  BY <1>0, <1>19 DEF ReportDue, lifeVars, kickVars, dogVars
<1>20. QED
  BY <1>1, <1>2, <1>3, <1>4, <1>5, <1>6, <1>7, <1>8, <1>9, <1>10, <1>11,
     <1>12, <1>13, <1>14, <1>15, <1>16, <1>17, <1>18, <1>19
  DEF Next, Step, Check, LifeStep, Mark

(* Who registers a queue task starts its timer then, and who stops the timer
   has unregistered it. *)
LEMMA NextTimers == IInv /\ Next => Timers'
<1> SUFFICES ASSUME IInv, Next
             PROVE  Timers'
  OBVIOUS
<1> USE WatchdogAssumption DEF IInv, TypeOK, Tasks, Procs, Goto, Target,
        IsRunning, Clean, Settled, Places, CallPCs, Stopped, Timers
<1>0. untimely \subseteq untimely' /\ Clean'
  BY Marked
<1>1. ASSUME NEW p \in Procs, TakeWatchdogOwnership(p)
      PROVE  Timers'
  BY <1>0, <1>1 DEF TakeWatchdogOwnership, lifeVars, kickVars, Calls, Home
<1>2. ASSUME NEW p \in Procs, ReleaseWatchdogOwnership(p)
      PROVE  Timers'
  BY <1>0, <1>2 DEF ReleaseWatchdogOwnership, lifeVars, kickVars, Calls, Home,
         OwnerIs
<1>3. ASSUME NEW p \in Procs, RegisterWatchdogKick(p)
      PROVE  Timers'
  BY <1>0, <1>3 DEF RegisterWatchdogKick, lifeVars, dogVars, Calls, AfterKick,
         Home
<1>4. ASSUME NEW p \in Procs, WatchdogReport(p),
             Early(p) \subseteq untimely'
      PROVE  Timers'
  BY <1>0, <1>4 DEF WatchdogReport, lifeVars, kickVars, Home, AfterKick,
         SetStatus
<1>5. ASSUME NEW p \in Procs, StartReportTimer(p)
      PROVE  Timers'
  <2>1. CASE m_bKickTheDog[Target(p)] /\ IsRunning(Target(p))
    <3>1. /\ m_hWdogReportTimer'[Target(p)] # "none"
          /\ \A t \in Tasks \ {Target(p)} :
               /\ m_hWdogReportTimer'[t] = m_hWdogReportTimer[t]
               /\ t \in overtook' <=> t \in overtook
      BY <1>5, <2>1 DEF StartReportTimer, NewTimer
    <3>2. QED
      BY <1>0, <1>5, <3>1 DEF StartReportTimer, lifeVars, dogVars, Home
  <2>2. CASE ~(m_bKickTheDog[Target(p)] /\ IsRunning(Target(p)))
    <3>1. ASSUME NEW t \in QueueTasks \ untimely', Target(p) = t,
                 pc'[t] \in CallPCs \cup {"run"}, m_bKickTheDog'[t]
          PROVE  t \in overtook'
      <4>1. ~IsRunning(t) /\ overtook' = overtook
        BY <1>5, <2>2, <3>1 DEF StartReportTimer, lifeVars
      <4>2. p \in Tasks
        <5> SUFFICES ASSUME p \in Callers, p \notin Tasks
                     PROVE  FALSE
          OBVIOUS
        <5>1. pc[p] = "startTimer" /\ Callee[p] = t /\ t \notin untimely
          BY <1>0, <1>5, <3>1 DEF StartReportTimer
        <5>2. threadHandle[t] = Invalid /\ pc[t] \in {"run", "hung", "off"}
          BY <5>1
        <5>3. pc[t] = "run"
          BY <1>5, <3>1, <5>2 DEF StartReportTimer, Home
        <5>4. QED
          BY <4>1, <5>2, <5>3 DEF Named
      <4>3. pc[t] = "startTimer"
        BY <1>5, <3>1, <4>2 DEF StartReportTimer
      <4>4. threadHandle[t] # Invalid
        BY <4>1, <4>3 DEF Named
      <4>5. QED
        BY <4>1, <4>3, <4>4 DEF Named
    <3>2. QED
      BY <1>0, <1>5, <2>2, <3>1 DEF StartReportTimer, lifeVars, dogVars, Home
  <2>3. QED
    BY <2>1, <2>2
<1>6. ASSUME NEW p \in Procs, UnregisterWatchdogKick(p)
      PROVE  Timers'
  BY <1>0, <1>6 DEF UnregisterWatchdogKick, lifeVars, kickVars, Calls, Home,
         Last, SetStatus
<1>7. ASSUME NEW p \in Procs, ClearFlag(p)
      PROVE  Timers'
  BY <1>0, <1>7 DEF ClearFlag, lifeVars, dogVars, Home, Last
<1>8. ASSUME NEW p \in Procs, StopReportTimer(p)
      PROVE  Timers'
  BY <1>0, <1>8 DEF StopReportTimer, lifeVars, dogVars, Home
<1>9. ASSUME NEW c \in Callers, Call(c)
      PROVE  Timers'
  BY <1>0, <1>9 DEF Call, lifeVars, kickVars, dogVars
<1>10. ASSUME NEW t \in Tasks, WatchdogCheck(t),
             ~IsRunning(t) \/ Outside(t) # {} => t \in untimely'
      PROVE  Timers'
  BY <1>0, <1>10 DEF WatchdogCheck, lifeVars, kickVars, OwnerIs
<1>11. ASSUME NEW t \in Tasks, Start(t)
      PROVE  Timers'
  BY <1>0, <1>11 DEF Start, kickVars, dogVars
<1>12. ASSUME NEW t \in Tasks, AssignID(t)
      PROVE  Timers'
  BY <1>0, <1>12 DEF AssignID, kickVars, dogVars
<1>13. ASSUME NEW t \in Tasks, InitTask(t)
      PROVE  Timers'
  <2>1. \A u \in Tasks \ {t} :
          /\ m_hWdogReportTimer'[u] = m_hWdogReportTimer[u]
          /\ u \in overtook' <=> u \in overtook
    BY <1>13 DEF InitTask, NewTimer
  <2>2. ASSUME t \in QueueTasks, m_bKickTheDog[t]
        PROVE  m_hWdogReportTimer'[t] # "none" \/ t \in overtook'
    <3>1. CASE IsRunning(t)
      BY <1>13, <2>2, <3>1 DEF InitTask, NewTimer
    <3>2. CASE ~IsRunning(t)
      <4>1. threadHandle[t] # Invalid
        BY <1>13, <3>2 DEF InitTask, Named
      <4>2. QED
        BY <1>13, <4>1 DEF InitTask
    <3>3. QED
      BY <3>1, <3>2
  <2>3. QED
    BY <1>0, <1>13, <2>1, <2>2 DEF InitTask, lifeVars, dogVars
<1>14. ASSUME NEW t \in Tasks, InitFails(t)
      PROVE  Timers'
  BY <1>0, <1>14 DEF InitFails, lifeVars, kickVars, dogVars
<1>15. ASSUME NEW t \in Tasks, Hang(t)
      PROVE  Timers'
  BY <1>0, <1>15 DEF Hang, lifeVars, kickVars, dogVars
<1>16. ASSUME NEW t \in Tasks, EndRun(t)
      PROVE  Timers'
  BY <1>0, <1>16 DEF EndRun, lifeVars, kickVars, dogVars
<1>17. ASSUME NEW t \in Tasks, ExitTask(t)
      PROVE  Timers'
  BY <1>0, <1>17 DEF ExitTask, lifeVars, OwnerIs
<1>18. ASSUME NEW t \in Tasks, Invalidate(t)
      PROVE  Timers'
  BY <1>0, <1>18 DEF Invalidate, kickVars, dogVars
<1>19. ASSUME NEW t \in Tasks, ReportDue(t)
      PROVE  Timers'
  BY <1>0, <1>19 DEF ReportDue, lifeVars, kickVars, dogVars
<1>20. QED
  BY <1>1, <1>2, <1>3, <1>4, <1>5, <1>6, <1>7, <1>8, <1>9, <1>10, <1>11,
     <1>12, <1>13, <1>14, <1>15, <1>16, <1>17, <1>18, <1>19
  DEF Next, Step, Check, LifeStep, Mark

(* A task is named when it is started, or later. *)
LEMMA NextNamed == IInv /\ Next => Named'
<1> SUFFICES ASSUME IInv, Next
             PROVE  Named'
  OBVIOUS
<1> USE WatchdogAssumption DEF IInv, TypeOK, Tasks, Procs, Goto, Target,
        IsRunning, Known, Named, CallPCs, Home
<1>0. untimely \subseteq untimely' /\ Clean'
  BY Marked
<1>1. ASSUME NEW p \in Procs, TakeWatchdogOwnership(p)
      PROVE  Named'
  BY <1>0, <1>1 DEF TakeWatchdogOwnership, lifeVars, kickVars, Calls, Home
<1>2. ASSUME NEW p \in Procs, ReleaseWatchdogOwnership(p)
      PROVE  Named'
  BY <1>0, <1>2 DEF ReleaseWatchdogOwnership, lifeVars, kickVars, Calls, Home,
         OwnerIs
<1>3. ASSUME NEW p \in Procs, RegisterWatchdogKick(p)
      PROVE  Named'
  BY <1>0, <1>3 DEF RegisterWatchdogKick, lifeVars, dogVars, Calls, AfterKick,
         Home
<1>4. ASSUME NEW p \in Procs, WatchdogReport(p),
             Early(p) \subseteq untimely'
      PROVE  Named'
  BY <1>0, <1>4 DEF WatchdogReport, lifeVars, kickVars, Home, AfterKick,
         SetStatus
<1>5. ASSUME NEW p \in Procs, StartReportTimer(p)
      PROVE  Named'
  BY <1>0, <1>5 DEF StartReportTimer, lifeVars, dogVars, Home, NewTimer
<1>6. ASSUME NEW p \in Procs, UnregisterWatchdogKick(p)
      PROVE  Named'
  BY <1>0, <1>6 DEF UnregisterWatchdogKick, lifeVars, kickVars, Calls, Home,
         Last, SetStatus
<1>7. ASSUME NEW p \in Procs, ClearFlag(p)
      PROVE  Named'
  BY <1>0, <1>7 DEF ClearFlag, lifeVars, dogVars, Home, Last
<1>8. ASSUME NEW p \in Procs, StopReportTimer(p)
      PROVE  Named'
  BY <1>0, <1>8 DEF StopReportTimer, lifeVars, dogVars, Home
<1>9. ASSUME NEW c \in Callers, Call(c)
      PROVE  Named'
  BY <1>0, <1>9 DEF Call, lifeVars, kickVars, dogVars
<1>10. ASSUME NEW t \in Tasks, WatchdogCheck(t),
             ~IsRunning(t) \/ Outside(t) # {} => t \in untimely'
      PROVE  Named'
  BY <1>0, <1>10 DEF WatchdogCheck, lifeVars, kickVars, OwnerIs
<1>11. ASSUME NEW t \in Tasks, Start(t)
      PROVE  Named'
  BY <1>0, <1>11 DEF Start, kickVars, dogVars
<1>12. ASSUME NEW t \in Tasks, AssignID(t)
      PROVE  Named'
  BY <1>0, <1>12 DEF AssignID, kickVars, dogVars
<1>13. ASSUME NEW t \in Tasks, InitTask(t)
      PROVE  Named'
  BY <1>0, <1>13 DEF InitTask, lifeVars, dogVars, NewTimer
<1>14. ASSUME NEW t \in Tasks, InitFails(t)
      PROVE  Named'
  BY <1>0, <1>14 DEF InitFails, lifeVars, kickVars, dogVars
<1>15. ASSUME NEW t \in Tasks, Hang(t)
      PROVE  Named'
  BY <1>0, <1>15 DEF Hang, lifeVars, kickVars, dogVars
<1>16. ASSUME NEW t \in Tasks, EndRun(t)
      PROVE  Named'
  BY <1>0, <1>16 DEF EndRun, lifeVars, kickVars, dogVars
<1>17. ASSUME NEW t \in Tasks, ExitTask(t)
      PROVE  Named'
  BY <1>0, <1>17 DEF ExitTask, lifeVars, OwnerIs
<1>18. ASSUME NEW t \in Tasks, Invalidate(t)
      PROVE  Named'
  BY <1>0, <1>18 DEF Invalidate, kickVars, dogVars
<1>19. ASSUME NEW t \in Tasks, ReportDue(t)
      PROVE  Named'
  BY <1>0, <1>19 DEF ReportDue, lifeVars, kickVars, dogVars
<1>20. QED
  BY <1>1, <1>2, <1>3, <1>4, <1>5, <1>6, <1>7, <1>8, <1>9, <1>10, <1>11,
     <1>12, <1>13, <1>14, <1>15, <1>16, <1>17, <1>18, <1>19
  DEF Next, Step, Check, LifeStep, Mark

(* The variables keep their types. *)
LEMMA NextTypeOK == IInv /\ Next => TypeOK'
<1> SUFFICES ASSUME IInv, Next
             PROVE  TypeOK'
  OBVIOUS
<1> USE WatchdogAssumption DEF IInv, TypeOK, Tasks, Procs, Goto, Target,
        IsRunning, CallPCs, TaskPCs, Home
<1>0. untimely' \subseteq Tasks
  BY Marked
<1>1. ASSUME NEW p \in Procs, TakeWatchdogOwnership(p)
      PROVE  TypeOK'
  BY <1>0, <1>1 DEF TakeWatchdogOwnership, lifeVars, kickVars, Calls
<1>2. ASSUME NEW p \in Procs, ReleaseWatchdogOwnership(p)
      PROVE  TypeOK'
  BY <1>0, <1>2 DEF ReleaseWatchdogOwnership, lifeVars, kickVars, Calls,
         OwnerIs
<1>3. ASSUME NEW p \in Procs, RegisterWatchdogKick(p)
      PROVE  TypeOK'
  BY <1>0, <1>3 DEF RegisterWatchdogKick, lifeVars, dogVars, Calls, AfterKick
<1>4. ASSUME NEW p \in Procs, WatchdogReport(p),
             Early(p) \subseteq untimely'
      PROVE  TypeOK'
  BY <1>0, <1>4 DEF WatchdogReport, lifeVars, kickVars, AfterKick, SetStatus
<1>5. ASSUME NEW p \in Procs, StartReportTimer(p)
      PROVE  TypeOK'
  BY <1>0, <1>5 DEF StartReportTimer, lifeVars, dogVars, NewTimer
<1>6. ASSUME NEW p \in Procs, UnregisterWatchdogKick(p)
      PROVE  TypeOK'
  BY <1>0, <1>6 DEF UnregisterWatchdogKick, lifeVars, kickVars, Calls, Last,
         SetStatus
<1>7. ASSUME NEW p \in Procs, ClearFlag(p)
      PROVE  TypeOK'
  BY <1>0, <1>7 DEF ClearFlag, lifeVars, dogVars, Last
<1>8. ASSUME NEW p \in Procs, StopReportTimer(p)
      PROVE  TypeOK'
  BY <1>0, <1>8 DEF StopReportTimer, lifeVars, dogVars
<1>9. ASSUME NEW c \in Callers, Call(c)
      PROVE  TypeOK'
  BY <1>0, <1>9 DEF Call, lifeVars, kickVars, dogVars
<1>10. ASSUME NEW t \in Tasks, WatchdogCheck(t),
             ~IsRunning(t) \/ Outside(t) # {} => t \in untimely'
      PROVE  TypeOK'
  BY <1>0, <1>10 DEF WatchdogCheck, lifeVars, kickVars, OwnerIs
<1>11. ASSUME NEW t \in Tasks, Start(t)
      PROVE  TypeOK'
  BY <1>0, <1>11 DEF Start, kickVars, dogVars
<1>12. ASSUME NEW t \in Tasks, AssignID(t)
      PROVE  TypeOK'
  BY <1>0, <1>12 DEF AssignID, kickVars, dogVars
<1>13. ASSUME NEW t \in Tasks, InitTask(t)
      PROVE  TypeOK'
  BY <1>0, <1>13 DEF InitTask, lifeVars, dogVars, NewTimer
<1>14. ASSUME NEW t \in Tasks, InitFails(t)
      PROVE  TypeOK'
  BY <1>0, <1>14 DEF InitFails, lifeVars, kickVars, dogVars
<1>15. ASSUME NEW t \in Tasks, Hang(t)
      PROVE  TypeOK'
  BY <1>0, <1>15 DEF Hang, lifeVars, kickVars, dogVars
<1>16. ASSUME NEW t \in Tasks, EndRun(t)
      PROVE  TypeOK'
  BY <1>0, <1>16 DEF EndRun, lifeVars, kickVars, dogVars
<1>17. ASSUME NEW t \in Tasks, ExitTask(t)
      PROVE  TypeOK'
  BY <1>0, <1>17 DEF ExitTask, lifeVars, OwnerIs
<1>18. ASSUME NEW t \in Tasks, Invalidate(t)
      PROVE  TypeOK'
  BY <1>0, <1>18 DEF Invalidate, kickVars, dogVars
<1>19. ASSUME NEW t \in Tasks, ReportDue(t)
      PROVE  TypeOK'
  BY <1>0, <1>19 DEF ReportDue, lifeVars, kickVars, dogVars
<1>20. QED
  BY <1>1, <1>2, <1>3, <1>4, <1>5, <1>6, <1>7, <1>8, <1>9, <1>10, <1>11,
     <1>12, <1>13, <1>14, <1>15, <1>16, <1>17, <1>18, <1>19
  DEF Next, Step, Check, LifeStep, Mark

(* Every part of the invariant holds after every step. *)
LEMMA Invariance == Spec => []IInv
<1>1. Init => IInv
  BY InitIInv
<1>2. IInv /\ Next => IInv'
  BY NextTypeOK, Marked, NextKnown, NextPlaces, NextKicks, NextOwner,
     NextEntries, NextCleared, NextStopped, NextTimers, NextNamed DEF IInv
<1>3. IInv /\ UNCHANGED vars => IInv'
  <2> SUFFICES ASSUME IInv, UNCHANGED vars
               PROVE  IInv'
    OBVIOUS
  <2> USE DEF IInv, vars, IsRunning, Settled
  <2>1. TypeOK' /\ Clean' /\ Known' /\ Places' /\ Kicks'
    BY DEF TypeOK, Clean, Known, Places, Kicks
  <2>2. OwnerIsRunning' /\ EntriesAreLive'
    BY DEF OwnerIsRunning, EntriesAreLive, InRun
  <2>3. Cleared' /\ Stopped' /\ Timers' /\ Named'
    BY DEF Cleared, Stopped, Timers, Named
  <2>4. QED
    BY <2>1, <2>2, <2>3
<1>4. QED
  BY <1>1, <1>2, <1>3, PTL DEF Spec

(* The variables keep their types. *)
THEOREM TypeCorrect == Spec => []TypeOK
<1>1. IInv => TypeOK
  BY DEF IInv
<1>2. QED
  BY <1>1, Invariance, PTL

(* The entries of queue tasks are those of runs that go on: Run unregisters
   before it ends, and nobody enters the task again, unless calls from other
   threads overlap each other or the start or end of the task. *)
THEOREM EntriesSafe == Spec => []EntriesAreLive
<1>1. IInv => EntriesAreLive
  BY DEF IInv
<1>2. QED
  BY <1>1, Invariance, PTL

(* A queue task that runs and is registered has a report timer, unless that
   could not be started when it was last asked for, or Init came before Start
   had stored the ID and nobody has registered the task since. *)
THEOREM ReportsSafe == Spec => []ReportsGoOn
<1>1. IInv => ReportsGoOn
  <2> SUFFICES ASSUME IInv, NEW t \in QueueTasks \ untimely,
                      pc[t] = "run", Outside(t) = {}, m_bKickTheDog[t]
               PROVE  \/ m_hWdogReportTimer[t] \in {"running", "failed"}
                      \/ t \in overtook
    BY DEF ReportsGoOn
  <2>1. ASSUME NEW p \in Procs, Target(p) = t
        PROVE  pc[p] \notin {"kick", "startTimer"}
    <3>1. CASE p \in Tasks
      BY <2>1, <3>1 DEF Target
    <3>2. CASE p \in Callers
      BY <2>1, <3>2, WatchdogAssumption DEF Target, Outside, Tasks
    <3>3. QED
      BY <3>1, <3>2 DEF Procs
  <2>2. m_hWdogReportTimer[t] # "none" \/ t \in overtook
    BY <2>1 DEF IInv, Timers
  <2>3. QED
    BY <2>2 DEF IInv, TypeOK, Tasks
<1>2. QED
  BY <1>1, Invariance, PTL

(* A task that ends does not stay the owner, because Exit releases the
   watchdog before it invalidates the task ID. *)
THEOREM OwnerSafe == Spec => []OwnerIsRunning
<1>1. IInv => OwnerIsRunning
  BY DEF IInv
<1>2. QED
  BY <1>1, Invariance, PTL

(* An owner whose ID an int cannot hold is never recognised: it is the owner
   for ever, and from then on no check accuses anybody. *)
THEOREM WideOwnerStuck == Spec => WideOwnerIsStuck
<1>1. ASSUME [Next]_vars, m_WatchdogTaskId \in WideIDs
      PROVE  UNCHANGED <<m_WatchdogTaskId, accused>>
  <2> USE WatchdogAssumption, <1>1 DEF OwnerIs, dogVars
  <2>1. ASSUME NEW p \in Procs, Step(p)
        PROVE  UNCHANGED <<m_WatchdogTaskId, accused>>
    <3>1. CASE TakeWatchdogOwnership(p) \/ ReleaseWatchdogOwnership(p)
      BY <3>1 DEF TakeWatchdogOwnership, ReleaseWatchdogOwnership
    <3>2. CASE ~(TakeWatchdogOwnership(p) \/ ReleaseWatchdogOwnership(p))
      BY <2>1, <3>2 DEF Step, RegisterWatchdogKick, WatchdogReport,
         StartReportTimer, UnregisterWatchdogKick, ClearFlag, StopReportTimer
    <3>3. QED
      BY <3>1, <3>2
  <2>2. ASSUME NEW t \in Tasks, LifeStep(t)
        PROVE  UNCHANGED <<m_WatchdogTaskId, accused>>
    BY <2>2 DEF LifeStep, Start, AssignID, InitTask, InitFails, Hang, EndRun,
       ExitTask, Invalidate, ReportDue
  <2>3. ASSUME NEW t \in Tasks, Check(t)
        PROVE  FALSE
    BY <2>3 DEF Check, WatchdogCheck
  <2>4. ASSUME NEW c \in Callers, Call(c)
        PROVE  UNCHANGED <<m_WatchdogTaskId, accused>>
    BY <2>4 DEF Call
  <2>5. QED
    BY <2>1, <2>2, <2>3, <2>4 DEF Next, vars
<1>2. [Next]_vars =>
        [(m_WatchdogTaskId \in WideIDs)
           => UNCHANGED <<m_WatchdogTaskId, accused>>]_vars
  BY <1>1
<1>3. QED
  BY <1>2, PTL DEF Spec, WideOwnerIsStuck

(* A check accuses no queue task that has ended or unregistered: whatever it
   finds silent is a registered task in the run it was entered for, unless the
   task was called untimely. *)
THEOREM AccusedAreLive ==
  Spec => [][\A t \in Tasks : Check(t) =>
               \A id \in accused' \cap IDs :
                 taskOf[id] \in QueueTasks \ untimely =>
                   LET u == taskOf[id] IN
                   m_TaskID[u] = id /\ m_bKickTheDog[u] /\ InRun(u)]_vars
<1>1. ASSUME IInv, NEW t \in Tasks, Check(t), NEW id \in accused' \cap IDs,
             taskOf[id] \in QueueTasks \ untimely
      PROVE  /\ m_TaskID[taskOf[id]] = id
             /\ m_bKickTheDog[taskOf[id]] /\ InRun(taskOf[id])
  <2>1. m_TStatusMap[id] # "absent"
    BY <1>1 DEF Check, WatchdogCheck, IInv, TypeOK
  <2>2. QED
    BY <1>1, <2>1 DEF IInv, EntriesAreLive
<1>2. IInv /\ [Next]_vars =>
        [\A t \in Tasks : Check(t) =>
           \A id \in accused' \cap IDs :
             taskOf[id] \in QueueTasks \ untimely =>
               LET u == taskOf[id] IN
               m_TaskID[u] = id /\ m_bKickTheDog[u] /\ InRun(u)]_vars
  BY <1>1
<1>3. QED
  BY Invariance, <1>2, PTL DEF Spec

(* Where no thread ID fits an int, as on x86-64, the watchdog never finds
   anything, whoever takes it and whatever hangs: a check needs an owner that
   is recognised, or one that is no thread yet. *)
THEOREM NoAlarmIfAllWide ==
  ASSUME WideIDs = IDs
  PROVE  Spec => [](untimely = {} => accused = {})
<1>1. Init => (untimely = {} => accused = {})
  BY DEF Init
<1>2. IInv /\ (untimely = {} => accused = {}) /\ [Next]_vars
        => (untimely = {} => accused = {})'
  <2> SUFFICES ASSUME IInv, untimely = {} => accused = {}, [Next]_vars,
                      untimely' = {}
               PROVE  accused' = {}
    OBVIOUS
  <2>1. ASSUME NEW S, Mark(S)
        PROVE  S = {} /\ untimely = {}
    BY <2>1 DEF Mark
  <2>2. ASSUME NEW t \in Tasks, Check(t)
        PROVE  FALSE
    <3>1. IsRunning(t)
      BY <2>1, <2>2 DEF Check
    <3>2. m_TaskID[t] \in IDs
      BY <3>1 DEF IsRunning, IInv, TypeOK
    <3>3. QED
      BY <2>2, <3>2 DEF Check, WatchdogCheck, OwnerIs
  <2>3. ASSUME NEW c \in Callers, Call(c) /\ Mark({})
        PROVE  accused' = {}
    BY <2>1, <2>3 DEF Call, dogVars
  <2>4. ASSUME NEW p \in Procs, Step(p)
        PROVE  accused' = {}
    BY <2>1, <2>4 DEF Step, TakeWatchdogOwnership, ReleaseWatchdogOwnership,
       RegisterWatchdogKick, WatchdogReport, StartReportTimer,
       UnregisterWatchdogKick, ClearFlag, StopReportTimer, dogVars
  <2>5. ASSUME NEW t \in Tasks, LifeStep(t)
        PROVE  accused' = {}
    BY <2>1, <2>5 DEF LifeStep, Start, AssignID, InitTask, InitFails, Hang,
       EndRun, ExitTask, Invalidate, ReportDue, dogVars
  <2>6. CASE UNCHANGED vars
    BY <2>6 DEF vars
  <2>7. QED
    BY <2>2, <2>3, <2>4, <2>5, <2>6 DEF Next
<1>3. QED
  BY <1>1, <1>2, Invariance, PTL DEF Spec
=============================================================================
