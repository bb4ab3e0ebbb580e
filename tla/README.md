# A TLA+ model of AefLib

AefLib (`src/include`, `src/src/AefLib/Linux`) is a C++ library of *tasks*:
objects with a thread, a message queue, timers, a watchdog, and ready-made
tasks for a TCP server and a serial port. It was ported from VxWorks to POSIX
threads. What is hard in it is never an algorithm; it is that almost every
member is read and written by several threads, and that a task can be stopped,
started again and deleted while others use it. This directory models that part,
checks it with TLC and proves the most important results with TLAPS.

Paths below are relative to the repository; `aefTask.cpp:161` is
`src/AefLib/Linux/aefTask.cpp`, line 161.

## Inventory

| Component | State | Operations | Hard behaviour | Correct when |
|---|---|---|---|---|
| Task, `aefTask.cpp` | `m_TaskID`, `m_threadHandle`, `m_bTaskRunning`, `m_semTaskStop`, who to inform, delete flag; the static map `m_TQMap` of names | `Start`, `Stop(ms)`, `Stop(task, id)`, `SetDeleteFlag`, `RunWrapper` (`Init`, `Run`, `Exit`) | all members unprotected; callers race each other and the threads of several incarnations | one thread in the body at a time; a Stop is not lost; the name map follows the task |
| Queue task, `aefQueueTask.cpp` | `m_QueueID`, the kernel's queue, message handlers | `Init`, `Run`, `Exit`, four `SendMessage`s | descriptors closed and reused; full queues; a global mutex held over a blocking send; shutdown with messages pending | messages reach the task they name; a stopped task ends |
| Task message, `aefTaskMessage.cpp` | data in place, or a pointer | `SetData`, `GetData`, `Cleanup` | who deletes the buffer | one owner, freed once |
| Mutex and ownership, `aefMutex.cpp`, `aefTaskSafe.cpp` | recursive mutex, `m_taskOwnerID` | `Lock`, `Unlock`, `TakeOwnership`, `ReleaseOwnership`, `IsOwned` | nesting; a member read without the lock | locks and owner stay in step |
| Timer, `aefTimer.cpp` | `m_timerMap`, records on the heap, POSIX timers | `Start`, `Stop`, `DeleteAllTimers`, `Fire`, `HandleTimer`, `GetTimerClientInfo` | `Fire` runs in a thread of its own, on a record that may be deleted and reused; stale messages | a stopped timer is silent; a one-shot is handled once |
| Watchdog, `aefTask.cpp`, `aefQueueTask.cpp` | `m_TStatusMap`, `m_WatchdogTaskId`, report timer | take and release ownership, register, report, check | tasks come and go while the owner checks; IDs cut to `int` | a task that stops reporting is noticed, one that reports is not |
| TCP server, `aefTcpServer.cpp` | client map, sockets, keep-alive and receive timeouts | `Configure`, `Send`, `CloseConnection`, `Init`, `Run`, `Exit` | other threads mark connections; descriptors reused; messages to the parent with the map locked | each client is reported gone once and forgotten |
| Serial port, `aefSerial.cpp` | port configuration, receive and keep-alive times, exit reason | `Configure`, `ConfigurePort`, `Send`, `Run`, `Exit` | configuration changed under `Run` | the last configuration is the one in use |
| Exception, packet interface, types | none | formatting, an abstract interface | none | — |

Interaction: a `CAefQueueTask` is a `CAefTask` whose `Init` enters its queue
descriptor in the task map; anybody sends to it through that map, through the
object, or to all. A task's `CAefTimer` posts to the same queue; the queue
task's handler asks the timer object whether the timer is still there. The
watchdog report is such a timer. TCP server and serial port are tasks that
report to a parent queue task.

## Plan

Written, in this order, the most shared component first:

1. `Task` with the abstract `TaskLife`; `TaskProofs`.
2. `QueueTask`, on the assumption `Task` establishes: one thread per task.
3. `TaskSafe`; `TaskSafeProofs`.
4. `Timer`, which takes from `QueueTask` a bounded queue that keeps its order;
   `TimerProofs`.
5. `TcpServer`, which takes from `TaskLife` one thread at a time and from
   `QueueTask` a parent with a bounded queue; `TcpServerProofs`.

6. `Watchdog`: registration, reports and checks over incarnations, with the part
   of the life cycle that decides `IsRunning()`; `WatchdogProofs`.
7. `Serial`, a task with an owner and senders, the device and the clock;
   `SerialProofs`.
8. `QueueTaskProofs`.
9. `QueueBufferProofs` with the abstract `BufferLife`.

Nothing large is left. Worth doing next: two tasks with one name; real time in
the TCP server, as `Serial` has it.

## Modules

`MCTask`, `MCQueueTask`, `MCTaskSafe`, `MCTimer`, `MCTcpServer`, `MCWatchdog`
and `MCSerial` give the instances for TLC and hold nothing of the system. An
operator `A_Something` that stands before an action `A` is a variant of `A` with
a mistake in it; it is there to show that the properties notice the mistake and
is used by no specification.

### Task, TaskLife

`Task` is one `CAefTask` object with `Callers` (threads of the application) and
`Threads` (those `pthread_create` can return, each once, so their number bounds
the successful Starts). Every read or write of a member that another thread can
observe is a step of its own: `Start` tests `m_TaskID` and resets two members;
`Create` or `CreateFails` is `pthread_create`; `AssignID` is the store at line
161, which takes whatever `m_threadHandle` then holds. `Stop`, `StopTryWait`,
`StopPost` are lines 180, 209 and 214. `StopInform` and `StopInformClear` are the
other `Stop`. The thread goes through `Enter` (`sem_wait`), `Begin`, `InitTask`
or `InitFails`, Run's loop (`RunEnds` by the flag, `RunReturns` by itself,
`SelfStop`), `RunCleansUp` (what a queue task does after its loop), `ExitErase`,
`ExitInvalidate`, `Post`, `Notify`, `Inform`, `Delete`.

The abstraction of Run is what a derived class may do: end when the flag is
cleared (`CAefQueueTask::Run` polls it), return, fail in Init, stop its own task.
`sem_timedwait` gets a relative time as an absolute deadline (188–207), and zero
for `AEF_WAIT_FOREVER`, so it never waits; that is the code's behaviour and is
modelled. After `delete this` nothing of the object is modelled.

The receiver of the "we've stopped" message may end and come back
(`ReceiverChanges`). `Notify` tests the pointer and the receiver's `IsRunning()`
(464); `Inform` (470) may wait for room in the receiver's queue, ignores the
result, and reads the pointer again, which a Start may have cleared meanwhile:
the program then calls through NULL (`alive` is FALSE).

`TaskLife` says what that amounts to: one thread at a time is inside the body,
and each only once. `Task` implements it (`OneThreadAtATime`), under the mapping
`active` = the thread between `sem_wait` and `sem_post`.

### QueueTask, BufferLife

Queues belong to the kernel, are bounded, are never unlinked, and outlive the
descriptors; `openOn` says which queue a descriptor is open on, and a closed
descriptor's number may be handed out again. The map's mutex is a variable,
since a send by name holds it over the whole `mq_send` (302–310) and a send
blocks while the queue is full. `Resolve` is the kernel's look-up of the
descriptor, `Enqueue` the delivery. A message carries how it was sent, whom its
sender meant, and its buffer, if `SetData` had to allocate one. The drain loop
of a stopping task is translated as written: it tests `myQueue` and receives
from `m_QueueID`, which is already invalid, so a receive of the loop changes
nothing and only the test that ends it is an action. A handler sends at most one
message at a time. A send to a task's object reads `m_QueueID` twice, for its
test (`SendMember`, 358) and for the `mq_send` (`ReadMember`, 360). Who sends in
which way is a constant (`NameSenders`, `MemberSenders`, `BroadcastSenders`), so
that an instance can leave a way out; the proofs hold for any choice. `LockMap`
looks the name up (`Found`, `NotFound`, `FoundAll`). A send that returns
`AEF_ERROR` frees nothing, and no sender in the repository does: the buffer
leaks (`lost`). A descriptor 0 in the map (a task that has stopped advertising)
makes `mq_send` fail.

`OpenFails` is an `Init` that fails for want of a queue. `InitFails` is a
derived class whose own `Init` fails after `CAefQueueTask::Init` has registered
the queue (`aefTask.cpp:451-458` calls `Run` only on success, and `Exit` in any
case): `Exit` erases the entry, the queue is neither emptied nor closed, and
what was sent by name waits for the next incarnation. Such a task is
`abandoned`, a history, until one of its later clean-up loops finds the queue
empty; `NothingLeftThroughMap` is about the others. `FailingInits` are the tasks
with such a class.

`BufferLife` is the life of one buffer that is sent to one task: allocated by
its sender, in a queue, in a task's hands, freed, in this order, and freed once,
by the task that received it; or lost, by a sender whose send failed.
`QueueTask` implements it for the buffers that are not broadcast, under the
mapping `where`: a buffer is where the message is that carries it, freed if it
is in `freed`, lost if it is in `lost`, unused otherwise. The step from a queue
to a hand must be of the same task, and a receive moves every other message of
the queue up.

### TaskSafe

The recursive mutex is `holder` and `depth`; `locks` counts the Locks of each
thread's own that it has not yet undone. Clients call `Unlock` once for each
`Lock` that returned true: without that assumption nothing is true of any lock. A
finite `msWait` becomes a deadline in the past (`aefMutex.cpp:71-75`), so a timed
lock is a try. `m_lockCount` is left out: it decides nothing, and it is
decremented after the unlock (105).

### Timer

A timer is a record at an address (`info`, `allocated`), an entry of
`m_timerMap`, and a POSIX timer (`armed`) that passes the address (`sival`) to
`Fire`. Each expiry creates a Fire thread, which reads the record with no lock
(`FireRead`) and then sends (`FireSend`). If the record has been deleted, the
read yields what is there: the handle of the timer that was given the block
since, or the old handle, or none. `Stop`, `HandleTimer` and `DeleteAllTimers`
remove a timer under the map's mutex, which they hold over nothing that waits,
so each is a step. `Receive`, `Lookup`, `HandleTimer`, `OnTimer` are the task's
handler of `AEF_TM_TIMER`: between them other threads may stop the timer.
`timer_create` and `timer_settime` may fail: the second disjuncts of `Create` (the
record leaks) and `Arm` (the entry goes again, the handle returned is the invalid
one). The task's Run may end and the task may start again with the same queue and
the same timer object: `RunEnds`, then `DrainTest`, the test of the clean-up loop,
which only an empty queue passes, `CloseQueue`, and Exit with `DeleteAllTimers`.
With a message pending the task stays in the loop for ever, as in `QueueTask`,
and keeps its timers. Starts are made by the task's thread (`StartTimer` is
protected), for a non-zero time.

### TcpServer

A client is a descriptor: an entry of the client map (`clients`, with `bDelete`
as `marked`), a bit of `m_setSelect`, and a socket of the kernel (`open`).
`m_semClientMap` is a variable, because the server's thread holds it over its
three loops ("marked", "receive", "timeouts"), and there over the `SendMessage`
of a disconnect (673) or of received data, which waits for room in the parent's
queue. `RemoveClient` is the removal, `Report` the message. A loop visits the
clients in any order, which allows more than the map's order. Other threads call
`Send`, `CloseConnection`, or a function that only looks into the map, with any
descriptor, stale ones included; the parent does so from its message handlers.
`Send` is two steps, `SendValid` (the lock and the look-up) and `Write` (the
writes and the unlock). The server may be stopped, configured and started again
any number of times. A `Configure` that falls between Exit's 501 and 504 loses
its buffer, and the next run removes each client that sends; a server that was
never configured may send its shutdown message to a null parent (`crashed`).
Both are in the model, as are an ID of a connection that is gone and now names a
new client, which a call (845) then closes, and a `write` (283) to a client that
does not read: it may block for ever, with the map locked.

Left open: time. Any client may be found overdue and a keep-alive message may be
due whenever `Run` looks, so `SetKeepalive`, the tick arithmetic and `m_LastSend`
have no counterpart. The parent is assumed to run. `told` and `orphans` are
history: the connections reported and not reported gone, and those of them that
`RemoveAllClients` dropped, of which the parent hears nothing, although
`CloseConnection` promises a message (`aefTcpServer.cpp:836-838`).

### Watchdog

`QueueTasks` report by a timer and unregister when their Run ends; `PlainTasks`
are `CAefTask`s whose Run calls `WatchdogReport` and which end without
unregistering. The functions are public, so `Callers` call them too, each on one
task. A critical section of `m_mutexTStatusMap` is one step; what the code does
outside it is a step of its own: `UnregisterWatchdogKick` (354-359) erases the
entry, `ClearFlag` (360) clears `m_bKickTheDog`, `StopReportTimer` stops the
timer. The life of a task is `Task` cut down to what these functions see:
`Start` is `pthread_create`, `AssignID` the store at 161, which the new thread
may overtake, `ExitTask` and `Invalidate` are the end of Exit, before and at
414. Threads are never joined, so an ID is not used twice. The report timer is
"running", "none", or "failed": `StartTimer` was asked for it and
`CAefTimer::Start` could not make one, which nobody looks at
(`aefQueueTask.cpp:516`). `StartTimer` also refuses if `IsRunning()` is false,
and `Init` (170) may ask before the ID is stored; then nobody asks again
(`overtook`, a history). `Hang` is a handler that never returns, which the
watchdog is there for.

Map and owner hold IDs as `int`. `WideIDs` are those that an `int` cannot hold:
`m_WatchdogTaskId == m_TaskID` converts the `int` back to `pthread_t` and fails.
That an owner is then never recognised, never released and sees nothing is
`WideOwnerIsStuck`. It is the normal case on x86-64, so the watchdog works on
32-bit machines only. Two wide IDs that are cut to the same `int` are left out.

The remaining properties are not true of every use, and `untimely` is the history
of the uses they except: a task that another thread calls while a second one
does, or before its start or its end is complete; one that reports or checks
before its ID is stored (it enters itself under -1, or finds itself the owner of
a watchdog nobody owns); one that checks while another thread unregisters it (it
enters itself again). Each exception was added for a counterexample: they are
what the library's users must avoid, and nothing in its comments says so. What
else the model shows: nothing registers a task again after a restart (255).

### Serial

The object's thread (`Task`), the thread that configures, starts and stops it
(`Owner`) and `Senders`. `m_semDev` is a variable. `Send` is `SendTakes` (the
wait, which never waits, since its deadline is one second after the epoch: 295)
and `Write`, or `SendFails`; the task's own keep-alive message is a `Send` too,
whose being due is left open. `asked` has the members that `ConfigurePort`
stores, `m_sioOpts` the bits it makes of them (`Bits`: any data size but 7
becomes 8 bits, with `AEF_SUCCESS`, 222-229). It changes one field after the
other with no lock, and the data bits and the parity in two steps (`ClearBits`,
`SetBits`), so Run may read half of a new setting: 5 data bits, say. `Termios`
is what reaches the device: `c_cflag = m_sioOpts` (346, 414) overwrites the
speed that `cfsetspeed` has put there, so the speed of every line is B0,
whatever baud rate was asked for, against the comment at 200 ("Allows dynamic
updates to the connection settings"). `AppliedUnlessRaced` therefore says that
the device has `Termios(Bits(asked))`, and not that it has what was asked. Init
and Run read the settings (`ReadSettings`), apply them and clear `m_bPortUpdate`
(`InitSets`, `UpdateEnds`). `Close` and `ResetFD` are apart, since the number of
a closed descriptor may be given to another file (`OtherFile`) before 478.
`Start` goes up to where `RunWrapper` has set the flag; the races before that
are `Task`'s.

A tick is a second: `TicksFromMs` divides by 1000 first. `TickPeriod` is the
number of seconds after which the milliseconds exceed 32 bits, `Word` the modulus
of the subtraction at 515. A timeout of less than a second is 0 ticks, which is
none. `m_ClientTimeout` is read twice, for the test (`ReceiveTimeoutCheck`, 511)
and for the comparison (`CompareTimeout`, 515): if `SetKeepalive` switches the
timeout off in between, any line is overdue.

Histories name the cases in which the obvious property fails. `raced`: settings
completed between Run's reading and its clearing of the flag are lost. `lost`: a
`Configure` of a running object, possible if it was started unconfigured,
forgets its open port. `overlapped`: a `Configure` between 482 and 487 has its
buffer deleted. `wrapped`: the ticks fell to 0 and a healthy line looks silent.
`excuse` has the reasons of an end: "silent", "update" (the new settings could
not be applied), "wrapped", "disabled" (the timeout was switched off between 511
and 515), "garbage" (`m_exitReason` was never set), "select" (456). The last
ends the task and is not told, against the comment at 126. `alert` is what
became of the shutdown message: "none", "sent", or "lost", since the result of
`SendMessage` (495) is ignored and the parent's queue may be gone. `AlertIsTrue`
says which excuses lead to the attempt and that there is no other. A shutdown
message to a parent that was never given is a call through NULL (`crashed`).

Left out: `FD_SET` of descriptor -1, that `selTmout` is not set again before each
`select` (a busy loop), the bytes and the parser.

## Runs

| Run | Instance | Shows |
|---|---|---|
| `task` | 2 callers, 2 threads: 685,898 states | `SemaphoreIsToken`, `RegisteredWhileRunning`, `StopSticks`, `StopEndsRun`, `StopIsConfirmed`, the refinement of `TaskLife` |
| `task_stop` | 1 caller | **violated**: `StoppedMeansStopped` |
| `task_restart` | 1 caller | **violated**: `RestartableWhenEnded` |
| `queue_task` | 2 tasks, 2 descriptors, 1 buffer, queues of 1; a caller sends by name, a task, whose derived `Init` may fail, through the objects and to all: 1,390,462 states | `MapNamesOpenQueue`, `NamedArrivesWhereSent`, `NothingLeftThroughMap`, `OneHolderUntilFreed`, `ShutdownCompletes` |
| `queue_drain` | 1 task, 1 caller | **violated**: `PendingAreCleanedUp` |
| `queue_broadcast` | 2 tasks, a broadcast with a buffer | **violated**: `NoDanglingMessage` |
| `task_safe` | 3 threads, 2 nested locks each, symmetric | `LocksAccountedFor`, `NoStrangeReason`, `OwnerReleasesFirst`, no deadlock |
| `timer` | 2 Starts, 2 addresses, queue of 2: 276,281 states | `RecordsOutliveTimers`, `StoppedStaysSilent`, `OneShotOnce`, `OneShotEnds` |
| `timer_early` | the same | **violated**: `NeverEarly` |
| `tcp_server` | 2 descriptors, the parent and 1 more thread, queue of 1: 411,383 states | `ReportsFollowMap`, `SocketsAccountedFor`, `WriteHitsClient`, `IteratorsStayValid`, `CloseCompletes`, `StopCompletes` |
| `watchdog` | a queue task, a plain task, 1 caller, a narrow and a wide ID: 816,057 states | `EntriesAreLive`, `ReportsGoOn`, `OwnerIsRunning`, `WideOwnerIsStuck`, `HungIsNoticed` |
| `serial` | owner, task, 1 sender, 2 symmetric descriptors, 2 settings, timeouts of 0 and 1 tick, ticks that wrap after 3: 14,318,754 states | `WriteHitsPort`, `AppliedUnlessRaced`, `AlertIsTrue`, `ConfiguredHasBuffer` |

The violated ones are statements of the repository's own comments that the code
does not keep:

- `StoppedMeansStopped`: a Stop between `pthread_create` and the new thread's
  `sem_wait` returns `AEF_SUCCESS` and is then undone by RunWrapper, which sets
  the flag itself (`aefTask.cpp:449`; the promise is at 171–174).
- `RestartableWhenEnded`: Start stores `m_TaskID` after `pthread_create` (161); a
  thread that has already ended leaves a task that looks running for ever.
- `PendingAreCleanedUp`: a task stopped with a message pending spins in its
  clean-up loop (`aefQueueTask.cpp:257-275`).
- `NoDanglingMessage`: a broadcast hands one allocated buffer to every receiver,
  and each deletes it (`aefQueueTask.cpp:397`, `aefTaskMessageInterface.h:58`).
- `NeverEarly`: a late Fire thread of a stopped timer reads the record of the
  timer that was given the same block, and that timer is handled before its time
  (`aefTimer.cpp:343`, the promise at 99).

### Bounds and why they suffice

Two callers and two threads give every race of this code: a Start against a
Start, a Stop against a Start, an old incarnation against the next. Two tasks
and two descriptors let a closing task's descriptor be reused by the other one,
with a sender caught between look-up and delivery; a queue of one message is
full and empty as often as possible. The buffer is a single one because a
buffer's life does not depend on other buffers. With two addresses and two
Starts the second timer may or may not get the first one's record, and a queue
of two holds both a stale and a fresh message; one Fire thread per timer at a
time is enough for a late Fire against a new timer, but not for two expiries of
one periodic timer that overtake each other. `MaxLocks` = 2 allows one nested
lock besides ownership. Two descriptors let a loop of the server remove one
client and go on to another, and let a descriptor be accepted again while a
thread still holds its ID; the parent's queue of one message is full after every
report. In `queue_task` only the task `a` sends from its handler; both its
targets, itself included, restart and swap descriptors around it, and the
caller's named send is what the mutex protects; `FailingInits` has only `a`, so
that one queue may be abandoned while the other task goes on. One narrow and one
wide ID let either kind of task be the recognised owner or the lost one, each
once or, with the other's ID, in two incarnations. In `serial` the two
descriptors are the port and the file that takes its number, and nothing tells
them apart, so they are symmetric (no liveness is checked there); the two
settings differ in a field that is cleared first and in one that is not, and one
of them has a size, 6, that the code takes and cannot meet; with timeouts of 0
and 1 and a wrap after 3 the line is silent, heard again, wrapped and no longer
watched in every order. The proofs below need none of these bounds.

### Fairness

- `Task`: weak fairness of the steps of a created thread that wait for nobody
  (`ThreadProgress`). Not assumed: that callers ever call, that Run returns by
  itself, and the steps that wait (`ThreadWait`): for the semaphore, for the map's
  mutex in Init and Exit (`InitTask`, `ExitErase`), for the clean-up loop
  (`RunCleansUp`), for room in the receiver's queue (`Inform`). `QueueTask` shows
  that each of the last three may never end. So `StopEndsRun` and
  `StopIsConfirmed` are about a thread that does not stay `AtTheMercy` of others
  for ever, and say that nothing else, no call of another thread, keeps it.
- `QueueTask`: strong fairness of each thread's step. A mutex or a place in a
  queue that is free again and again is obtained in the end: the kernel serves
  the senders that wait on a full queue in their order, and Linux mutexes do not
  starve a waiter for ever in practice. Starts, Stops and the first step of a
  send are not fair. `ShutdownCompletes` also assumes that no sender stays
  blocked on a full queue for ever. The code does not guarantee that, and the
  property says what is true when it is so.
- `TcpServer`: strong fairness of the server's thread and of each call in
  progress, for the mutex, except for the writes; weak fairness of the parent's
  receiving. `select` returns because it has a timeout. A `write` to a client that
  does not read may block for ever with the map locked (283), and then nothing
  else of the server goes on: both liveness properties have the premise
  `ClientsRead`. They also have an exception, `Deadlocked`, because the code has
  one: the server waits in `SendMessage` with the map locked, and a handler of the
  parent waits for that lock. TLC finds both properties violated without the
  premise, and without the exception. `CloseCompletes` counts a connection that
  Exit drops as closed, without the promised message (`Closed`).
- `Watchdog`: weak fairness of a step that has begun (a call goes on), strong
  fairness of `Check`: an owner "is required to check it periodically"
  (`aefTask.cpp:266`), so one that comes back to its loop again and again checks.
  Not assumed: that anybody registers, takes or releases. `HungIsNoticed` holds
  while there is an owner that comes back.
- `Serial`: none, and no liveness is claimed: a `write` that blocks holds
  `m_semDev`, and Exit waits for it, so a stopped port may never end.
- `Timer`: weak fairness of the task's thread and of the expiry of each armed
  timer, strong fairness of each Fire thread, for the same reason as senders. The
  clean-up loop leaves only when the queue is empty, and nothing empties it:
  `OneShotEnds` excepts a task that is stuck there (`DrainPending`).

`CHECK_DEADLOCK FALSE` stands where the system may stop: a deleted task, a sender
blocked for ever, a program that starts no more timers or has used up its thread
IDs, a call through NULL. `task_safe` checks
deadlock.

## Proofs

All for any values of the constants, from the named assumptions of the modules
(actors are distinct; `NoThread` and `NoAddr` are not actors or addresses; the
bounds are natural numbers).

- `TaskProofs`. `IInv` is `TypeOK`, `SemaphoreIsToken` and
  `RegisteredWhileRunning`. None is inductive alone: the semaphore is binary
  because whoever posts it is its one holder, and an entry that is erased
  belongs to the thread that erases it because there is one thread in the body.
  From it follow `TypeCorrect`, `TokenSafe`, `RegistrationSafe`, `StopIsSticky`
  (only `Begin` sets the flag, and a thread at `Begin` holds the semaphore the
  running one would have to hold) and `Refinement`: `Enter` maps to `TaskLife`'s
  Begin, `Post` to its End, every other step stutters. Four more theorems draw
  the boundary of the two properties that the runs find violated.
  `SuccessMeansStopped`: a Stop that returns `AEF_SUCCESS` leaves no thread in
  the body, unless a Start is about to create a thread or has created one that
  is still before its `sem_wait`; then, `QuietUntilStart`, nothing runs before
  the next Start. `LostByLateStart`: only the store of the ID of a thread past
  its Exit, or a failing Start after such a store, loses the task, and
  `LostForever`: a task that is lost never gets another thread.
- `TaskSafeProofs`. `IInv` is `TypeOK` and `LocksAccountedFor`, which charges
  each lock of the mutex to a Lock of a client, to ownership, or to a call that
  is about to use it or give it back. `BranchIsDead` shows that
  `TakeOwnership`'s third branch ("for some strange reason",
  `aefTaskSafe.cpp:64`) cannot happen with balanced clients, and `HandOver` that
  no owner is replaced.
- `TimerProofs`. `RecordsOutliveTimers` needs `Linked` (an armed timer is in the
  map or about to be entered, under the same address) and `Starting` (the timer
  that Start is making is in nobody's way); `StoppedStaysSilent` and
  `OneShotOnce` need `History`: a handle that left the map never returns to it,
  since Start uses each handle once. That last step is where the bound on
  `m_TimerInstance`, which the code lets wrap, enters. `NeverEarly`, which a run
  violates, holds of every behaviour in which a new record never has the address
  of an earlier one (`EarlyOnlyByReuse`): reuse is the only cause. `OnTime` is
  the invariant: what a Fire thread, the queue and the task hold is the handle
  of a timer that has expired.
- `TcpServerProofs`. To the five invariants of the run it adds `MutexHeld` (who
  acts as if it held the mutex holds it: a `Send` that writes, the server's
  thread while it reports a disconnect or data or writes keep-alives) and
  `SockIsFd`. With them each invariant is preserved: a `Send` that writes keeps
  every removal away (`WritesSafe`), a loop's list shrinks with the map
  (`IteratorsSafe`), and a client that is removed was told of, since nothing is
  being reported when a loop visits it (`ReportsSafe`). `DataSafe` places
  received data between a client's connect and its disconnect.
  `CrashOnlyUnconfigured`: the call through a null parent happens only to a
  server that never was configured. `DeadlockIsForever` is the deadlock that the
  liveness properties except: the server in `SendMessage` with the map locked,
  the parent's queue full, its handler waiting for the map. No stop, timeout or
  other thread ends it; whoever else calls the server waits for ever
  (`CallersWaitForever`), and what was marked stays open (`MarkedForever`).
- `QueueTaskProofs`. `IInv` adds three invariants to those of the run. `Phases`
  ties each task's descriptors and its map entry to where its thread is: an
  entry that names a queue belongs to a thread between `Register` and `Retract`.
  `Held`: who sends by name or broadcast holds the map's mutex and is the only
  one who does. `Sends`: what a send in progress has found is still open on the
  task it was found for. So a retraction, which needs the mutex, cannot come
  between a look-up and its send (`NamedSafe`), and once the entry is gone what
  is in the queue came from members (`NothingLeftSafe`), unless the task is
  `abandoned`: its last Init failed after it had registered the queue. It holds
  for any numbers of tasks, senders, descriptors and buffers and any size of the
  queues. What `ShutdownCompletes` excepts and `PendingAreCleanedUp` denies is
  for good: a set of threads, each in the clean-up loop with messages pending or
  waiting for room in the full queue of another one of them, never moves again
  (`StuckForEver`; a task that sends to itself is enough), and if one of them
  sends through the map, its mutex stays locked (`MapLockedForEver`). A clean-up
  loop that finds messages pending never ends (`DrainNeverEnds`).
- `QueueBufferProofs`. `OneHolderUntilFreed` counts holders and is not
  inductive. `BufferInv` numbers the places where a message can be (a call of a
  sender, a place of a queue, a task's hands) and says that a buffer is at one
  place at most (`Distinct`), is at one exactly when it is live and not lost,
  and is never live again once freed (`Kept`); `CallsOK` and `HandsOK` say that
  a thread whose send or handler has ended has no buffer left. Each step of
  `QueueTask` is one of five moves of these places (`StepMoves`), and the moves
  keep `BufferInv`. From it follow `OneHolderSafe`, `OnlyBroadcastsDangle`
  (`NoDanglingMessage`, which a run violates, is true of every buffer that is
  not broadcast) and the refinement `BuffersKeepTheirLife`.
- `SerialProofs`. `Locked` (the semaphore is 0 while one thread sends, opens or
  closes, and one thread only does) and `Ports` (the open ports are the lost
  ones and the task's own) give `WriteSafe`; `Buffers` follows a `Configure`
  that has not ended and an Exit that has not freed yet. `Asked` relates the
  bits of `m_sioOpts` to the members `asked`, field by field while
  `ConfigurePort` is on its way; `Applied` says of the options that Run has read
  what `AppliedUnlessRaced` says of the device, which has the speed B0 and one
  of the code's two sizes; `Clock` relates the seconds that passed to the
  difference of the ticks modulo `Word`, so that a comparison that finds the
  line overdue has seen a silence, a wrap, or a timeout that was switched off
  after the test; `Reasons` relates m_exitReason to `excuse`, and `alert` to
  both.
- `WatchdogProofs`. `Known` (an ID belongs to one task and is stored or about to
  be), `Clean` and `Places` (a task that is not called untimely is settled when
  it is called, and by one thread), `Kicks`, `Cleared`, `Stopped`, `Named` and
  `Timers`, which say what each point of an unfinished registration or
  unregistration has done, make `EntriesAreLive`, `OwnerIsRunning` and
  `ReportsGoOn` inductive, each for the tasks that were not called untimely.
  `WideOwnerStuck` is an action property and holds of every step.
  `AccusedAreLive`: whom a check accuses, if it is a queue task and was not
  called untimely, has not ended or unregistered. `NoAlarmIfAllWide`: where no
  ID fits an `int`, no check accuses anybody, whatever hangs.

Only model-checked: the liveness properties (`StopEndsRun`, `StopIsConfirmed`,
`ShutdownCompletes`, `OneShotEnds`, `CloseCompletes`, `StopCompletes`,
`HungIsNoticed`), since liveness under fairness is out of the prover's reach.
`BufferLife` is the other way round: it is proved and no run checks it, since
`queue_task` checks the counting form of the same claim.

## Not modelled

Left out on purpose: names, priorities, stack sizes and message handlers of a
task, the bytes of a message, real time outside of `Serial` (a timed call either
succeeds or times out), the end and restart of the process, two tasks with one
name, a timer of 0 ms, the wrap of `m_TimerInstance`, Starts of timers by other
threads. Exceptions, the packet interface and the type headers have no
behaviour; the build scripts and tests were read for what they expect.
