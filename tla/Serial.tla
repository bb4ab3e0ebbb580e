------------------------------- MODULE Serial -------------------------------
(***************************************************************************)
(* CAefSerial (aefSerial.cpp): a task that opens a serial device, reads    *)
(* packets from it, applies new port settings, ends when the line is       *)
(* silent for too long, and tells its parent of an unexpected end; other   *)
(* threads send over the device and an owner configures, starts and stops  *)
(* the object.  m_semDev keeps Send away from an Init or Exit; the         *)
(* settings, the timeout, m_bConfigured, m_pBuf and m_bPortUpdate have no  *)
(* lock.                                                                   *)
(*                                                                         *)
(* Ticks are whole seconds: TicksFromTOD computes in milliseconds, in 32   *)
(* bits, so the ticks fall back to 0 after TickPeriod seconds (49.7 days), *)
(* while their differences are taken modulo Word.                          *)
(***************************************************************************)
EXTENDS Naturals, FiniteSets

CONSTANTS
  Senders,     \* threads that call Send
  Owner,       \* the thread that makes all other calls
  Task,        \* the thread of the object
  FDs, NoFD,   \* descriptors; AEF_ERROR
  Requests,    \* the arguments ConfigurePort is called with
  Timeouts,    \* the timeouts Configure is called with, in ticks; 0 is none
  TickPeriod, Word

ASSUME SerialAssumption ==
  /\ Owner # Task /\ {Owner, Task} \cap Senders = {}
  /\ NoFD \notin FDs
  /\ Requests \subseteq [baud : Nat, size : Nat, parity : Nat, stop : Nat]
  /\ Timeouts \subseteq Nat
  /\ \E n \in Timeouts : \A m \in Timeouts : m <= n
  /\ TickPeriod \in Nat \ {0} /\ Word \in Nat /\ TickPeriod <= Word

VARIABLES
  m_bConfigured, m_pBuf, m_pParent, \* the pointers: is it not NULL?
  m_fdSerial,
  m_semDev,
  asked,           \* m_baudRate, m_dataBits, m_parity and m_stopBits
  m_sioOpts,       \* the bits for c_cflag
  m_bPortUpdate,
  m_bTaskRunning,
  m_exitReason,    \* not initialized: 1 is a timeout, 2 a failed update
  m_ClientTimeout, m_LastRcvd,
  pc,
  call,            \* the arguments and the progress of ConfigurePort
  options,         \* the termios Init or Run has filled and not yet applied
  files,           \* FD -> "free", "port", "other"
  port,            \* the settings of the device
  now,             \* TicksFromTOD()
  lost,            \* history: ports Configure has taken out of m_fdSerial
  quiet,           \* history: seconds since m_LastRcvd was set
  wrapped,         \* history: the ticks fell to 0 since then
  excuse,          \* history: the reasons to end that the last Run met
  alert,           \* history: the shutdown message of this end: "none", "sent",
                   \* or "lost", as SendMessage returned AEF_ERROR
  raced,           \* history: settings were completed while older ones were
                   \* read and not yet applied
  overlapped       \* history: a Configure overlapped an Exit

confVars == <<m_bConfigured, m_pBuf, m_pParent, m_ClientTimeout, overlapped>>
portVars == <<asked, m_sioOpts, m_bPortUpdate, call, raced>>
devVars  == <<m_fdSerial, files, lost>>
runVars  == <<m_bTaskRunning, m_exitReason, excuse, alert>>
timeVars == <<m_LastRcvd, now, quiet, wrapped>>
setVars  == <<options, port>>

vars == <<confVars, portVars, devVars, runVars, timeVars, setVars, m_semDev, pc>>

Fields == {"size", "parity", "stop"}
Threads == Senders \cup {Owner, Task}

\* Construct: the settings of a new object.
Default == [baud |-> 9600, size |-> 8, parity |-> 0, stop |-> 1]

\* The bits that ConfigurePort makes of its arguments, which it never refuses:
\* any size but 7 gives 8 data bits.
Bits(r) == [size   |-> IF r.size = 7 THEN 7 ELSE 8,
            parity |-> IF r.parity \in 1..2 THEN r.parity ELSE 0,
            stop   |-> IF r.stop = 2 THEN 2 ELSE 1]

\* cfsetspeed puts m_baudRate into c_cflag, and `c_cflag = m_sioOpts`
\* overwrites it with bits that say B0.
B0 == 0
Termios(bits) == [speed |-> B0, size |-> bits.size, parity |-> bits.parity,
                  stop |-> bits.stop]

\* The local options are gone.
Forget == options' = Termios(Bits(Default))

Longest == CHOOSE n \in Timeouts : \A m \in Timeouts : m <= n
Goto(t, l) == pc' = [pc EXCEPT ![t] = l]

\* m_LastRcvd = TicksFromTOD()
Heard == m_LastRcvd' = now /\ quiet' = 0 /\ wrapped' = FALSE /\ UNCHANGED now

Init ==
  /\ m_bConfigured = FALSE /\ m_pBuf = FALSE /\ m_pParent = FALSE
  /\ m_fdSerial = NoFD
  /\ m_semDev = 1
  /\ asked = Default /\ m_sioOpts = Bits(Default)
  /\ m_bPortUpdate = TRUE
  /\ m_bTaskRunning = FALSE
  /\ m_exitReason \in 0..2
  /\ m_ClientTimeout = 0
  /\ m_LastRcvd = 0 /\ now = 0
  /\ pc = [t \in Threads |-> IF t = Task THEN "off" ELSE "idle"]
  /\ call = [todo |-> {}, cleared |-> FALSE]
  /\ options = Termios(Bits(Default))
  /\ files = [f \in FDs |-> "free"]
  /\ port = [Termios(Bits(Default)) EXCEPT !.speed = Default.baud]
  /\ lost = {}
  /\ quiet = 0 /\ wrapped = FALSE
  /\ excuse = {"garbage"}
  /\ alert = "none" /\ raced = FALSE /\ overlapped = FALSE

-----------------------------------------------------------------------------
(* Time, and the other files of the process *)

\* The clock as Run sees it.
Tick ==
  /\ pc[Task] \in {"loop", "update", "check", "compare"}
  /\ now' = (now + 1) % TickPeriod
  /\ wrapped' = (wrapped \/ now' = 0)
  /\ quiet' = IF quiet <= Longest THEN quiet + 1 ELSE quiet
  /\ UNCHANGED <<confVars, portVars, devVars, runVars, m_LastRcvd, setVars,
                 m_semDev, pc>>

OtherFile ==
  /\ \E f \in FDs :
       \/ files[f] = "free"  /\ files' = [files EXCEPT ![f] = "other"]
       \/ files[f] = "other" /\ files' = [files EXCEPT ![f] = "free"]
  /\ UNCHANGED <<confVars, portVars, m_fdSerial, lost, runVars, timeVars,
                 setVars, m_semDev, pc>>

-----------------------------------------------------------------------------
(* Send, by another thread or by KeepAliveCheck.  The deadline of its        *)
(* sem_timedwait is one second after the epoch, so it never waits.           *)

Home(t) == IF t = Task THEN "loop" ELSE "idle"
Sends(t) == pc[t] = IF t = Task THEN "keepalive" ELSE "idle"

SendTakes(t) ==
  /\ Sends(t)
  /\ m_semDev > 0 /\ m_fdSerial # NoFD
  /\ m_semDev' = m_semDev - 1
  /\ Goto(t, "write")
  /\ UNCHANGED <<confVars, portVars, devVars, runVars, timeVars, setVars>>

\* The semaphore is posted although the wait for it failed.
SendFails_Posts(t) ==
  /\ Sends(t)
  /\ m_semDev = 0
  /\ m_semDev' = m_semDev + 1
  /\ Goto(t, Home(t))
  /\ UNCHANGED <<confVars, portVars, devVars, runVars, timeVars, setVars>>

\* Build returns NULL, the semaphore is taken, or it is posted again as the
\* device is not open; the task's keep-alive may not be due.
SendFails(t) ==
  /\ Sends(t)
  /\ Goto(t, Home(t))
  /\ UNCHANGED <<confVars, portVars, devVars, runVars, timeVars, setVars,
                 m_semDev>>

\* write, with whatever m_fdSerial is by now, and sem_post
Write(t) ==
  /\ pc[t] = "write"
  /\ m_semDev' = m_semDev + 1
  /\ Goto(t, Home(t))
  /\ UNCHANGED <<confVars, portVars, devVars, runVars, timeVars, setVars>>

-----------------------------------------------------------------------------
(* The owner's calls *)

\* What m_fdSerial names, unless Exit has just closed it.
MyPort == IF pc[Task] = "closed" THEN {} ELSE {m_fdSerial}

\* Configure(pTask): m_fdSerial is reset, though the task may be using it.
Configure ==
  /\ pc[Owner] = "idle"
  /\ ~m_bConfigured
  /\ m_pParent' \in BOOLEAN
  /\ m_ClientTimeout' \in Timeouts
  /\ m_fdSerial' = NoFD
  /\ lost' = lost \cup (MyPort \ {NoFD})
  /\ m_pBuf' = TRUE
  /\ overlapped' = (pc[Task] = "free")
  /\ Goto(Owner, "configured")
  /\ UNCHANGED <<m_bConfigured, portVars, files, runVars, timeVars, setVars,
                 m_semDev>>

\* Lines 160 to 169; without a parent the buffer is deleted again.
ConfigureEnds ==
  /\ pc[Owner] = "configured"
  /\ m_bConfigured' = (m_bConfigured \/ (m_pBuf /\ m_pParent))
  /\ m_pBuf' = (m_pBuf /\ m_pParent)
  /\ Goto(Owner, "idle")
  /\ UNCHANGED <<m_pParent, m_ClientTimeout, overlapped, portVars, devVars,
                 runVars, timeVars, setVars, m_semDev>>

SetKeepalive ==
  /\ pc[Owner] = "idle"
  /\ m_ClientTimeout' \in Timeouts
  /\ UNCHANGED <<m_bConfigured, m_pBuf, m_pParent, overlapped, portVars, devVars,
                 runVars, timeVars, setVars, m_semDev, pc>>

\* The members are the owner's alone, but for the baud rate, which goes no
\* further than `options`: so it may assign them, and look for the bits that
\* will have to change, at once.
ConfigurePort ==
  /\ pc[Owner] = "idle"
  /\ \E r \in Requests :
       /\ r # asked
       /\ asked' = r
       /\ call' = [todo |-> {f \in Fields : asked[f] # r[f]}, cleared |-> FALSE]
  /\ Goto(Owner, "port")
  /\ UNCHANGED <<confVars, m_sioOpts, m_bPortUpdate, raced, devVars, runVars,
                 timeVars, setVars, m_semDev>>

\* Lines 218, 233 and 248, in this order.
IsNext(f) ==
  /\ f \in call.todo
  /\ f \in {"parity", "stop"} => "size" \notin call.todo
  /\ f = "stop" => "parity" \notin call.todo

\* The bits of two fields are cleared first, which leaves 5 data bits or no
\* parity, ...
ClearBits ==
  /\ pc[Owner] = "port"
  /\ \E f \in {"size", "parity"} :
       /\ IsNext(f) /\ ~call.cleared
       /\ m_sioOpts' = [m_sioOpts EXCEPT ![f] = IF f = "size" THEN 5 ELSE 0]
  /\ call' = [call EXCEPT !.cleared = TRUE]
  /\ UNCHANGED <<confVars, asked, m_bPortUpdate, raced, devVars, runVars, timeVars,
                 setVars, m_semDev, pc>>

\* ... and then set.
SetBits ==
  /\ pc[Owner] = "port"
  /\ \E f \in Fields :
       /\ IsNext(f) /\ (f \in {"size", "parity"} => call.cleared)
       /\ m_sioOpts' = [m_sioOpts EXCEPT ![f] = Bits(asked)[f]]
       /\ call' = [call EXCEPT !.todo = @ \ {f}, !.cleared = FALSE]
  /\ UNCHANGED <<confVars, asked, m_bPortUpdate, raced, devVars, runVars, timeVars,
                 setVars, m_semDev, pc>>

\* Lines 262 to 265.
ConfigurePortEnds ==
  /\ pc[Owner] = "port" /\ call.todo = {}
  /\ m_bPortUpdate' = TRUE
  /\ raced' = (pc[Task] \in {"initSet", "update"})
  /\ Goto(Owner, "idle")
  /\ UNCHANGED <<confVars, asked, m_sioOpts, call, devVars, runVars, timeVars,
                 setVars, m_semDev>>

Stop ==
  /\ pc[Owner] = "idle"
  /\ m_bTaskRunning' = FALSE
  /\ UNCHANGED <<confVars, portVars, devVars, m_exitReason, excuse, alert,
                 timeVars, setVars, m_semDev, pc>>

\* Start, up to where RunWrapper has set the flag.
Start ==
  /\ pc[Owner] = "idle" /\ pc[Task] = "off"
  /\ m_bTaskRunning' = TRUE
  /\ alert' = "none"
  /\ Goto(Task, "init")
  /\ UNCHANGED <<confVars, portVars, devVars, m_exitReason, excuse, timeVars,
                 setVars, m_semDev>>

-----------------------------------------------------------------------------
(* The task: Init *)

InitLocks ==
  /\ pc[Task] = "init"
  /\ m_semDev > 0
  /\ m_semDev' = m_semDev - 1
  /\ Goto(Task, "open")
  /\ UNCHANGED <<confVars, portVars, devVars, runVars, timeVars, setVars>>

ReadSettings == options' = Termios(m_sioOpts) /\ raced' = FALSE

Open ==
  /\ pc[Task] = "open"
  /\ \E f \in FDs :
       /\ files[f] = "free"
       /\ files' = [files EXCEPT ![f] = "port"]
       /\ m_fdSerial' = f
  /\ ReadSettings
  /\ Goto(Task, "initSet")
  /\ UNCHANGED <<confVars, asked, m_sioOpts, m_bPortUpdate, call, lost, runVars,
                 timeVars, port, m_semDev>>

OpenFails ==
  /\ pc[Task] = "open"
  /\ m_fdSerial' = NoFD
  /\ m_semDev' = m_semDev + 1
  /\ Goto(Task, "exit")
  /\ UNCHANGED <<confVars, portVars, files, lost, runVars, timeVars, setVars>>

\* tcsetattr and tcflush; m_bPortUpdate is cleared and the semaphore posted.
InitSets ==
  /\ pc[Task] = "initSet"
  /\ m_fdSerial # NoFD
  /\ port' = options /\ Forget
  /\ m_bPortUpdate' = FALSE
  /\ m_semDev' = m_semDev + 1
  /\ Goto(Task, "run")
  /\ UNCHANGED <<confVars, asked, m_sioOpts, call, raced, devVars, runVars,
                 timeVars>>

\* close(m_fdSerial)
CloseIt == files' = [f \in FDs |-> IF f = m_fdSerial THEN "free" ELSE files[f]]

\* tcflush may fail after tcsetattr has done its work.
InitSetFails ==
  /\ pc[Task] = "initSet"
  /\ port' \in {port, options}
  /\ CloseIt
  /\ m_fdSerial' = NoFD
  /\ m_semDev' = m_semDev + 1
  /\ Forget
  /\ Goto(Task, "exit")
  /\ UNCHANGED <<confVars, portVars, lost, runVars, timeVars>>

-----------------------------------------------------------------------------
(* The task: Run *)

\* Some time has passed since the last Run.
TimeIsRead ==
  /\ now' \in 0..TickPeriod-1 /\ m_LastRcvd' = now'
  /\ UNCHANGED <<quiet, wrapped>>

\* The reason of the last run is kept.
RunBegins_KeepsReason ==
  /\ pc[Task] = "run"
  /\ excuse' = {}
  /\ TimeIsRead
  /\ Goto(Task, "loop")
  /\ UNCHANGED <<confVars, portVars, devVars, m_bTaskRunning, m_exitReason, alert,
                 setVars, m_semDev>>

RunBegins ==
  /\ pc[Task] = "run"
  /\ m_exitReason' = 0 /\ excuse' = {}
  /\ TimeIsRead
  /\ Goto(Task, "loop")
  /\ UNCHANGED <<confVars, portVars, devVars, m_bTaskRunning, alert, setVars,
                 m_semDev>>

RunEnds ==
  /\ pc[Task] = "loop" /\ ~m_bTaskRunning
  /\ Goto(Task, "exit")
  /\ now' = 0 /\ m_LastRcvd' = 0 /\ quiet' = 0 /\ wrapped' = FALSE
  /\ UNCHANGED <<confVars, portVars, devVars, runVars, setVars, m_semDev>>

\* Line 456: no exit reason.
SelectFails ==
  /\ pc[Task] = "loop" /\ m_bTaskRunning
  /\ m_bTaskRunning' = FALSE
  /\ excuse' = excuse \cup {"select"}
  /\ UNCHANGED <<confVars, portVars, devVars, m_exitReason, alert, timeVars,
                 setVars, m_semDev, pc>>

\* Lines 432 to 449: data make a packet, or not, or are not there.  A read
\* into no buffer fails.
Receive ==
  /\ pc[Task] = "loop" /\ m_bTaskRunning
  /\ ~m_bPortUpdate
  /\ \/ UNCHANGED timeVars
     \/ m_fdSerial # NoFD /\ m_pBuf /\ Heard
  /\ Goto(Task, "check")
  /\ UNCHANGED <<confVars, portVars, devVars, runVars, setVars, m_semDev>>

\* Line 405: the settings are read, ...
UpdateBegins ==
  /\ pc[Task] = "loop" /\ m_bTaskRunning
  /\ m_bPortUpdate
  /\ ReadSettings
  /\ Goto(Task, "update")
  /\ UNCHANGED <<confVars, asked, m_sioOpts, m_bPortUpdate, call, devVars, runVars,
                 timeVars, port, m_semDev>>

\* An update that fails counts as done.
UpdateEnds_IgnoresError ==
  /\ pc[Task] = "update"
  /\ \/ m_fdSerial # NoFD /\ port' = options /\ Heard
     \/ UNCHANGED <<port, timeVars>>
  /\ m_bPortUpdate' = FALSE /\ Forget
  /\ Goto(Task, "check")
  /\ UNCHANGED <<confVars, asked, m_sioOpts, call, raced, devVars, runVars,
                 m_semDev>>

\* ... applied, and the flag is cleared.
UpdateEnds ==
  /\ pc[Task] = "update"
  /\ \/ /\ m_fdSerial # NoFD
        /\ port' = options
        /\ Heard
        /\ UNCHANGED runVars
     \/ /\ m_exitReason' = 2 /\ m_bTaskRunning' = FALSE
        /\ excuse' = excuse \cup {"update"}
        /\ port' \in {port} \cup (IF m_fdSerial = NoFD THEN {} ELSE {options})
        /\ UNCHANGED <<alert, timeVars>>
  /\ m_bPortUpdate' = FALSE /\ Forget
  /\ Goto(Task, "check")
  /\ UNCHANGED <<confVars, asked, m_sioOpts, call, raced, devVars, m_semDev>>

\* curticks - m_LastRcvd, as uint32_t
Elapsed == (now + (Word - m_LastRcvd)) % Word

\* Line 511: a timeout is set, ...
ReceiveTimeoutCheck ==
  /\ pc[Task] = "check"
  /\ Goto(Task, IF m_bConfigured /\ m_ClientTimeout # 0 THEN "compare"
                                                        ELSE "keepalive")
  /\ UNCHANGED <<confVars, portVars, devVars, runVars, timeVars, setVars,
                 m_semDev>>

\* ... and line 515: the silence is compared with what it is by now, 0 if
\* SetKeepalive has just switched it off.
CompareTimeout ==
  /\ pc[Task] = "compare"
  /\ \/ /\ Elapsed > m_ClientTimeout
        /\ m_bTaskRunning' = FALSE /\ m_exitReason' = 1
     \/ /\ Elapsed <= m_ClientTimeout
        /\ UNCHANGED <<m_bTaskRunning, m_exitReason>>
  /\ excuse' = excuse \cup
       (IF wrapped THEN {"wrapped"}
        ELSE IF quiet <= m_ClientTimeout THEN {}
        ELSE IF m_ClientTimeout = 0 THEN {"disabled"} ELSE {"silent"})
  /\ Goto(Task, "keepalive")
  /\ UNCHANGED <<confVars, portVars, devVars, alert, timeVars, setVars,
                 m_semDev>>

-----------------------------------------------------------------------------
(* The task: Exit *)

\* The device is closed without the semaphore.
ExitLocks_Not ==
  /\ pc[Task] = "exit"
  /\ Goto(Task, "close")
  /\ UNCHANGED <<confVars, portVars, devVars, runVars, timeVars, setVars,
                 m_semDev>>

ExitLocks ==
  /\ pc[Task] = "exit"
  /\ m_semDev > 0
  /\ m_semDev' = m_semDev - 1
  /\ Goto(Task, "close")
  /\ UNCHANGED <<confVars, portVars, devVars, runVars, timeVars, setVars>>

\* The number of the descriptor is free, ...
Close ==
  /\ pc[Task] = "close"
  /\ CloseIt
  /\ Goto(Task, "closed")
  /\ UNCHANGED <<confVars, portVars, m_fdSerial, lost, runVars, timeVars,
                 setVars, m_semDev>>

\* ... and still in m_fdSerial until now; sem_post.
ResetFD ==
  /\ pc[Task] = "closed"
  /\ m_fdSerial' = NoFD
  /\ m_semDev' = m_semDev + 1
  /\ Goto(Task, "unconfigure")
  /\ UNCHANGED <<confVars, portVars, files, lost, runVars, timeVars, setVars>>

\* The object stays configured.
Unconfigure_Not ==
  /\ pc[Task] = "unconfigure"
  /\ Goto(Task, "free")
  /\ UNCHANGED <<confVars, portVars, devVars, runVars, timeVars, setVars,
                 m_semDev>>

Unconfigure ==
  /\ pc[Task] = "unconfigure"
  /\ m_bConfigured' = FALSE
  /\ overlapped' = (pc[Owner] = "configured")
  /\ Goto(Task, "free")
  /\ UNCHANGED <<m_pBuf, m_pParent, m_ClientTimeout, portVars, devVars, runVars,
                 timeVars, setVars, m_semDev>>

FreeBuf ==
  /\ pc[Task] = "free"
  /\ m_pBuf' = FALSE
  /\ Goto(Task, "alert")
  /\ UNCHANGED <<m_bConfigured, m_pParent, m_ClientTimeout, overlapped, portVars,
                 devVars, runVars, timeVars, setVars, m_semDev>>

\* Nobody looks whether SendMessage found a queue; a shutdown message to a
\* parent that was never given is a call through NULL.
Alert ==
  /\ pc[Task] = "alert"
  /\ \/ /\ m_exitReason = 0
        /\ alert' = "none" /\ Goto(Task, "off")
     \/ /\ m_exitReason # 0 /\ m_pParent
        /\ alert' \in {"sent", "lost"} /\ Goto(Task, "off")
     \/ /\ m_exitReason # 0 /\ ~m_pParent
        /\ alert' = "none" /\ Goto(Task, "crashed")
  /\ UNCHANGED <<confVars, portVars, devVars, m_bTaskRunning, m_exitReason,
                 excuse, timeVars, setVars, m_semDev>>

-----------------------------------------------------------------------------
Next ==
  /\ pc[Task] # "crashed"
  /\ \/ Tick \/ OtherFile
     \/ \E t \in Senders \cup {Task} :
          SendTakes(t) \/ SendFails(t) \/ Write(t)
     \/ Configure \/ ConfigureEnds \/ SetKeepalive \/ Stop \/ Start
     \/ ConfigurePort \/ ClearBits \/ SetBits \/ ConfigurePortEnds
     \/ InitLocks \/ Open \/ OpenFails \/ InitSets \/ InitSetFails
     \/ RunBegins \/ RunEnds \/ SelectFails \/ Receive
     \/ UpdateBegins \/ UpdateEnds \/ ReceiveTimeoutCheck \/ CompareTimeout
     \/ ExitLocks \/ Close \/ ResetFD \/ Unconfigure \/ FreeBuf \/ Alert

Spec == Init /\ [][Next]_vars

-----------------------------------------------------------------------------
TaskPCs == {"off", "init", "open", "initSet", "run", "loop", "update", "check",
            "compare", "keepalive", "write", "exit", "close", "closed",
            "unconfigure", "free", "alert", "crashed"}
OtherPCs == {"idle", "write", "configured", "port"}

ConfOK == /\ m_bConfigured \in BOOLEAN /\ m_pBuf \in BOOLEAN
          /\ m_pParent \in BOOLEAN
          /\ m_ClientTimeout \in Timeouts \cup {0}
          /\ overlapped \in BOOLEAN
Settings == [size : {5, 7, 8}, parity : 0..2, stop : 1..2]
Lines    == [speed : Nat, size : {5, 7, 8}, parity : 0..2, stop : 1..2]

PortOK == /\ asked \in Requests \cup {Default}
          /\ m_sioOpts \in Settings
          /\ call \in [todo : SUBSET Fields, cleared : BOOLEAN]
          /\ m_bPortUpdate \in BOOLEAN /\ raced \in BOOLEAN
DevOK  == /\ m_fdSerial \in FDs \cup {NoFD}
          /\ files \in [FDs -> {"free", "port", "other"}]
          /\ lost \subseteq FDs
RunOK  == /\ m_bTaskRunning \in BOOLEAN
          /\ m_exitReason \in 0..2
          /\ excuse \subseteq {"garbage", "update", "silent", "wrapped",
                               "disabled", "select"}
          /\ alert \in {"none", "sent", "lost"}
TimeOK == /\ m_LastRcvd \in 0..TickPeriod-1 /\ now \in 0..TickPeriod-1
          /\ quiet \in Nat /\ wrapped \in BOOLEAN
SetOK  == options \in Lines /\ port \in Lines

TypeOK == /\ ConfOK /\ PortOK /\ DevOK /\ RunOK /\ TimeOK /\ SetOK
          /\ m_semDev \in 0..1
          /\ pc \in [Threads -> TaskPCs \cup OtherPCs]

(* aefSerial.cpp:299: a Send that found the device open writes to it, or to
   no file when a Configure came between: never to a file that was given the
   descriptor's number after Exit had closed it.  Nothing but a Configure of
   a running object makes an open port unreachable. *)
WriteHitsPort ==
  /\ \A t \in Threads :
       pc[t] = "write" => m_fdSerial = NoFD \/ files[m_fdSerial] = "port"
  /\ {f \in FDs : files[f] = "port"} = lost \cup (MyPort \ {NoFD})

(* aefSerial.cpp:200: "Allows dynamic updates to the connection settings".
   When Run looks for no update, and nobody is changing the settings, the
   device has the data size, parity and stop bits that were last asked for,
   unless they were completed between the moment that Run or Init read older
   ones and the moment that it cleared m_bPortUpdate.  It does not have the
   baud rate, ever: against the comment, its speed is B0 whatever was asked
   for.  And what was asked for means 8 data bits for any size but 7. *)
AppliedUnlessRaced ==
  /\ pc[Task] \in {"run", "loop", "check", "compare", "keepalive"}
  /\ ~m_bPortUpdate /\ pc[Owner] # "port"
  /\ "update" \notin excuse \/ pc[Task] = "run"
  /\ ~raced
  => port = Termios(Bits(asked))

(* aefSerial.cpp:126: the shutdown message says that the task has unexpectedly
   shut down.  For a silent line and a failed update Exit always sends it,
   though it does not see whether the queue of the parent took it; for a select
   that failed, against the comment, it never does.  And a message that is sent
   is about one of the first two, or it is false in one of three ways: the
   ticks wrapped, SetKeepalive switched the timeout off between its two reads,
   or Init failed in the first run, before m_exitReason was initialized.  (An
   Init that fails later sends that of the run before once more.) *)
AlertIsTrue ==
  pc[Task] = "off" =>
    /\ alert # "none" => excuse \ {"select"} # {}
    /\ excuse \cap {"silent", "update"} # {} => alert # "none"

(* A configured object has its parent and its buffer, over any number of
   restarts, if no Configure overlapped an Exit: data are received and the
   shutdown message has an addressee. *)
ConfiguredHasBuffer ==
  m_bConfigured /\ ~overlapped /\ pc[Owner] # "configured" =>
    m_pParent /\ m_pBuf
=============================================================================
