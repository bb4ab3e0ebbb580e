---------------------------- MODULE SerialProofs ----------------------------
(***************************************************************************)
(* Proofs about Serial: its invariants hold for any senders, descriptors,  *)
(* settings and timeouts, and any period of the ticks.                     *)
(***************************************************************************)
EXTENDS Serial, TLAPS

\* Where the task has no device, and where it cannot see the time.
NoDevice == {"off", "init", "open", "unconfigure", "free", "alert", "crashed"}
Running  == {"loop", "update", "check", "compare", "keepalive", "write"}

(* Where the threads can be. *)
Places == /\ pc[Task] \in TaskPCs
          /\ pc[Owner] \in {"idle", "configured", "port"}
          /\ \A s \in Senders : pc[s] \in {"idle", "write"}

(* m_semDev is 0 while a thread sends, or the task opens or closes. *)
Locks(t) == \/ pc[t] = "write"
            \/ t = Task /\ pc[t] \in {"open", "initSet", "close", "closed"}

Locked == /\ \A t \in Threads : Locks(t) => m_semDev = 0
          /\ \A t, u \in Threads : Locks(t) /\ Locks(u) => t = u

(* The open ports are those that were lost and the task's own. *)
Ports == /\ pc[Task] \in NoDevice => m_fdSerial = NoFD
         /\ m_fdSerial \notin lost
         /\ \A f \in FDs : files[f] = "port" <=>
              f \in lost \/ (f = m_fdSerial /\ pc[Task] # "closed")

(* While the owner is in Configure the object is not configured, and what Exit
   deletes belongs to no configured object, unless the two overlapped. *)
Buffers == /\ ConfiguredHasBuffer
           /\ m_bConfigured => m_pParent
           /\ pc[Owner] = "configured" => ~m_bConfigured
           /\ pc[Task] = "free" =>
                overlapped \/ (~m_bConfigured /\ pc[Owner] # "configured")

(* The settings that were read are still those of the object, or the device
   has them. *)
Applied == /\ pc[Task] \in {"initSet", "update"} /\ pc[Owner] # "port" /\ ~raced
                => options = Termios(m_sioOpts)
           /\ /\ pc[Task] \in {"run", "loop", "check", "compare", "keepalive", "write"}
              /\ ~m_bPortUpdate /\ pc[Owner] # "port"
              /\ "update" \notin excuse \/ pc[Task] = "run"
              /\ ~raced
              => port = Termios(m_sioOpts)

(* The bits are those that were asked for, but for those that ConfigurePort has
   yet to change. *)
Asked == /\ pc[Owner] # "port" => m_sioOpts = Bits(asked)
         /\ pc[Owner] = "port" => \A f \in Fields \ call.todo :
                                    m_sioOpts[f] = Bits(asked)[f]

(* The ticks grow with the time, until they wrap; they stand still outside of
   Run. *)
Clock == /\ ~wrapped =>
              /\ m_LastRcvd <= now
              /\ quiet <= Longest => quiet = now - m_LastRcvd
              /\ quiet > Longest => now - m_LastRcvd >= quiet
         /\ pc[Task] \notin Running => quiet = 0 /\ ~wrapped

(* Every reason that is met is recorded, but a failed select, and none that is
   not. *)
Reasons == /\ m_exitReason # 0 => excuse \ {"select"} # {}
           /\ excuse \cap {"silent", "update"} # {} => m_exitReason # 0
           /\ pc[Task] = "off" =>
                /\ alert # "none" => m_exitReason # 0
                /\ excuse \cap {"silent", "update"} # {} => alert # "none"

IInv == /\ TypeOK /\ Places /\ Locked /\ Ports
        /\ Buffers /\ Applied /\ Asked /\ Clock /\ Reasons

(* The longest timeout is one, and no other is longer. *)
LEMMA LongestIs == Longest \in Timeouts /\ \A n \in Timeouts : n <= Longest
  BY SerialAssumption DEF Longest

(* A number below the modulus, as it is or one turn later, is its own
   remainder. *)
LEMMA Remainder ==
  ASSUME NEW w \in Nat \ {0}
  PROVE  /\ \A r \in 0..w-1 : r % w = r /\ (r + w) % w = r
         /\ w % w = 0
         /\ \A n \in Nat : n % w \in 0..w-1
  OBVIOUS

(* What ConfigurePort can make, and what the device can be given. *)
LEMMA BitsAndLines ==
  /\ \A r \in Requests \cup {Default} : Bits(r) \in Settings
  /\ \A s \in Settings : Termios(s) \in Lines
<1>1. ASSUME NEW r \in Requests \cup {Default}
      PROVE  Bits(r) \in Settings
  BY DEF Bits, Settings
<1>2. ASSUME NEW s \in Settings
      PROVE  Termios(s) \in Lines
  BY DEF Termios, B0, Settings, Lines
<1>3. QED
  BY <1>1, <1>2

(* A new object has the settings of Construct. *)
LEMMA InitSettings ==
  Init => /\ options \in Lines /\ port \in Lines /\ m_sioOpts \in Settings
          /\ Asked
<1> SUFFICES ASSUME Init
             PROVE  /\ options \in Lines /\ port \in Lines
                    /\ m_sioOpts \in Settings /\ Asked
  OBVIOUS
<1>1. /\ m_sioOpts = Bits(Default) /\ asked = Default
      /\ options = Termios(Bits(Default))
      /\ port = [Termios(Bits(Default)) EXCEPT !.speed = Default.baud]
      /\ pc[Owner] = "idle"
  BY SerialAssumption DEF Init, Threads
<1>2. Bits(Default) \in Settings /\ Termios(Bits(Default)) \in Lines
  BY BitsAndLines
<1>3. port \in Lines
  BY <1>1, <1>2 DEF Lines, Default
<1>4. QED
  BY <1>1, <1>2, <1>3 DEF Asked

(* Nothing runs at first. *)
LEMMA InitIInv == Init => IInv
<1> SUFFICES ASSUME Init
             PROVE  IInv
  OBVIOUS
<1> USE SerialAssumption DEF Init, Threads
<1>1. TypeOK
  <2>1. call \in [todo : SUBSET Fields, cleared : BOOLEAN]
    OBVIOUS
  <2>2. pc \in [Threads -> TaskPCs \cup OtherPCs]
    BY DEF TaskPCs, OtherPCs
  <2>3. ConfOK /\ DevOK
    BY DEF ConfOK, DevOK
  <2>4. PortOK
    BY <2>1, InitSettings DEF PortOK
  <2>5. RunOK
    BY DEF RunOK
  <2>6. TimeOK
    <3>1. m_LastRcvd \in 0..TickPeriod-1 /\ now \in 0..TickPeriod-1 /\ quiet \in Nat
      OBVIOUS
    <3>2. wrapped \in BOOLEAN
      BY Zenon
    <3>3. QED
      BY <3>1, <3>2 DEF TimeOK
  <2>7. SetOK
    BY InitSettings DEF SetOK
  <2>8. QED
    BY <2>2, <2>3, <2>4, <2>5, <2>6, <2>7 DEF TypeOK
<1>2. Places /\ Locked /\ Ports
  BY DEF Places, Locked, Locks, Ports, NoDevice, TaskPCs
<1>3. Buffers /\ Applied /\ Reasons
  BY DEF Buffers, ConfiguredHasBuffer, Applied, Reasons
<1>4. Clock
  BY LongestIs DEF Clock, Running
<1>5. Asked
  BY InitSettings
<1>6. QED
  BY <1>1, <1>2, <1>3, <1>4, <1>5 DEF IInv

(* The steps lead where the threads can be. *)
LEMMA NextPlaces == IInv /\ [Next]_vars => Places'
<1> SUFFICES ASSUME IInv, [Next]_vars
             PROVE  Places'
  OBVIOUS
<1> USE SerialAssumption DEF IInv, TypeOK, Places, Threads, TaskPCs, OtherPCs,
        Goto
<1>1. ASSUME NEW t \in Senders \cup {Task}, SendTakes(t) \/ SendFails(t)
             \/ Write(t)
      PROVE  Places'
  BY <1>1 DEF SendTakes, confVars, portVars, devVars, runVars, timeVars,
         setVars, Sends, SendFails, Home, Write
<1>2. CASE Tick \/ OtherFile \/ Configure \/ ConfigureEnds
  BY <1>2 DEF Tick, confVars, portVars, devVars, runVars, setVars, OtherFile,
         timeVars, Configure, ConfigureEnds
<1>3. CASE SetKeepalive \/ Stop \/ Start \/ ConfigurePort
  BY <1>3 DEF SetKeepalive, portVars, devVars, runVars, timeVars, setVars,
         Stop, confVars, Start, ConfigurePort
<1>4. CASE ClearBits \/ SetBits \/ ConfigurePortEnds \/ InitLocks
  BY <1>4 DEF ClearBits, confVars, devVars, runVars, timeVars, setVars,
         SetBits, ConfigurePortEnds, InitLocks, portVars
<1>5. CASE Open \/ OpenFails \/ InitSets \/ InitSetFails
  BY <1>5 DEF Open, confVars, runVars, timeVars, OpenFails, portVars, setVars,
         InitSets, devVars, InitSetFails
<1>6. CASE RunBegins \/ RunEnds \/ SelectFails \/ Receive
  BY <1>6 DEF RunBegins, confVars, portVars, devVars, setVars, RunEnds,
         runVars, SelectFails, timeVars, Receive
<1>7. CASE UpdateBegins \/ UpdateEnds \/ ReceiveTimeoutCheck
          \/ CompareTimeout \/ ExitLocks
  BY <1>7 DEF UpdateBegins, confVars, devVars, runVars, timeVars, UpdateEnds,
         ReceiveTimeoutCheck, CompareTimeout, portVars, setVars, ExitLocks
<1>8. CASE Close \/ ResetFD \/ Unconfigure \/ FreeBuf
  BY <1>8 DEF Close, confVars, portVars, runVars, timeVars, setVars, ResetFD,
         Unconfigure, devVars, FreeBuf
<1>9. CASE Alert
  BY <1>9 DEF Alert, confVars, portVars, devVars, timeVars, setVars
<1>10. CASE UNCHANGED vars
  BY <1>10 DEF vars, confVars, portVars, devVars, runVars, timeVars, setVars
<1>11. QED
  BY <1>1, <1>2, <1>3, <1>4, <1>5, <1>6, <1>7, <1>8, <1>9, <1>10
  DEF Next

(* The semaphore is taken when it is free, and posted by the one that took it. *)
LEMMA NextLocked == IInv /\ [Next]_vars => Locked'
<1> SUFFICES ASSUME IInv, [Next]_vars
             PROVE  Locked'
  OBVIOUS
<1> USE SerialAssumption DEF IInv, TypeOK, Places, Locked, Locks, Threads,
        Goto
<1>1. CASE InitLocks
  BY <1>1 DEF InitLocks, confVars, portVars, devVars, runVars, timeVars,
         setVars
<1>2. CASE Open
  BY <1>2 DEF Open, confVars, runVars, timeVars
<1>3. CASE OpenFails
  BY <1>3 DEF OpenFails, confVars, portVars, runVars, timeVars, setVars
<1>4. CASE InitSets
  BY <1>4 DEF InitSets, confVars, devVars, runVars, timeVars
<1>5. CASE InitSetFails
  BY <1>5 DEF InitSetFails, confVars, portVars, runVars, timeVars
<1>6. CASE ExitLocks
  BY <1>6 DEF ExitLocks, confVars, portVars, devVars, runVars, timeVars,
         setVars
<1>7. CASE Close
  BY <1>7 DEF Close, confVars, portVars, runVars, timeVars, setVars
<1>8. CASE ResetFD
  BY <1>8 DEF ResetFD, confVars, portVars, runVars, timeVars, setVars
<1>9. CASE SetBits
  BY <1>9 DEF SetBits, confVars, devVars, runVars, timeVars, setVars
<1>10. ASSUME NEW t \in Senders \cup {Task}, SendTakes(t) \/ SendFails(t)
             \/ Write(t)
      PROVE  Locked'
  BY <1>10 DEF SendTakes, confVars, portVars, devVars, runVars, timeVars,
         setVars, Sends, SendFails, Home, Write
<1>11. CASE Tick \/ OtherFile \/ Configure \/ ConfigureEnds
  BY <1>11 DEF Tick, confVars, portVars, devVars, runVars, setVars, OtherFile,
         timeVars, Configure, ConfigureEnds
<1>12. CASE SetKeepalive \/ Stop \/ Start \/ ConfigurePort
  BY <1>12 DEF SetKeepalive, portVars, devVars, runVars, timeVars, setVars,
         Stop, confVars, Start, ConfigurePort
<1>13. CASE ClearBits \/ ConfigurePortEnds \/ RunBegins \/ RunEnds
  BY <1>13 DEF ClearBits, confVars, devVars, runVars, timeVars, setVars,
         ConfigurePortEnds, RunBegins, portVars, RunEnds
<1>14. CASE SelectFails \/ Receive \/ UpdateBegins \/ UpdateEnds
  BY <1>14 DEF SelectFails, confVars, portVars, devVars, timeVars, setVars,
         Receive, runVars, UpdateBegins, UpdateEnds
<1>15. CASE ReceiveTimeoutCheck \/ CompareTimeout \/ Unconfigure \/ FreeBuf
          \/ Alert
  BY <1>15
  DEF ReceiveTimeoutCheck, CompareTimeout, confVars, portVars, devVars,
      timeVars, setVars, Unconfigure, runVars, FreeBuf, Alert
<1>16. CASE UNCHANGED vars
  BY <1>16 DEF vars, confVars, portVars, devVars, runVars, timeVars, setVars
<1>17. QED
  BY <1>1, <1>2, <1>3, <1>4, <1>5, <1>6, <1>7, <1>8, <1>9, <1>10, <1>11,
     <1>12, <1>13, <1>14, <1>15, <1>16
  DEF Next

(* A port is opened when the task has none, and leaves m_fdSerial as it is
   closed, or lost. *)
LEMMA NextPorts == IInv /\ [Next]_vars => Ports'
<1> SUFFICES ASSUME IInv, [Next]_vars
             PROVE  Ports'
  OBVIOUS
<1> USE SerialAssumption DEF IInv, TypeOK, DevOK, Places, Locked, Locks,
        Ports, Threads, Goto, NoDevice, MyPort, TaskPCs
<1>1. CASE Configure
  BY <1>1 DEF Configure, portVars, runVars, timeVars, setVars
<1>2. CASE Open
  BY <1>2 DEF Open, confVars, runVars, timeVars
<1>3. CASE OpenFails
  BY <1>3 DEF OpenFails, confVars, portVars, runVars, timeVars, setVars
<1>4. CASE InitSetFails
  BY <1>4 DEF InitSetFails, confVars, portVars, runVars, timeVars, CloseIt
<1>5. CASE Close
  BY <1>5 DEF Close, confVars, portVars, runVars, timeVars, setVars, CloseIt
<1>6. CASE ResetFD
  BY <1>6 DEF ResetFD, confVars, portVars, runVars, timeVars, setVars
<1>7. CASE OtherFile
  BY <1>7 DEF OtherFile, confVars, portVars, runVars, timeVars, setVars
<1>8. CASE SetBits
  BY <1>8 DEF SetBits, confVars, devVars, runVars, timeVars, setVars
<1>9. ASSUME NEW t \in Senders \cup {Task}, SendTakes(t) \/ SendFails(t)
             \/ Write(t)
      PROVE  Ports'
  BY <1>9 DEF SendTakes, confVars, portVars, devVars, runVars, timeVars,
         setVars, Sends, SendFails, Home, Write
<1>10. CASE Tick \/ ConfigureEnds \/ SetKeepalive \/ Stop
  BY <1>10 DEF Tick, confVars, portVars, devVars, runVars, setVars,
         ConfigureEnds, timeVars, SetKeepalive, Stop
<1>11. CASE Start \/ ConfigurePort \/ ClearBits \/ ConfigurePortEnds
  BY <1>11 DEF Start, confVars, portVars, devVars, timeVars, setVars,
         ConfigurePort, runVars, ClearBits, ConfigurePortEnds
<1>12. CASE InitLocks \/ InitSets \/ RunBegins \/ RunEnds
  BY <1>12 DEF InitLocks, confVars, portVars, devVars, runVars, timeVars,
         setVars, InitSets, RunBegins, RunEnds
<1>13. CASE SelectFails \/ Receive \/ UpdateBegins \/ UpdateEnds
  BY <1>13 DEF SelectFails, confVars, portVars, devVars, timeVars, setVars,
         Receive, runVars, UpdateBegins, UpdateEnds
<1>14. CASE ReceiveTimeoutCheck \/ CompareTimeout \/ ExitLocks
          \/ Unconfigure \/ FreeBuf
  BY <1>14
  DEF ReceiveTimeoutCheck, CompareTimeout, confVars, portVars, devVars,
      timeVars, setVars, ExitLocks, runVars, Unconfigure, FreeBuf
<1>15. CASE Alert
  BY <1>15 DEF Alert, confVars, portVars, devVars, timeVars, setVars
<1>16. CASE UNCHANGED vars
  BY <1>16 DEF vars, confVars, portVars, devVars, runVars, timeVars, setVars
<1>17. QED
  BY <1>1, <1>2, <1>3, <1>4, <1>5, <1>6, <1>7, <1>8, <1>9, <1>10, <1>11,
     <1>12, <1>13, <1>14, <1>15, <1>16
  DEF Next

(* Configure makes an object configured last, and Exit unmakes it first. *)
LEMMA NextBuffers == IInv /\ [Next]_vars => Buffers'
<1> SUFFICES ASSUME IInv, [Next]_vars
             PROVE  Buffers'
  OBVIOUS
<1> USE SerialAssumption DEF IInv, TypeOK, ConfOK, Places, Buffers,
        ConfiguredHasBuffer, Threads, Goto
<1>1. CASE Configure
  BY <1>1 DEF Configure, portVars, runVars, timeVars, setVars
<1>2. CASE ConfigureEnds
  BY <1>2 DEF ConfigureEnds, portVars, devVars, runVars, timeVars, setVars
<1>3. CASE Unconfigure
  BY <1>3 DEF Unconfigure, portVars, devVars, runVars, timeVars, setVars
<1>4. CASE FreeBuf
  BY <1>4 DEF FreeBuf, portVars, devVars, runVars, timeVars, setVars
<1>5. CASE SetBits
  BY <1>5 DEF SetBits, confVars, devVars, runVars, timeVars, setVars
<1>6. ASSUME NEW t \in Senders \cup {Task}, SendTakes(t) \/ SendFails(t)
             \/ Write(t)
      PROVE  Buffers'
  BY <1>6 DEF SendTakes, confVars, portVars, devVars, runVars, timeVars,
         setVars, Sends, SendFails, Home, Write
<1>7. CASE Tick \/ OtherFile \/ SetKeepalive \/ Stop
  BY <1>7 DEF Tick, confVars, portVars, devVars, runVars, setVars, OtherFile,
         timeVars, SetKeepalive, Stop
<1>8. CASE Start \/ ConfigurePort \/ ClearBits \/ ConfigurePortEnds
  BY <1>8 DEF Start, confVars, portVars, devVars, timeVars, setVars,
         ConfigurePort, runVars, ClearBits, ConfigurePortEnds
<1>9. CASE InitLocks \/ Open \/ OpenFails \/ InitSets
  BY <1>9 DEF InitLocks, confVars, portVars, devVars, runVars, timeVars,
         setVars, Open, OpenFails, InitSets
<1>10. CASE InitSetFails \/ RunBegins \/ RunEnds \/ SelectFails
  BY <1>10 DEF InitSetFails, confVars, portVars, runVars, timeVars, RunBegins,
         devVars, setVars, RunEnds, SelectFails
<1>11. CASE Receive \/ UpdateBegins \/ UpdateEnds \/ ReceiveTimeoutCheck
          \/ CompareTimeout
  BY <1>11 DEF Receive, confVars, portVars, devVars, runVars, timeVars,
         setVars, UpdateBegins, UpdateEnds, ReceiveTimeoutCheck, CompareTimeout
<1>12. CASE ExitLocks \/ Close \/ ResetFD \/ Alert
  BY <1>12 DEF ExitLocks, confVars, portVars, devVars, runVars, timeVars,
         setVars, Close, ResetFD, Alert
<1>13. CASE UNCHANGED vars
  BY <1>13 DEF vars, confVars, portVars, devVars, runVars, timeVars, setVars
<1>14. QED
  BY <1>1, <1>2, <1>3, <1>4, <1>5, <1>6, <1>7, <1>8, <1>9, <1>10, <1>11,
     <1>12, <1>13
  DEF Next

(* The flag that is set last and cleared last tells of all settings that are
   not yet read. *)
LEMMA NextApplied == IInv /\ [Next]_vars => Applied'
<1> SUFFICES ASSUME IInv, [Next]_vars
             PROVE  Applied'
  OBVIOUS
<1> USE SerialAssumption DEF IInv, TypeOK, Places, Locked, Locks, Applied,
        Threads, Goto
<1>1. CASE ConfigurePort
  BY <1>1 DEF ConfigurePort, confVars, devVars, runVars, timeVars, setVars
<1>2. CASE SetBits
  BY <1>2 DEF SetBits, confVars, devVars, runVars, timeVars, setVars
<1>3. CASE ClearBits
  BY <1>3 DEF ClearBits, confVars, devVars, runVars, timeVars, setVars
<1>4. CASE ConfigurePortEnds
  BY <1>4 DEF ConfigurePortEnds, confVars, devVars, runVars, timeVars, setVars
<1>5. CASE Open
  BY <1>5 DEF Open, confVars, runVars, timeVars, ReadSettings
<1>6. CASE InitSets
  BY <1>6 DEF InitSets, confVars, devVars, runVars, timeVars, Forget
<1>7. CASE InitSetFails
  BY <1>7 DEF InitSetFails, confVars, portVars, runVars, timeVars, Forget
<1>8. CASE RunBegins
  BY <1>8 DEF RunBegins, confVars, portVars, devVars, setVars
<1>9. CASE UpdateBegins
  BY <1>9 DEF UpdateBegins, confVars, devVars, runVars, timeVars, ReadSettings
<1>10. CASE UpdateEnds
  BY <1>10 DEF UpdateEnds, confVars, devVars, runVars, timeVars, Forget
<1>11. CASE ReceiveTimeoutCheck \/ CompareTimeout
  BY <1>11
  DEF ReceiveTimeoutCheck, CompareTimeout, runVars, confVars, portVars,
      devVars, timeVars, setVars
<1>12. ASSUME NEW t \in Senders \cup {Task}, SendTakes(t) \/ SendFails(t)
             \/ Write(t)
      PROVE  Applied'
  BY <1>12 DEF SendTakes, confVars, portVars, devVars, runVars, timeVars,
         setVars, Sends, SendFails, Home, Write
<1>13. CASE Tick \/ OtherFile \/ Configure \/ ConfigureEnds
  BY <1>13 DEF Tick, confVars, portVars, devVars, runVars, setVars, OtherFile,
         timeVars, Configure, ConfigureEnds
<1>14. CASE SetKeepalive \/ Stop \/ Start \/ InitLocks
  BY <1>14 DEF SetKeepalive, portVars, devVars, runVars, timeVars, setVars,
         Stop, confVars, Start, InitLocks
<1>15. CASE OpenFails \/ RunEnds \/ SelectFails \/ Receive
  BY <1>15 DEF OpenFails, confVars, portVars, runVars, timeVars, setVars,
         RunEnds, devVars, SelectFails, Receive
<1>16. CASE ExitLocks \/ Close \/ ResetFD \/ Unconfigure
  BY <1>16 DEF ExitLocks, confVars, portVars, devVars, runVars, timeVars,
         setVars, Close, ResetFD, Unconfigure
<1>17. CASE FreeBuf \/ Alert
  BY <1>17 DEF FreeBuf, portVars, devVars, runVars, timeVars, setVars, Alert,
         confVars
<1>18. CASE UNCHANGED vars
  BY <1>18 DEF vars, confVars, portVars, devVars, runVars, timeVars, setVars
<1>19. QED
  BY <1>1, <1>2, <1>3, <1>4, <1>5, <1>6, <1>7, <1>8, <1>9, <1>10, <1>11,
     <1>12, <1>13, <1>14, <1>15, <1>16, <1>17, <1>18
  DEF Next

(* The clock is read, or goes on by one second. *)
LEMMA NextClock == IInv /\ [Next]_vars => Clock'
<1> SUFFICES ASSUME IInv, [Next]_vars
             PROVE  Clock'
  OBVIOUS
<1> USE SerialAssumption DEF IInv, TypeOK, TimeOK, Places, Clock, Running,
        Threads, Goto
<1>1. CASE Tick
  <2>1. /\ now' = (now + 1) % TickPeriod
        /\ wrapped' = (wrapped \/ now' = 0)
        /\ quiet' = IF quiet <= Longest THEN quiet + 1 ELSE quiet
        /\ UNCHANGED <<m_LastRcvd, pc>> /\ pc[Task] \in Running
    BY <1>1 DEF Tick
  <2>2. ASSUME ~wrapped'
        PROVE  now' = now + 1 /\ ~wrapped
    <3>1. ~wrapped /\ now' # 0
      BY <2>1, <2>2
    <3>2. CASE now + 1 = TickPeriod
      BY <2>1, <3>1, <3>2, Remainder
    <3>3. CASE now + 1 # TickPeriod
      <4>1. now + 1 \in 0..TickPeriod-1
        BY <3>3
      <4>2. (now + 1) % TickPeriod = now + 1
        BY <4>1, Remainder
      <4>3. QED
        BY <2>1, <3>1, <4>2
    <3>4. QED
      BY <3>2, <3>3
  <2>3. Longest \in Nat
    BY LongestIs
  <2>4. QED
    BY <2>1, <2>2, <2>3
<1>2. CASE RunBegins
  <2>1. now' \in Nat /\ m_LastRcvd' = now' /\ UNCHANGED <<quiet, wrapped>>
    BY <1>2 DEF RunBegins, TimeIsRead
  <2>2. quiet = 0 /\ ~wrapped /\ pc'[Task] = "loop"
    BY <1>2 DEF RunBegins
  <2>3. quiet' = 0 /\ m_LastRcvd' <= now' /\ now' - m_LastRcvd' = 0
    <3>1. PICK n \in Nat : now' = n
      BY <2>1
    <3>2. m_LastRcvd' = n /\ quiet' = 0
      BY <2>1, <2>2, <3>1
    <3>3. QED
      BY <3>1, <3>2
  <2>4. Longest \in Nat
    BY LongestIs
  <2>5. QED
    BY <2>2, <2>3, <2>4
<1>3. CASE RunEnds
  BY <1>3 DEF RunEnds, confVars, portVars, devVars, runVars, setVars
<1>4. CASE Receive
  BY <1>4 DEF Receive, confVars, portVars, devVars, runVars, timeVars,
         setVars, Heard
<1>5. CASE UpdateEnds
  BY <1>5 DEF UpdateEnds, confVars, devVars, runVars, timeVars, Heard
<1>6. CASE SetBits
  BY <1>6 DEF SetBits, confVars, devVars, runVars, timeVars, setVars
<1>7. ASSUME NEW t \in Senders \cup {Task}, SendTakes(t) \/ SendFails(t)
             \/ Write(t)
      PROVE  Clock'
  BY <1>7 DEF SendTakes, confVars, portVars, devVars, runVars, timeVars,
         setVars, Sends, SendFails, Home, Write
<1>8. CASE OtherFile \/ Configure \/ ConfigureEnds \/ SetKeepalive
  BY <1>8 DEF OtherFile, confVars, portVars, runVars, timeVars, setVars,
         Configure, ConfigureEnds, devVars, SetKeepalive
<1>9. CASE Stop \/ Start \/ ConfigurePort \/ ClearBits
  BY <1>9 DEF Stop, confVars, portVars, devVars, timeVars, setVars, Start,
         ConfigurePort, runVars, ClearBits
<1>10. CASE ConfigurePortEnds \/ InitLocks \/ Open \/ OpenFails
  BY <1>10 DEF ConfigurePortEnds, confVars, devVars, runVars, timeVars,
         setVars, InitLocks, portVars, Open, OpenFails
<1>11. CASE InitSets \/ InitSetFails \/ SelectFails \/ UpdateBegins
  BY <1>11 DEF InitSets, confVars, devVars, runVars, timeVars, InitSetFails,
         portVars, SelectFails, setVars, UpdateBegins
<1>12. CASE ReceiveTimeoutCheck \/ CompareTimeout \/ ExitLocks \/ Close
          \/ ResetFD
  BY <1>12
  DEF ReceiveTimeoutCheck, CompareTimeout, confVars, portVars, devVars,
      timeVars, setVars, ExitLocks, runVars, Close, ResetFD
<1>13. CASE Unconfigure \/ FreeBuf \/ Alert
  BY <1>13 DEF Unconfigure, portVars, devVars, runVars, timeVars, setVars,
         FreeBuf, Alert, confVars
<1>14. CASE UNCHANGED vars
  BY <1>14 DEF vars, confVars, portVars, devVars, runVars, timeVars, setVars
<1>15. QED
  BY <1>1, <1>2, <1>3, <1>4, <1>5, <1>6, <1>7, <1>8, <1>9, <1>10, <1>11,
     <1>12, <1>13, <1>14
  DEF Next

(* A Run that ends for a reason tells it, whatever the parent is by then. *)
LEMMA NextReasons == IInv /\ [Next]_vars => Reasons'
<1> SUFFICES ASSUME IInv, [Next]_vars
             PROVE  Reasons'
  OBVIOUS
<1> USE SerialAssumption DEF IInv, TypeOK, RunOK, Places, Reasons, Threads,
        Goto
<1>1. CASE RunBegins
  BY <1>1 DEF RunBegins, confVars, portVars, devVars, setVars
<1>2. CASE UpdateEnds
  BY <1>2 DEF UpdateEnds, confVars, devVars, runVars, timeVars
<1>3. CASE CompareTimeout
  <2>1. m_ClientTimeout \in Nat /\ m_ClientTimeout <= Longest /\ Longest \in Nat
    BY LongestIs DEF ConfOK
  <2>2. ASSUME ~wrapped
        PROVE  Elapsed > m_ClientTimeout <=> quiet > m_ClientTimeout
    <3>1. m_LastRcvd <= now /\ now - m_LastRcvd \in 0..Word-1
      BY <2>2 DEF Clock, TimeOK
    <3>2. Elapsed = now - m_LastRcvd
      <4>1. now + (Word - m_LastRcvd) = (now - m_LastRcvd) + Word
        BY DEF TimeOK
      <4>2. ((now - m_LastRcvd) + Word) % Word = now - m_LastRcvd
        BY <3>1, Remainder
      <4>3. QED
        BY <4>1, <4>2 DEF Elapsed
    <3>3. CASE quiet <= Longest
      <4>1. quiet = now - m_LastRcvd
        BY <2>2, <3>3 DEF Clock
      <4>2. QED
        BY <3>2, <4>1
    <3>4. CASE quiet > Longest
      <4>1. now - m_LastRcvd >= quiet
        BY <2>2, <3>4 DEF Clock
      <4>2. quiet > m_ClientTimeout /\ now - m_LastRcvd > m_ClientTimeout
        BY <2>1, <3>1, <3>4, <4>1 DEF TimeOK
      <4>3. QED
        BY <3>2, <4>2
    <3>5. QED
      BY <2>1, <3>3, <3>4 DEF TimeOK
  <2>3. UNCHANGED alert /\ pc'[Task] = "keepalive"
    BY <1>3 DEF CompareTimeout
  <2>4. CASE wrapped
    <3>1. excuse' = excuse \cup {"wrapped"}
      BY <1>3, <2>4 DEF CompareTimeout
    <3>2. m_exitReason' = 1 \/ m_exitReason' = m_exitReason
      BY <1>3 DEF CompareTimeout
    <3>3. QED
      BY <2>3, <3>1, <3>2
  <2>5. CASE ~wrapped /\ quiet <= m_ClientTimeout
    <3>1. excuse' = excuse
      BY <1>3, <2>5 DEF CompareTimeout
    <3>2. ~(Elapsed > m_ClientTimeout)
      BY <2>1, <2>2, <2>5 DEF TimeOK
    <3>3. m_exitReason' = m_exitReason
      BY <1>3, <3>2 DEF CompareTimeout
    <3>4. QED
      BY <2>3, <3>1, <3>3
  <2>6. CASE ~wrapped /\ ~(quiet <= m_ClientTimeout)
    <3>1. \/ excuse' = excuse \cup {"disabled"}
          \/ excuse' = excuse \cup {"silent"}
      BY <1>3, <2>6 DEF CompareTimeout
    <3>2. Elapsed > m_ClientTimeout
      BY <2>1, <2>2, <2>6 DEF TimeOK
    <3>3. m_exitReason' = 1
      <4>1. Elapsed \in Nat
        BY Remainder DEF Elapsed, TimeOK
      <4>2. ~(Elapsed <= m_ClientTimeout)
        BY <2>1, <3>2, <4>1
      <4>3. QED
        BY <1>3, <4>2 DEF CompareTimeout
    <3>4. QED
      BY <2>3, <3>1, <3>3
  <2>7. QED
    BY <2>4, <2>5, <2>6
<1>4. CASE Alert
  BY <1>4 DEF Alert, confVars, portVars, devVars, timeVars, setVars
<1>5. CASE Start
  BY <1>5 DEF Start, confVars, portVars, devVars, timeVars, setVars
<1>6. CASE SetBits
  BY <1>6 DEF SetBits, confVars, devVars, runVars, timeVars, setVars
<1>7. ASSUME NEW t \in Senders \cup {Task}, SendTakes(t) \/ SendFails(t)
             \/ Write(t)
      PROVE  Reasons'
  BY <1>7 DEF SendTakes, confVars, portVars, devVars, runVars, timeVars,
         setVars, Sends, SendFails, Home, Write
<1>8. CASE Tick \/ OtherFile \/ Configure \/ ConfigureEnds
  BY <1>8 DEF Tick, confVars, portVars, devVars, runVars, setVars, OtherFile,
         timeVars, Configure, ConfigureEnds
<1>9. CASE SetKeepalive \/ Stop \/ ConfigurePort \/ ClearBits
  BY <1>9 DEF SetKeepalive, portVars, devVars, runVars, timeVars, setVars,
         Stop, confVars, ConfigurePort, ClearBits
<1>10. CASE ConfigurePortEnds \/ InitLocks \/ Open \/ OpenFails
  BY <1>10 DEF ConfigurePortEnds, confVars, devVars, runVars, timeVars,
         setVars, InitLocks, portVars, Open, OpenFails
<1>11. CASE InitSets \/ InitSetFails \/ RunEnds \/ SelectFails
  BY <1>11 DEF InitSets, confVars, devVars, runVars, timeVars, InitSetFails,
         portVars, RunEnds, setVars, SelectFails
<1>12. CASE Receive \/ UpdateBegins \/ ExitLocks \/ Close
  BY <1>12 DEF Receive, confVars, portVars, devVars, runVars, timeVars,
         setVars, UpdateBegins, ExitLocks, Close
<1>13. CASE ResetFD \/ Unconfigure \/ FreeBuf \/ ReceiveTimeoutCheck
  BY <1>13 DEF ResetFD, confVars, portVars, runVars, timeVars, setVars,
         Unconfigure, devVars, FreeBuf, ReceiveTimeoutCheck
<1>14. CASE UNCHANGED vars
  BY <1>14 DEF vars, confVars, portVars, devVars, runVars, timeVars, setVars
<1>15. QED
  BY <1>1, <1>2, <1>3, <1>4, <1>5, <1>6, <1>7, <1>8, <1>9, <1>10, <1>11,
     <1>12, <1>13, <1>14
  DEF Next

(* ConfigurePort sets one bit field after the other, and knows which are left. *)
LEMMA NextAsked == IInv /\ [Next]_vars => Asked'
<1> SUFFICES ASSUME IInv, [Next]_vars
             PROVE  Asked'
  OBVIOUS
<1> USE SerialAssumption DEF IInv, TypeOK, PortOK, Places, Asked, Threads, Goto
<1>1. CASE ConfigurePort
  <2>1. PICK r \in Requests :
          /\ asked' = r
          /\ call' = [todo |-> {f \in Fields : asked[f] # r[f]},
                   cleared |-> FALSE]
    BY <1>1 DEF ConfigurePort
  <2>2. m_sioOpts = Bits(asked) /\ UNCHANGED m_sioOpts /\ pc'[Owner] = "port"
    BY <1>1 DEF ConfigurePort
  <2>3. ASSUME NEW f \in Fields \ call'.todo
        PROVE  m_sioOpts'[f] = Bits(asked')[f]
    <3>1. asked[f] = r[f]
      BY <2>1, <2>3
    <3>2. Bits(asked)[f] = Bits(r)[f]
      BY <3>1 DEF Bits, Fields
    <3>3. QED
      BY <2>1, <2>2, <3>2
  <2>4. QED
    BY <2>2, <2>3
<1>2. CASE ClearBits
  <2>1. PICK f \in {"size", "parity"} :
          /\ f \in call.todo
          /\ m_sioOpts' = [m_sioOpts EXCEPT ![f] = IF f = "size" THEN 5 ELSE 0]
    BY <1>2 DEF ClearBits, IsNext
  <2>2. /\ call'.todo = call.todo /\ UNCHANGED <<asked, pc>>
        /\ pc[Owner] = "port"
    BY <1>2 DEF ClearBits
  <2>3. ASSUME NEW g \in Fields \ call.todo
        PROVE  m_sioOpts'[g] = m_sioOpts[g]
    BY <2>1 DEF Settings, Fields
  <2>4. QED
    BY <2>2, <2>3
<1>3. CASE SetBits
  <2>1. PICK f \in Fields :
          /\ m_sioOpts' = [m_sioOpts EXCEPT ![f] = Bits(asked)[f]]
          /\ call' = [call EXCEPT !.todo = call.todo \ {f}, !.cleared = FALSE]
    BY <1>3 DEF SetBits
  <2>2. /\ call'.todo = call.todo \ {f} /\ UNCHANGED <<asked, pc>>
        /\ pc[Owner] = "port"
    BY <1>3, <2>1 DEF SetBits
  <2>3. ASSUME NEW g \in Fields \ call'.todo
        PROVE  m_sioOpts'[g] = Bits(asked)[g]
    BY <2>1, <2>2, <2>3 DEF Settings, Fields
  <2>4. QED
    BY <2>2, <2>3
<1>4. CASE ConfigurePortEnds
  <2>1. /\ \A f \in Fields : m_sioOpts[f] = Bits(asked)[f]
        /\ UNCHANGED <<m_sioOpts, asked>> /\ pc'[Owner] = "idle"
    BY <1>4 DEF ConfigurePortEnds
  <2>2. Bits(asked) \in Settings
    BY BitsAndLines
  <2>3. m_sioOpts = Bits(asked)
    BY <2>1, <2>2 DEF Settings, Fields
  <2>4. QED
    BY <2>1, <2>3
<1>5. ASSUME NEW t \in Senders \cup {Task}, SendTakes(t) \/ SendFails(t)
             \/ Write(t)
      PROVE  Asked'
  BY <1>5 DEF SendTakes, confVars, portVars, devVars, runVars, timeVars,
         setVars, Sends, SendFails, Home, Write
<1>6. CASE Tick \/ OtherFile \/ Configure \/ ConfigureEnds \/ SetKeepalive
          \/ Stop
  BY <1>6 DEF Tick, confVars, portVars, devVars, runVars, setVars, OtherFile,
         timeVars, Configure, ConfigureEnds, SetKeepalive, Stop
<1>7. CASE Start \/ InitLocks \/ Open \/ OpenFails \/ InitSets
  BY <1>7 DEF Start, confVars, portVars, devVars, timeVars, setVars,
         InitLocks, runVars, Open, ReadSettings, OpenFails, InitSets
<1>8. CASE InitSetFails \/ RunBegins \/ RunEnds \/ SelectFails \/ Receive
  BY <1>8 DEF InitSetFails, confVars, portVars, runVars, timeVars, RunBegins,
         devVars, setVars, RunEnds, SelectFails, Receive
<1>9. CASE UpdateBegins \/ UpdateEnds \/ ReceiveTimeoutCheck \/ CompareTimeout
  BY <1>9 DEF UpdateBegins, ReadSettings, confVars, devVars, runVars, timeVars,
         UpdateEnds, ReceiveTimeoutCheck, CompareTimeout, portVars, setVars
<1>10. CASE ExitLocks \/ Close \/ ResetFD \/ Unconfigure \/ FreeBuf \/ Alert
  BY <1>10 DEF ExitLocks, confVars, portVars, devVars, runVars, timeVars,
         setVars, Close, ResetFD, Unconfigure, FreeBuf, Alert
<1>11. CASE UNCHANGED vars
  BY <1>11 DEF vars, confVars, portVars, devVars, runVars, timeVars, setVars
<1>12. QED
  BY <1>1, <1>2, <1>3, <1>4, <1>5, <1>6, <1>7, <1>8, <1>9, <1>10, <1>11
  DEF Next

(* The types of what Configure sets, ... *)
LEMMA NextConfOK == IInv /\ [Next]_vars => ConfOK'
<1> SUFFICES ASSUME IInv, [Next]_vars
             PROVE  ConfOK'
  OBVIOUS
<1> USE SerialAssumption DEF IInv, TypeOK, ConfOK
<1>1. CASE Configure
  BY <1>1 DEF Configure, portVars, runVars, timeVars, setVars
<1>2. ASSUME NEW t \in Senders \cup {Task}, SendTakes(t) \/ SendFails(t)
             \/ Write(t)
      PROVE  ConfOK'
  BY <1>2 DEF SendTakes, confVars, portVars, devVars, runVars, timeVars,
         setVars, SendFails, Write
<1>3. CASE Tick \/ OtherFile \/ ConfigureEnds \/ SetKeepalive \/ Stop \/ Start
  BY <1>3 DEF Tick, confVars, portVars, devVars, runVars, setVars, OtherFile,
         timeVars, ConfigureEnds, SetKeepalive, Stop, Start
<1>4. CASE ConfigurePort \/ ClearBits \/ SetBits \/ ConfigurePortEnds
          \/ InitLocks \/ Open
  BY <1>4 DEF ConfigurePort, confVars, devVars, runVars, timeVars, setVars,
         ClearBits, SetBits, ConfigurePortEnds, InitLocks, portVars, Open
<1>5. CASE OpenFails \/ InitSets \/ InitSetFails \/ RunBegins \/ RunEnds
          \/ SelectFails
  BY <1>5 DEF OpenFails, confVars, portVars, runVars, timeVars, setVars,
         InitSets, devVars, InitSetFails, RunBegins, RunEnds, SelectFails
<1>6. CASE Receive \/ UpdateBegins \/ UpdateEnds \/ ReceiveTimeoutCheck
          \/ CompareTimeout
          \/ ExitLocks \/ Close
  BY <1>6
  DEF Receive, confVars, portVars, devVars, runVars, timeVars, setVars,
      UpdateBegins, UpdateEnds, ReceiveTimeoutCheck, CompareTimeout,
      ExitLocks, Close
<1>7. CASE ResetFD \/ Unconfigure \/ FreeBuf \/ Alert
  BY <1>7 DEF ResetFD, confVars, portVars, runVars, timeVars, setVars,
         Unconfigure, devVars, FreeBuf, Alert
<1>8. CASE UNCHANGED vars
  BY <1>8 DEF vars, confVars, portVars, devVars, runVars, timeVars, setVars
<1>9. QED
  BY <1>1, <1>2, <1>3, <1>4, <1>5, <1>6, <1>7, <1>8
  DEF Next

(* ... of the settings, ... *)
LEMMA NextPortOK == IInv /\ [Next]_vars => PortOK'
<1> SUFFICES ASSUME IInv, [Next]_vars
             PROVE  PortOK'
  OBVIOUS
<1> USE SerialAssumption DEF IInv, TypeOK, PortOK
<1>1. CASE ConfigurePort
  <2>1. PICK r \in Requests :
          /\ asked' = r
          /\ call' = [todo |-> {f \in Fields : asked[f] # r[f]},
                   cleared |-> FALSE]
    BY <1>1 DEF ConfigurePort
  <2>2. UNCHANGED <<m_sioOpts, m_bPortUpdate, raced>>
    BY <1>1 DEF ConfigurePort
  <2>3. QED
    BY <2>1, <2>2
<1>2. CASE ClearBits
  <2>1. PICK f \in {"size", "parity"} :
          m_sioOpts' = [m_sioOpts EXCEPT ![f] = IF f = "size" THEN 5 ELSE 0]
    BY <1>2 DEF ClearBits
  <2>2. m_sioOpts' \in Settings
    BY <2>1 DEF Settings
  <2>3. /\ call' = [call EXCEPT !.cleared = TRUE]
        /\ UNCHANGED <<asked, m_bPortUpdate, raced>>
    BY <1>2 DEF ClearBits
  <2>4. QED
    BY <2>2, <2>3
<1>3. CASE SetBits
  <2>1. PICK f \in Fields :
          /\ m_sioOpts' = [m_sioOpts EXCEPT ![f] = Bits(asked)[f]]
          /\ call' = [call EXCEPT !.todo = call.todo \ {f}, !.cleared = FALSE]
    BY <1>3 DEF SetBits
  <2>2. Bits(asked) \in Settings
    BY BitsAndLines
  <2>3. m_sioOpts' \in Settings
    BY <2>1, <2>2 DEF Settings, Fields
  <2>4. call' \in [todo : SUBSET Fields, cleared : BOOLEAN]
    BY <2>1
  <2>5. UNCHANGED <<asked, m_bPortUpdate, raced>>
    BY <1>3 DEF SetBits
  <2>6. QED
    BY <2>3, <2>4, <2>5
<1>4. CASE ConfigurePortEnds
  BY <1>4 DEF ConfigurePortEnds
<1>5. CASE Open
  BY <1>5 DEF Open, confVars, runVars, timeVars, ReadSettings
<1>6. CASE UpdateBegins
  BY <1>6 DEF UpdateBegins, confVars, devVars, runVars, timeVars, ReadSettings
<1>7. CASE UpdateEnds
  BY <1>7 DEF UpdateEnds, confVars, devVars, runVars, timeVars
<1>8. CASE InitSets
  BY <1>8 DEF InitSets, confVars, devVars, runVars, timeVars
<1>9. ASSUME NEW t \in Senders \cup {Task}, SendTakes(t) \/ SendFails(t)
             \/ Write(t)
      PROVE  PortOK'
  BY <1>9 DEF SendTakes, confVars, portVars, devVars, runVars, timeVars,
         setVars, SendFails, Write
<1>10. CASE Tick \/ OtherFile \/ Configure \/ ConfigureEnds \/ SetKeepalive
          \/ Stop
  BY <1>10 DEF Tick, confVars, portVars, devVars, runVars, setVars, OtherFile,
         timeVars, Configure, ConfigureEnds, SetKeepalive, Stop
<1>11. CASE Start \/ InitLocks \/ OpenFails \/ InitSetFails \/ RunBegins
          \/ RunEnds
  BY <1>11 DEF Start, confVars, portVars, devVars, timeVars, setVars,
         InitLocks, runVars, OpenFails, InitSetFails, RunBegins, RunEnds
<1>12. CASE SelectFails \/ Receive \/ ReceiveTimeoutCheck \/ CompareTimeout
          \/ ExitLocks
          \/ Close \/ ResetFD
  BY <1>12
  DEF SelectFails, confVars, portVars, devVars, timeVars, setVars, Receive,
      runVars, ReceiveTimeoutCheck, CompareTimeout, ExitLocks, Close, ResetFD
<1>13. CASE Unconfigure \/ FreeBuf \/ Alert
  BY <1>13 DEF Unconfigure, portVars, devVars, runVars, timeVars, setVars,
         FreeBuf, Alert, confVars
<1>14. CASE UNCHANGED vars
  BY <1>14 DEF vars, confVars, portVars, devVars, runVars, timeVars, setVars
<1>15. QED
  BY <1>1, <1>2, <1>3, <1>4, <1>5, <1>6, <1>7, <1>8, <1>9, <1>10, <1>11,
     <1>12, <1>13, <1>14
  DEF Next

(* ... the descriptors, ... *)
LEMMA NextDevOK == IInv /\ [Next]_vars => DevOK'
<1> SUFFICES ASSUME IInv, [Next]_vars
             PROVE  DevOK'
  OBVIOUS
<1> USE SerialAssumption DEF IInv, TypeOK, DevOK
<1>1. CASE OtherFile
  BY <1>1 DEF OtherFile, confVars, portVars, runVars, timeVars, setVars
<1>2. CASE Configure
  BY <1>2 DEF Configure, portVars, runVars, timeVars, setVars, MyPort
<1>3. CASE Open
  BY <1>3 DEF Open, confVars, runVars, timeVars
<1>4. CASE InitSetFails
  BY <1>4 DEF InitSetFails, confVars, portVars, runVars, timeVars, CloseIt
<1>5. CASE Close
  BY <1>5 DEF Close, confVars, portVars, runVars, timeVars, setVars, CloseIt
<1>6. CASE SetBits
  BY <1>6 DEF SetBits, confVars, devVars, runVars, timeVars, setVars
<1>7. ASSUME NEW t \in Senders \cup {Task}, SendTakes(t) \/ SendFails(t)
             \/ Write(t)
      PROVE  DevOK'
  BY <1>7 DEF SendTakes, confVars, portVars, devVars, runVars, timeVars,
         setVars, SendFails, Write
<1>8. CASE Tick \/ ConfigureEnds \/ SetKeepalive \/ Stop \/ Start
          \/ ConfigurePort
  BY <1>8 DEF Tick, confVars, portVars, devVars, runVars, setVars,
         ConfigureEnds, timeVars, SetKeepalive, Stop, Start, ConfigurePort
<1>9. CASE ClearBits \/ ConfigurePortEnds \/ InitLocks \/ OpenFails
          \/ InitSets \/ RunBegins
  BY <1>9 DEF ClearBits, confVars, devVars, runVars, timeVars, setVars,
         ConfigurePortEnds, InitLocks, portVars, OpenFails, InitSets,
         RunBegins
<1>10. CASE RunEnds \/ SelectFails \/ Receive \/ UpdateBegins \/ UpdateEnds
          \/ ReceiveTimeoutCheck \/ CompareTimeout
  BY <1>10 DEF RunEnds, confVars, portVars, devVars, runVars, setVars,
         SelectFails, timeVars, Receive, UpdateBegins, UpdateEnds,
         ReceiveTimeoutCheck, CompareTimeout
<1>11. CASE ExitLocks \/ ResetFD \/ Unconfigure \/ FreeBuf \/ Alert
  BY <1>11 DEF ExitLocks, confVars, portVars, devVars, runVars, timeVars,
         setVars, ResetFD, Unconfigure, FreeBuf, Alert
<1>12. CASE UNCHANGED vars
  BY <1>12 DEF vars, confVars, portVars, devVars, runVars, timeVars, setVars
<1>13. QED
  BY <1>1, <1>2, <1>3, <1>4, <1>5, <1>6, <1>7, <1>8, <1>9, <1>10, <1>11, <1>12
  DEF Next

(* ... the end of Run, ... *)
LEMMA NextRunOK == IInv /\ [Next]_vars => RunOK'
<1> SUFFICES ASSUME IInv, [Next]_vars
             PROVE  RunOK'
  OBVIOUS
<1> USE SerialAssumption DEF IInv, TypeOK, RunOK
<1>1. CASE UpdateEnds
  <2>1. m_bTaskRunning' \in BOOLEAN
    BY <1>1, Zenon DEF UpdateEnds, runVars
  <2>2. UNCHANGED alert /\ m_exitReason' \in 0..2
    BY <1>1 DEF UpdateEnds, runVars
  <2>3. excuse' = excuse \/ excuse' = excuse \cup {"update"}
    BY <1>1 DEF UpdateEnds, runVars
  <2>4. QED
    BY <2>1, <2>2, <2>3
<1>2. CASE CompareTimeout
  <2>1. m_bTaskRunning' \in BOOLEAN
    BY <1>2, Zenon DEF CompareTimeout
  <2>2. UNCHANGED alert /\ m_exitReason' \in 0..2
    BY <1>2 DEF CompareTimeout
  <2>3. \/ excuse' = excuse
        \/ \E e \in {"wrapped", "disabled", "silent"} : excuse' = excuse \cup {e}
    BY <1>2 DEF CompareTimeout
  <2>4. QED
    BY <2>1, <2>2, <2>3
<1>3. CASE Alert
  BY <1>3 DEF Alert, confVars, portVars, devVars, timeVars, setVars
<1>4. CASE RunBegins
  BY <1>4 DEF RunBegins, confVars, portVars, devVars, setVars
<1>5. CASE SetBits
  BY <1>5 DEF SetBits, confVars, devVars, runVars, timeVars, setVars
<1>6. ASSUME NEW t \in Senders \cup {Task}, SendTakes(t) \/ SendFails(t)
             \/ Write(t)
      PROVE  RunOK'
  BY <1>6 DEF SendTakes, confVars, portVars, devVars, runVars, timeVars,
         setVars, SendFails, Write
<1>7. CASE Tick \/ OtherFile \/ Configure \/ ConfigureEnds \/ SetKeepalive
          \/ Stop
  BY <1>7 DEF Tick, confVars, portVars, devVars, runVars, setVars, OtherFile,
         timeVars, Configure, ConfigureEnds, SetKeepalive, Stop
<1>8. CASE ReceiveTimeoutCheck \/ Start \/ ConfigurePort \/ ClearBits
          \/ ConfigurePortEnds
          \/ InitLocks \/ Open
  BY <1>8
  DEF ReceiveTimeoutCheck, Start, confVars, portVars, devVars, timeVars,
      setVars, ConfigurePort, runVars, ClearBits, ConfigurePortEnds,
      InitLocks, Open
<1>9. CASE OpenFails \/ InitSets \/ InitSetFails \/ RunEnds \/ SelectFails
          \/ Receive
  BY <1>9 DEF OpenFails, confVars, portVars, runVars, timeVars, setVars,
         InitSets, devVars, InitSetFails, RunEnds, SelectFails, Receive
<1>10. CASE UpdateBegins \/ ExitLocks \/ Close \/ ResetFD \/ Unconfigure
          \/ FreeBuf
  BY <1>10 DEF UpdateBegins, confVars, devVars, runVars, timeVars, ExitLocks,
         portVars, setVars, Close, ResetFD, Unconfigure, FreeBuf
<1>11. CASE UNCHANGED vars
  BY <1>11 DEF vars, confVars, portVars, devVars, runVars, timeVars, setVars
<1>12. QED
  BY <1>1, <1>2, <1>3, <1>4, <1>5, <1>6, <1>7, <1>8, <1>9, <1>10, <1>11
  DEF Next

(* ... the time, ... *)
LEMMA NextTimeOK == IInv /\ [Next]_vars => TimeOK'
<1> SUFFICES ASSUME IInv, [Next]_vars
             PROVE  TimeOK'
  OBVIOUS
<1> USE SerialAssumption DEF IInv, TypeOK, TimeOK
<1>1. CASE Tick
  BY <1>1, Remainder DEF Tick
<1>2. CASE RunBegins
  BY <1>2 DEF RunBegins, confVars, portVars, devVars, setVars, TimeIsRead
<1>3. CASE Receive
  <2>1. Heard \/ UNCHANGED timeVars
    BY <1>3 DEF Receive
  <2>2. /\ m_LastRcvd' \in 0..TickPeriod-1 /\ now' \in 0..TickPeriod-1
        /\ quiet' \in Nat
    BY <2>1 DEF Heard, timeVars
  <2>3. wrapped' \in BOOLEAN
    BY <2>1, Zenon DEF Heard, timeVars
  <2>4. QED
    BY <2>2, <2>3
<1>4. CASE UpdateEnds
  <2>1. Heard \/ UNCHANGED timeVars
    BY <1>4 DEF UpdateEnds
  <2>2. /\ m_LastRcvd' \in 0..TickPeriod-1 /\ now' \in 0..TickPeriod-1
        /\ quiet' \in Nat
    BY <2>1 DEF Heard, timeVars
  <2>3. wrapped' \in BOOLEAN
    BY <2>1, Zenon DEF Heard, timeVars
  <2>4. QED
    BY <2>2, <2>3
<1>5. CASE RunEnds
  <2>1. /\ m_LastRcvd' \in 0..TickPeriod-1 /\ now' \in 0..TickPeriod-1
        /\ quiet' \in Nat
    BY <1>5 DEF RunEnds
  <2>2. wrapped' \in BOOLEAN
    BY <1>5, Zenon DEF RunEnds
  <2>3. QED
    BY <2>1, <2>2
<1>6. CASE SetBits
  BY <1>6 DEF SetBits, confVars, devVars, runVars, timeVars, setVars
<1>7. ASSUME NEW t \in Senders \cup {Task}, SendTakes(t) \/ SendFails(t)
             \/ Write(t)
      PROVE  TimeOK'
  BY <1>7 DEF SendTakes, confVars, portVars, devVars, runVars, timeVars,
         setVars, SendFails, Write
<1>8. CASE OtherFile \/ Configure \/ ConfigureEnds \/ SetKeepalive \/ Stop
          \/ Start
  BY <1>8 DEF OtherFile, confVars, portVars, runVars, timeVars, setVars,
         Configure, ConfigureEnds, devVars, SetKeepalive, Stop, Start
<1>9. CASE ConfigurePort \/ ClearBits \/ ConfigurePortEnds \/ InitLocks
          \/ Open \/ OpenFails
  BY <1>9 DEF ConfigurePort, confVars, devVars, runVars, timeVars, setVars,
         ClearBits, ConfigurePortEnds, InitLocks, portVars, Open, OpenFails
<1>10. CASE InitSets \/ InitSetFails \/ SelectFails \/ UpdateBegins
          \/ ReceiveTimeoutCheck \/ CompareTimeout \/ ExitLocks
  BY <1>10
  DEF InitSets, confVars, devVars, runVars, timeVars, InitSetFails, portVars,
      SelectFails, setVars, UpdateBegins, ReceiveTimeoutCheck, CompareTimeout,
      ExitLocks
<1>11. CASE Close \/ ResetFD \/ Unconfigure \/ FreeBuf \/ Alert
  BY <1>11 DEF Close, confVars, portVars, runVars, timeVars, setVars, ResetFD,
         Unconfigure, devVars, FreeBuf, Alert
<1>12. CASE UNCHANGED vars
  BY <1>12 DEF vars, confVars, portVars, devVars, runVars, timeVars, setVars
<1>13. QED
  BY <1>1, <1>2, <1>3, <1>4, <1>5, <1>6, <1>7, <1>8, <1>9, <1>10, <1>11, <1>12
  DEF Next

(* ... and what the device has. *)
LEMMA NextSetOK == IInv /\ [Next]_vars => SetOK'
<1> SUFFICES ASSUME IInv, [Next]_vars
             PROVE  SetOK'
  OBVIOUS
<1> USE SerialAssumption DEF IInv, TypeOK, SetOK
<1> Bits(Default) \in Settings /\ Termios(Bits(Default)) \in Lines
  BY BitsAndLines
<1>1. CASE Open
  BY <1>1, BitsAndLines DEF Open, ReadSettings, PortOK
<1>2. CASE InitSets
  BY <1>2 DEF InitSets, Forget
<1>3. CASE InitSetFails
  BY <1>3 DEF InitSetFails, Forget
<1>4. CASE UpdateBegins
  BY <1>4, BitsAndLines DEF UpdateBegins, ReadSettings, PortOK
<1>5. CASE UpdateEnds
  <2>1. port' = port \/ port' = options
    BY <1>5 DEF UpdateEnds
  <2>2. QED
    BY <1>5, <2>1 DEF UpdateEnds, Forget
<1>6. CASE SetBits
  BY <1>6 DEF SetBits, confVars, devVars, runVars, timeVars, setVars
<1>7. ASSUME NEW t \in Senders \cup {Task}, SendTakes(t) \/ SendFails(t)
             \/ Write(t)
      PROVE  SetOK'
  BY <1>7 DEF SendTakes, confVars, portVars, devVars, runVars, timeVars,
         setVars, SendFails, Write
<1>8. CASE Tick \/ OtherFile \/ Configure \/ ConfigureEnds \/ SetKeepalive
          \/ Stop
  BY <1>8 DEF Tick, confVars, portVars, devVars, runVars, setVars, OtherFile,
         timeVars, Configure, ConfigureEnds, SetKeepalive, Stop
<1>9. CASE Start \/ ConfigurePort \/ ClearBits \/ ConfigurePortEnds
          \/ InitLocks \/ OpenFails
  BY <1>9 DEF Start, confVars, portVars, devVars, timeVars, setVars,
         ConfigurePort, runVars, ClearBits, ConfigurePortEnds, InitLocks,
         OpenFails
<1>10. CASE RunBegins \/ RunEnds \/ SelectFails \/ Receive
          \/ ReceiveTimeoutCheck \/ CompareTimeout \/ ExitLocks
  BY <1>10
  DEF RunBegins, confVars, portVars, devVars, setVars, RunEnds, runVars,
      SelectFails, timeVars, Receive, ReceiveTimeoutCheck, CompareTimeout,
      ExitLocks
<1>11. CASE Close \/ ResetFD \/ Unconfigure \/ FreeBuf \/ Alert
  BY <1>11 DEF Close, confVars, portVars, runVars, timeVars, setVars, ResetFD,
         Unconfigure, devVars, FreeBuf, Alert
<1>12. CASE UNCHANGED vars
  BY <1>12 DEF vars, confVars, portVars, devVars, runVars, timeVars, setVars
<1>13. QED
  BY <1>1, <1>2, <1>3, <1>4, <1>5, <1>6, <1>7, <1>8, <1>9, <1>10, <1>11, <1>12
  DEF Next

(* The semaphore is 0 or 1. *)
LEMMA NextSemOK == IInv /\ [Next]_vars => (m_semDev \in 0..1)'
<1> SUFFICES ASSUME IInv, [Next]_vars
             PROVE  (m_semDev \in 0..1)'
  OBVIOUS
<1> USE SerialAssumption DEF IInv, TypeOK, Places, Locked, Locks, Threads
<1>1. CASE InitLocks
  BY <1>1 DEF InitLocks, confVars, portVars, devVars, runVars, timeVars,
         setVars
<1>2. CASE ExitLocks
  BY <1>2 DEF ExitLocks, confVars, portVars, devVars, runVars, timeVars,
         setVars
<1>3. ASSUME NEW t \in Senders \cup {Task}, SendTakes(t) \/ SendFails(t)
             \/ Write(t)
      PROVE  (m_semDev \in 0..1)'
  BY <1>3 DEF SendTakes, confVars, portVars, devVars, runVars, timeVars,
         setVars, Sends, SendFails, Home, Write
<1>4. CASE Tick \/ OtherFile \/ Configure \/ ConfigureEnds \/ SetKeepalive
          \/ Stop
  BY <1>4 DEF Tick, confVars, portVars, devVars, runVars, setVars, OtherFile,
         timeVars, Configure, ConfigureEnds, SetKeepalive, Stop
<1>5. CASE Start \/ ConfigurePort \/ ClearBits \/ SetBits \/ ConfigurePortEnds
          \/ Open
  BY <1>5 DEF Start, confVars, portVars, devVars, timeVars, setVars,
         ConfigurePort, runVars, ClearBits, SetBits, ConfigurePortEnds, Open
<1>6. CASE OpenFails \/ InitSets \/ InitSetFails \/ RunBegins \/ RunEnds
          \/ SelectFails
  BY <1>6 DEF OpenFails, confVars, portVars, runVars, timeVars, setVars,
         InitSets, devVars, InitSetFails, RunBegins, RunEnds, SelectFails
<1>7. CASE Receive \/ UpdateBegins \/ UpdateEnds \/ ReceiveTimeoutCheck
          \/ CompareTimeout
          \/ Close \/ ResetFD
  BY <1>7
  DEF Receive, confVars, portVars, devVars, runVars, timeVars, setVars,
      UpdateBegins, UpdateEnds, ReceiveTimeoutCheck, CompareTimeout, Close,
      ResetFD
<1>8. CASE Unconfigure \/ FreeBuf \/ Alert
  BY <1>8 DEF Unconfigure, portVars, devVars, runVars, timeVars, setVars,
         FreeBuf, Alert, confVars
<1>9. CASE UNCHANGED vars
  BY <1>9 DEF vars, confVars, portVars, devVars, runVars, timeVars, setVars
<1>10. QED
  BY <1>1, <1>2, <1>3, <1>4, <1>5, <1>6, <1>7, <1>8, <1>9
  DEF Next

(* And every thread is somewhere. *)
LEMMA NextPcOK == IInv /\ [Next]_vars => (pc \in [Threads -> TaskPCs \cup OtherPCs])'
<1> SUFFICES ASSUME IInv, [Next]_vars
             PROVE  (pc \in [Threads -> TaskPCs \cup OtherPCs])'
  OBVIOUS
<1> USE SerialAssumption DEF IInv, TypeOK, Threads, TaskPCs, OtherPCs, Goto
<1>1. CASE SetBits
  BY <1>1 DEF SetBits, confVars, devVars, runVars, timeVars, setVars
<1>2. ASSUME NEW t \in Senders \cup {Task}, SendTakes(t) \/ SendFails(t)
             \/ Write(t)
      PROVE  (pc \in [Threads -> TaskPCs \cup OtherPCs])'
  BY <1>2 DEF SendTakes, confVars, portVars, devVars, runVars, timeVars,
         setVars, Sends, SendFails, Home, Write
<1>3. CASE Tick \/ OtherFile \/ Configure \/ ConfigureEnds \/ SetKeepalive
          \/ Stop
  BY <1>3 DEF Tick, confVars, portVars, devVars, runVars, setVars, OtherFile,
         timeVars, Configure, ConfigureEnds, SetKeepalive, Stop
<1>4. CASE Start \/ ConfigurePort \/ ClearBits \/ ConfigurePortEnds
          \/ InitLocks \/ Open
  BY <1>4 DEF Start, confVars, portVars, devVars, timeVars, setVars,
         ConfigurePort, runVars, ClearBits, ConfigurePortEnds, InitLocks, Open
<1>5. CASE OpenFails \/ InitSets \/ InitSetFails \/ RunBegins \/ RunEnds
          \/ SelectFails
  BY <1>5 DEF OpenFails, confVars, portVars, runVars, timeVars, setVars,
         InitSets, devVars, InitSetFails, RunBegins, RunEnds, SelectFails
<1>6. CASE Receive \/ UpdateBegins \/ UpdateEnds \/ ReceiveTimeoutCheck
          \/ CompareTimeout
          \/ ExitLocks \/ Close
  BY <1>6
  DEF Receive, confVars, portVars, devVars, runVars, timeVars, setVars,
      UpdateBegins, UpdateEnds, ReceiveTimeoutCheck, CompareTimeout,
      ExitLocks, Close
<1>7. CASE ResetFD \/ Unconfigure \/ FreeBuf \/ Alert
  BY <1>7 DEF ResetFD, confVars, portVars, runVars, timeVars, setVars,
         Unconfigure, devVars, FreeBuf, Alert
<1>8. CASE UNCHANGED vars
  BY <1>8 DEF vars, confVars, portVars, devVars, runVars, timeVars, setVars
<1>9. QED
  BY <1>1, <1>2, <1>3, <1>4, <1>5, <1>6, <1>7, <1>8
  DEF Next

(* Every part of the invariant holds after every step. *)
LEMMA Invariance == Spec => []IInv
<1>1. Init => IInv
  BY InitIInv
<1>2. IInv /\ [Next]_vars => TypeOK'
  BY NextConfOK, NextPortOK, NextDevOK, NextRunOK, NextTimeOK, NextSetOK,
     NextSemOK, NextPcOK DEF TypeOK
<1>3. IInv /\ [Next]_vars => IInv'
  BY <1>2, NextPlaces, NextLocked, NextPorts, NextBuffers, NextApplied,
     NextAsked, NextClock, NextReasons DEF IInv
<1>4. QED
  BY <1>1, <1>3, PTL DEF Spec

(* The variables keep their types: m_semDev is a mutex, the bits of the
   settings are those of a request or cleared, the ticks stay below their
   period. *)
THEOREM TypeCorrect == Spec => []TypeOK
<1>1. IInv => TypeOK
  BY DEF IInv
<1>2. QED
  BY <1>1, Invariance, PTL

(* A Send writes to the port or to no file, and no port is left open but by a
   Configure of a running object: Exit and Init have the semaphore whenever
   m_fdSerial names a descriptor that is closed. *)
THEOREM WriteSafe == Spec => []WriteHitsPort
<1>1. IInv => WriteHitsPort
  <2> SUFFICES ASSUME IInv
               PROVE  WriteHitsPort
    OBVIOUS
  <2> USE DEF IInv, TypeOK, DevOK, Ports, MyPort
  <2>1. ASSUME NEW t \in Threads, pc[t] = "write", m_fdSerial # NoFD
        PROVE  files[m_fdSerial] = "port"
    <3>1. pc[Task] # "closed"
      BY <2>1, SerialAssumption DEF Locked, Locks, Threads
    <3>2. QED
      BY <2>1, <3>1
  <2>2. {f \in FDs : files[f] = "port"} = lost \cup (MyPort \ {NoFD})
    BY SerialAssumption
  <2>3. QED
    BY <2>1, <2>2 DEF WriteHitsPort
<1>2. QED
  BY <1>1, Invariance, PTL

(* Whatever settings are asked for, and however often: when Run has nothing to
   update the device has all of them but the baud rate, unless they were
   completed while Run or Init had read older ones.  Its speed is always B0. *)
THEOREM AppliedSafe == Spec => []AppliedUnlessRaced
<1>1. IInv => AppliedUnlessRaced
  BY DEF IInv, Applied, Asked, AppliedUnlessRaced
<1>2. QED
  BY <1>1, Invariance, PTL

(* Exit sends the parent a message of a silent line and of a failed update, for
   any timeouts and whenever SetKeepalive changes them.  What else it sends is
   due to the wrap of the ticks, to a timeout switched off between its two
   reads, or to an Init that failed in the first run.  A failed select is never
   told. *)
THEOREM AlertSafe == Spec => []AlertIsTrue
<1>1. IInv => AlertIsTrue
  BY DEF IInv, Reasons, AlertIsTrue
<1>2. QED
  BY <1>1, Invariance, PTL

(* A configured object has its buffer and its parent, though Exit deletes the
   buffer after it has made the object unconfigured and without a lock. *)
THEOREM BufferSafe == Spec => []ConfiguredHasBuffer
<1>1. IInv => ConfiguredHasBuffer
  BY DEF IInv, Buffers
<1>2. QED
  BY <1>1, Invariance, PTL
=============================================================================
