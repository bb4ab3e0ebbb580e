--------------------------- MODULE TcpServerProofs ---------------------------
(***************************************************************************)
(* Proofs about TcpServer: the safety properties hold for any number of    *)
(* descriptors and threads, any limit of connections and any queue.        *)
(***************************************************************************)
EXTENDS TcpServer, TLAPS

\* Where the server's thread holds the mutex outside the top of a loop.
Holding == {"disconnect", "data", "keepWrite"}

(* The mutex has the holder that acts as if it did: a Send that writes, or the
   server's thread in a loop. *)
MutexHeld ==
  /\ \A t \in Callers : call[t].at = "write" => m_semClientMap = t
  /\ pc \in Holding => m_semClientMap = Server
  /\ m_semClientMap = Server => pc \in Loops \cup Holding

\* The server's thread works on a descriptor that accept returned.
SockIsFd == pc \in Reports \cup {"add"} => sock \in Fds

IInv == /\ TypeOK /\ MutexHeld /\ SockIsFd
        /\ ReportsFollowMap /\ SocketsAccountedFor
        /\ WriteHitsClient /\ IteratorsStayValid

(* A server that was never started has no clients and no sockets. *)
LEMMA InitIInv == Init => IInv
<1> SUFFICES ASSUME Init
             PROVE  IInv
  OBVIOUS
<1>1. call \in [Callers -> [at : {"none", "send", "close", "look", "write"},
                           fds : SUBSET Fds]]
  BY DEF Init, NoCall
<1>2. /\ m_bTaskRunning \in BOOLEAN /\ m_bConfigured \in BOOLEAN
      /\ m_pBuf \in BOOLEAN /\ m_pParentTask \in BOOLEAN
      /\ m_exitReason \in BOOLEAN
  BY DEF Init
<1>3. TypeOK
  BY <1>1, <1>2, TcpServerAssumption DEF Init, TypeOK, PCs, Loops
<1>4. MutexHeld /\ SockIsFd
  BY TcpServerAssumption
  DEF Init, MutexHeld, SockIsFd, Callers, NoCall, Holding, Reports
<1>5. ReportsFollowMap /\ SocketsAccountedFor
  BY DEF Init, ReportsFollowMap, SocketsAccountedFor, Reporting, Running,
         Loops, Reports
<1>6. WriteHitsClient /\ IteratorsStayValid
  BY TcpServerAssumption
  DEF Init, WriteHitsClient, IteratorsStayValid, Callers, NoCall
<1>7. QED
  BY <1>3, <1>4, <1>5, <1>6 DEF IInv

(* No step takes a variable out of its type. *)
LEMMA NextTypeOK == IInv /\ [Next]_vars => TypeOK'
<1> SUFFICES ASSUME IInv, [Next]_vars
             PROVE  TypeOK'
  OBVIOUS
<1> USE TcpServerAssumption DEF IInv, TypeOK, SockIsFd, SocketsAccountedFor,
        Callers, PCs, Running, Loops, Reports, ExitSteps
<1>1. CASE InitListens
  BY <1>1 DEF InitListens, mapVars, configVars, loopVars, history
<1>2. CASE SelectFails
  BY <1>2 DEF SelectFails, mapVars, configVars, loopVars, history
<1>3. CASE EnterLoop
  BY <1>3 DEF EnterLoop, mapVars, configVars, loopVars, history
<1>4. CASE LeaveLoop
  BY <1>4 DEF LeaveLoop, After, mapVars, configVars, loopVars, history
<1>5. ASSUME NEW f \in Fds, RemoveClient(f)
      PROVE  TypeOK'
  BY <1>5 DEF RemoveClient, Visiting, mapVars, configVars, loopVars, history
<1>6. CASE Accept
  BY <1>6 DEF Accept, mapVars, configVars, loopVars, history
<1>7. CASE AddClient
  BY <1>7 DEF AddClient, mapVars, configVars, loopVars, history
<1>8. CASE Report
  BY <1>8 DEF Report, Told, mapVars, configVars, loopVars, history
<1>9. ASSUME NEW t \in Callers, SendValid(t)
      PROVE  TypeOK'
  BY <1>9 DEF SendValid, Targets, mapVars, configVars, loopVars, history,
         NoCall
<1>10. CASE LeaveRun
  BY <1>10 DEF LeaveRun, mapVars, configVars, loopVars, history
<1>11. CASE Alert
  BY <1>11 DEF Alert, mapVars, configVars, loopVars, history
<1>12. CASE Receive
  BY <1>12 DEF Receive, mapVars, configVars, loopVars, history, NoCall,
         Requests
<1>13. CASE Stop
  <2>1. m_bTaskRunning' \in BOOLEAN
    BY <1>13, Zenon DEF Stop
  <2>2. QED
    BY <1>13, <2>1 DEF Stop, mapVars, configVars, loopVars, history
<1>14. ASSUME NEW u \in Others, Request(u)
      PROVE  TypeOK'
  BY <1>14 DEF Request, mapVars, configVars, loopVars, history, NoCall,
         Requests
<1>15. CASE InitFails \/ Select \/ NoTimeouts \/ Refuse \/ NoKeepAlive
          \/ KeepAlive \/ KeepWrite
  BY <1>15 DEF InitFails, Select, NoTimeouts, Refuse, NoKeepAlive, KeepAlive,
         KeepWrite, mapVars, configVars, loopVars, history
<1>16. CASE RemoveAllClients \/ Unconfigure \/ FreeBuf
  <2>1. CASE RemoveAllClients
    BY <2>1 DEF RemoveAllClients, mapVars, configVars, loopVars, history
  <2>2. CASE Unconfigure
    BY <2>2 DEF Unconfigure, mapVars, configVars, loopVars, history
  <2>3. CASE FreeBuf
    BY <2>3 DEF FreeBuf, mapVars, configVars, loopVars, history
  <2>4. QED
    BY <1>16, <2>1, <2>2, <2>3
<1>17. CASE Configure \/ Begin
  <2>1. CASE Configure
    BY <2>1 DEF Configure, mapVars, configVars, loopVars, history
  <2>2. CASE Begin
    BY <2>2 DEF Begin, mapVars, configVars, loopVars, history
  <2>3. QED
    BY <1>17, <2>1, <2>2
<1>18. ASSUME NEW f \in Fds, Skip(f) \/ Parse(f)
      PROVE  TypeOK'
  BY <1>18 DEF Skip, Visiting, Parse, mapVars, configVars, loopVars, history
<1>19. ASSUME NEW t \in Callers, Write(t) \/ CloseConnection(t) \/ Look(t)
      PROVE  TypeOK'
  BY <1>19 DEF Write, NoCall, CloseConnection, Look, mapVars, configVars,
         loopVars, history
<1>20. CASE UNCHANGED vars
  BY <1>20 DEF vars, mapVars, configVars, loopVars, history
<1>21. QED
  BY <1>1, <1>2, <1>3, <1>4, <1>5, <1>6, <1>7, <1>8, <1>9, <1>10, <1>11,
     <1>12, <1>13, <1>14, <1>15, <1>16, <1>17, <1>18, <1>19, <1>20
  DEF Next, ServerStep, CallerStep

(* A thread that works with the mutex keeps it, and who leaves it gives it back. *)
LEMMA NextMutexHeld == IInv /\ [Next]_vars => MutexHeld'
<1> SUFFICES ASSUME IInv, [Next]_vars
             PROVE  MutexHeld'
  OBVIOUS
<1> USE TcpServerAssumption DEF IInv, TypeOK, MutexHeld, Callers, Loops,
        Holding, Reports
<1>1. CASE EnterLoop
  BY <1>1 DEF EnterLoop, loopVars
<1>2. CASE LeaveLoop
  BY <1>2 DEF LeaveLoop, After, loopVars
<1>3. ASSUME NEW f \in Fds, RemoveClient(f)
      PROVE  MutexHeld'
  BY <1>3 DEF RemoveClient, Visiting, loopVars
<1>4. CASE Report
  BY <1>4 DEF Report, Told, loopVars
<1>5. CASE KeepWrite
  BY <1>5 DEF KeepWrite, loopVars
<1>6. ASSUME NEW t \in Callers, SendValid(t)
      PROVE  MutexHeld'
  BY <1>6 DEF SendValid, Targets, loopVars, NoCall
<1>7. ASSUME NEW t \in Callers, Write(t)
      PROVE  MutexHeld'
  BY <1>7 DEF Write, loopVars, NoCall
<1>8. CASE InitListens \/ InitFails \/ Select \/ SelectFails \/ NoTimeouts
          \/ Accept \/ AddClient \/ Refuse \/ NoKeepAlive \/ KeepAlive
  BY <1>8 DEF InitListens, InitFails, Select, SelectFails, NoTimeouts, Accept,
         AddClient, Refuse, NoKeepAlive, KeepAlive, loopVars
<1>9. CASE LeaveRun \/ RemoveAllClients \/ Unconfigure \/ FreeBuf \/ Alert
  BY <1>9 DEF LeaveRun, RemoveAllClients, Unconfigure, FreeBuf, Alert,
         loopVars
<1>10. CASE Receive \/ Configure \/ Begin \/ Stop
  BY <1>10 DEF Receive, NoCall, Requests, Configure, Begin, Stop, loopVars
<1>11. ASSUME NEW f \in Fds, Skip(f) \/ Parse(f)
      PROVE  MutexHeld'
  BY <1>11 DEF Skip, Visiting, Parse, loopVars
<1>12. ASSUME NEW t \in Callers, CloseConnection(t) \/ Look(t)
      PROVE  MutexHeld'
  BY <1>12 DEF CloseConnection, NoCall, Look, loopVars
<1>13. ASSUME NEW u \in Others, Request(u)
      PROVE  MutexHeld'
  BY <1>13 DEF Request, NoCall, Requests, loopVars
<1>14. CASE UNCHANGED vars
  BY <1>14 DEF vars, loopVars
<1>15. QED
  BY <1>1, <1>2, <1>3, <1>4, <1>5, <1>6, <1>7, <1>8, <1>9, <1>10, <1>11,
     <1>12, <1>13, <1>14
  DEF Next, ServerStep, CallerStep

(* The descriptor in work is one of a connection. *)
LEMMA NextSockIsFd == IInv /\ [Next]_vars => SockIsFd'
<1> SUFFICES ASSUME IInv, [Next]_vars
             PROVE  SockIsFd'
  OBVIOUS
<1> USE DEF IInv, TypeOK, SockIsFd, Loops, Reports
<1>1. CASE LeaveLoop
  BY <1>1 DEF LeaveLoop, After, loopVars
<1>2. CASE Accept
  BY <1>2 DEF Accept, loopVars
<1>3. CASE Report
  BY <1>3 DEF Report, Told, loopVars
<1>4. CASE InitListens \/ InitFails \/ Select \/ SelectFails \/ EnterLoop
          \/ NoTimeouts \/ AddClient \/ Refuse \/ NoKeepAlive \/ KeepAlive
          \/ KeepWrite
  BY <1>4 DEF InitListens, InitFails, Select, SelectFails, EnterLoop,
         NoTimeouts, AddClient, Refuse, NoKeepAlive, KeepAlive, KeepWrite,
         loopVars
<1>5. CASE LeaveRun \/ RemoveAllClients \/ Unconfigure \/ FreeBuf \/ Alert
  BY <1>5 DEF LeaveRun, RemoveAllClients, Unconfigure, FreeBuf, Alert,
         loopVars
<1>6. CASE Receive \/ Configure \/ Begin \/ Stop
  BY <1>6 DEF Receive, Configure, Begin, Stop, loopVars
<1>7. ASSUME NEW f \in Fds, Skip(f) \/ Parse(f) \/ RemoveClient(f)
      PROVE  SockIsFd'
  BY <1>7 DEF Skip, Visiting, Parse, RemoveClient, loopVars
<1>8. ASSUME NEW t \in Callers, SendValid(t) \/ Write(t) \/ CloseConnection(t)
             \/ Look(t)
      PROVE  SockIsFd'
  BY <1>8 DEF SendValid, Targets, Write, CloseConnection, Look, loopVars
<1>9. ASSUME NEW u \in Others, Request(u)
      PROVE  SockIsFd'
  BY <1>9 DEF Request, loopVars
<1>10. CASE UNCHANGED vars
  BY <1>10 DEF vars, loopVars
<1>11. QED
  BY <1>1, <1>2, <1>3, <1>4, <1>5, <1>6, <1>7, <1>8, <1>9, <1>10
  DEF Next, ServerStep, CallerStep

(* Clients come and go with a message each, except in RemoveAllClients. *)
LEMMA NextReports == IInv /\ [Next]_vars => ReportsFollowMap'
<1> SUFFICES ASSUME IInv, [Next]_vars
             PROVE  ReportsFollowMap'
  OBVIOUS
<1> USE TcpServerAssumption DEF IInv, TypeOK, SockIsFd, ReportsFollowMap,
        Reporting, Loops, Reports
<1>1. CASE LeaveLoop
  BY <1>1 DEF LeaveLoop, After, mapVars, loopVars, history
<1>2. ASSUME NEW f \in Fds, RemoveClient(f)
      PROVE  ReportsFollowMap'
  BY <1>2 DEF RemoveClient, Visiting, mapVars, loopVars, history,
         IteratorsStayValid
<1>3. CASE AddClient
  BY <1>3 DEF AddClient, mapVars, loopVars, history, SocketsAccountedFor
<1>4. CASE Report
  BY <1>4 DEF Report, Told, mapVars, loopVars, history
<1>5. CASE RemoveAllClients
  BY <1>5 DEF RemoveAllClients, mapVars, loopVars, history
<1>6. CASE InitListens \/ InitFails \/ Select \/ SelectFails \/ EnterLoop
          \/ NoTimeouts \/ Accept \/ Refuse \/ NoKeepAlive \/ KeepAlive
          \/ KeepWrite
  BY <1>6 DEF InitListens, InitFails, Select, SelectFails, EnterLoop,
         NoTimeouts, Accept, SocketsAccountedFor, Refuse, NoKeepAlive,
         KeepAlive, KeepWrite, mapVars, loopVars, history
<1>7. CASE LeaveRun \/ Unconfigure \/ FreeBuf \/ Alert
  BY <1>7 DEF LeaveRun, Unconfigure, FreeBuf, Alert, mapVars, loopVars,
         history
<1>8. CASE Receive \/ Configure \/ Begin \/ Stop
  BY <1>8 DEF Receive, Configure, Begin, Stop, mapVars, loopVars, history
<1>9. ASSUME NEW f \in Fds, Skip(f) \/ Parse(f)
      PROVE  ReportsFollowMap'
  BY <1>9 DEF Skip, Visiting, Parse, mapVars, loopVars, history
<1>10. ASSUME NEW t \in Callers, SendValid(t) \/ Write(t)
             \/ CloseConnection(t) \/ Look(t)
      PROVE  ReportsFollowMap'
  BY <1>10 DEF SendValid, Targets, Write, CloseConnection, Look, mapVars,
         loopVars, history
<1>11. ASSUME NEW u \in Others, Request(u)
      PROVE  ReportsFollowMap'
  BY <1>11 DEF Request, mapVars, loopVars, history
<1>12. CASE UNCHANGED vars
  BY <1>12 DEF vars, mapVars, loopVars, history
<1>13. QED
  BY <1>1, <1>2, <1>3, <1>4, <1>5, <1>6, <1>7, <1>8, <1>9, <1>10, <1>11, <1>12
  DEF Next, ServerStep, CallerStep

(* Sockets are opened and closed with the entries of the map. *)
LEMMA NextSockets == IInv /\ [Next]_vars => SocketsAccountedFor'
<1> SUFFICES ASSUME IInv, [Next]_vars
             PROVE  SocketsAccountedFor'
  OBVIOUS
<1> USE TcpServerAssumption DEF IInv, TypeOK, SockIsFd, SocketsAccountedFor,
        Loops, Reports, Running, ExitSteps, PCs
<1>1. CASE InitListens
  BY <1>1 DEF InitListens, mapVars, loopVars
<1>2. CASE LeaveLoop
  BY <1>2 DEF LeaveLoop, After, mapVars, loopVars
<1>3. ASSUME NEW f \in Fds, RemoveClient(f)
      PROVE  SocketsAccountedFor'
  BY <1>3 DEF RemoveClient, Visiting, mapVars, loopVars
<1>4. CASE Accept
  BY <1>4 DEF Accept, mapVars, loopVars
<1>5. CASE AddClient
  BY <1>5 DEF AddClient, mapVars, loopVars
<1>6. CASE Refuse
  BY <1>6 DEF Refuse, mapVars, loopVars
<1>7. CASE Report
  BY <1>7 DEF Report, Told, mapVars, loopVars
<1>8. CASE LeaveRun
  BY <1>8 DEF LeaveRun, mapVars, loopVars
<1>9. CASE RemoveAllClients
  BY <1>9 DEF RemoveAllClients, mapVars, loopVars
<1>10. CASE InitFails \/ Select \/ SelectFails \/ EnterLoop \/ NoTimeouts
          \/ NoKeepAlive \/ KeepAlive \/ KeepWrite
  BY <1>10 DEF InitFails, Select, SelectFails, EnterLoop, NoTimeouts,
         NoKeepAlive, KeepAlive, KeepWrite, mapVars, loopVars
<1>11. CASE Unconfigure \/ FreeBuf \/ Alert
  BY <1>11 DEF Unconfigure, FreeBuf, Alert, mapVars, loopVars
<1>12. CASE Receive \/ Configure \/ Begin \/ Stop
  BY <1>12 DEF Receive, Configure, Begin, Stop, mapVars, loopVars
<1>13. ASSUME NEW f \in Fds, Skip(f) \/ Parse(f)
      PROVE  SocketsAccountedFor'
  BY <1>13 DEF Skip, Visiting, Parse, mapVars, loopVars
<1>14. ASSUME NEW t \in Callers, SendValid(t) \/ Write(t)
             \/ CloseConnection(t) \/ Look(t)
      PROVE  SocketsAccountedFor'
  BY <1>14 DEF SendValid, Targets, Write, CloseConnection, Look, mapVars,
         loopVars
<1>15. ASSUME NEW u \in Others, Request(u)
      PROVE  SocketsAccountedFor'
  BY <1>15 DEF Request, mapVars, loopVars
<1>16. CASE UNCHANGED vars
  BY <1>16 DEF vars, mapVars, loopVars
<1>17. QED
  BY <1>1, <1>2, <1>3, <1>4, <1>5, <1>6, <1>7, <1>8, <1>9, <1>10, <1>11,
     <1>12, <1>13, <1>14, <1>15, <1>16
  DEF Next, ServerStep, CallerStep

(* While a Send writes it has the mutex, and no socket is closed. *)
LEMMA NextWriteHitsClient == IInv /\ [Next]_vars => WriteHitsClient'
<1> SUFFICES ASSUME IInv, [Next]_vars
             PROVE  WriteHitsClient'
  OBVIOUS
<1> USE TcpServerAssumption DEF IInv, TypeOK, MutexHeld, WriteHitsClient,
        Callers
<1>1. ASSUME NEW f \in Fds, RemoveClient(f)
      PROVE  WriteHitsClient'
  BY <1>1 DEF RemoveClient, Visiting, mapVars
<1>2. CASE AddClient
  BY <1>2 DEF AddClient, mapVars
<1>3. CASE Refuse
  BY <1>3 DEF Refuse, mapVars, SocketsAccountedFor
<1>4. CASE LeaveRun
  BY <1>4 DEF LeaveRun, mapVars
<1>5. CASE RemoveAllClients
  BY <1>5 DEF RemoveAllClients, mapVars
<1>6. ASSUME NEW t \in Callers, SendValid(t)
      PROVE  WriteHitsClient'
  BY <1>6 DEF SendValid, Targets, mapVars, NoCall, Targets,
         SocketsAccountedFor
<1>7. ASSUME NEW t \in Callers, Write(t)
      PROVE  WriteHitsClient'
  BY <1>7 DEF Write, mapVars, NoCall
<1>8. CASE InitListens \/ InitFails \/ Select \/ SelectFails \/ EnterLoop
          \/ NoTimeouts \/ LeaveLoop \/ Accept \/ Report \/ NoKeepAlive
          \/ KeepAlive \/ KeepWrite
  BY <1>8 DEF InitListens, InitFails, Select, SelectFails, EnterLoop,
         NoTimeouts, LeaveLoop, After, Accept, Report, Told, NoKeepAlive,
         KeepAlive, KeepWrite, mapVars
<1>9. CASE Unconfigure \/ FreeBuf \/ Alert
  BY <1>9 DEF Unconfigure, FreeBuf, Alert, mapVars
<1>10. CASE Receive \/ Configure \/ Begin \/ Stop
  BY <1>10 DEF Receive, NoCall, Requests, Configure, Begin, Stop, mapVars
<1>11. ASSUME NEW f \in Fds, Skip(f) \/ Parse(f)
      PROVE  WriteHitsClient'
  BY <1>11 DEF Skip, Visiting, Parse, mapVars
<1>12. ASSUME NEW t \in Callers, CloseConnection(t) \/ Look(t)
      PROVE  WriteHitsClient'
  BY <1>12 DEF CloseConnection, NoCall, Look, mapVars
<1>13. ASSUME NEW u \in Others, Request(u)
      PROVE  WriteHitsClient'
  BY <1>13 DEF Request, NoCall, Requests, mapVars
<1>14. CASE UNCHANGED vars
  BY <1>14 DEF vars, mapVars
<1>15. QED
  BY <1>1, <1>2, <1>3, <1>4, <1>5, <1>6, <1>7, <1>8, <1>9, <1>10, <1>11,
     <1>12, <1>13, <1>14
  DEF Next, ServerStep, CallerStep

(* A loop removes the client it visits and no other. *)
LEMMA NextIterators == IInv /\ [Next]_vars => IteratorsStayValid'
<1> SUFFICES ASSUME IInv, [Next]_vars
             PROVE  IteratorsStayValid'
  OBVIOUS
<1> USE TcpServerAssumption DEF IInv, TypeOK, MutexHeld, IteratorsStayValid,
        Callers, Loops, Holding
<1>1. CASE EnterLoop
  BY <1>1 DEF EnterLoop, mapVars, loopVars
<1>2. ASSUME NEW f \in Fds, RemoveClient(f)
      PROVE  IteratorsStayValid'
  BY <1>2 DEF RemoveClient, Visiting, mapVars, loopVars
<1>3. CASE AddClient
  BY <1>3 DEF AddClient, mapVars, loopVars
<1>4. CASE Report
  BY <1>4 DEF Report, Told, mapVars, loopVars, Reports
<1>5. CASE RemoveAllClients
  BY <1>5 DEF RemoveAllClients, mapVars, loopVars
<1>6. ASSUME NEW t \in Callers, SendValid(t)
      PROVE  IteratorsStayValid'
  BY <1>6 DEF SendValid, Targets, mapVars, loopVars
<1>7. ASSUME NEW t \in Callers, Write(t)
      PROVE  IteratorsStayValid'
  BY <1>7 DEF Write, mapVars, loopVars
<1>8. CASE InitListens \/ InitFails \/ Select \/ SelectFails \/ NoTimeouts
          \/ LeaveLoop \/ Accept \/ Refuse \/ NoKeepAlive \/ KeepAlive
          \/ KeepWrite
  BY <1>8 DEF InitListens, InitFails, Select, SelectFails, NoTimeouts,
         LeaveLoop, After, Accept, Refuse, NoKeepAlive, KeepAlive, KeepWrite,
         mapVars, loopVars
<1>9. CASE LeaveRun \/ Unconfigure \/ FreeBuf \/ Alert
  BY <1>9 DEF LeaveRun, Unconfigure, FreeBuf, Alert, mapVars, loopVars
<1>10. CASE Receive \/ Configure \/ Begin \/ Stop
  BY <1>10 DEF Receive, Configure, Begin, Stop, mapVars, loopVars
<1>11. ASSUME NEW f \in Fds, Skip(f) \/ Parse(f)
      PROVE  IteratorsStayValid'
  BY <1>11 DEF Skip, Visiting, Parse, mapVars, loopVars
<1>12. ASSUME NEW t \in Callers, CloseConnection(t) \/ Look(t)
      PROVE  IteratorsStayValid'
  BY <1>12 DEF CloseConnection, Look, mapVars, loopVars
<1>13. ASSUME NEW u \in Others, Request(u)
      PROVE  IteratorsStayValid'
  BY <1>13 DEF Request, mapVars, loopVars
<1>14. CASE UNCHANGED vars
  BY <1>14 DEF vars, mapVars, loopVars
<1>15. QED
  BY <1>1, <1>2, <1>3, <1>4, <1>5, <1>6, <1>7, <1>8, <1>9, <1>10, <1>11,
     <1>12, <1>13, <1>14
  DEF Next, ServerStep, CallerStep

(* The invariant holds in every reachable state. *)
THEOREM Invariance == Spec => []IInv
<1>1. IInv /\ [Next]_vars => IInv'
  BY NextTypeOK, NextMutexHeld, NextSockIsFd, NextReports, NextSockets,
     NextWriteHitsClient, NextIterators
  DEF IInv
<1>2. QED
  BY InitIInv, <1>1, PTL DEF Spec

(* Every variable keeps its type; the parent's queue stays within its size. *)
THEOREM TypeCorrect == Spec => []TypeOK
  BY Invariance, PTL DEF IInv

(* The parent is told of each client's coming and going, in this order, once,
   unless Exit drops the client. *)
THEOREM ReportsSafe == Spec => []ReportsFollowMap
  BY Invariance, PTL DEF IInv

(* No socket leaks and none is forgotten by select. *)
THEOREM SocketsSafe == Spec => []SocketsAccountedFor
  BY Invariance, PTL DEF IInv

(* A Send writes to sockets of clients only. *)
THEOREM WritesSafe == Spec => []WriteHitsClient
  BY Invariance, PTL DEF IInv

(* The loops over the map never visit a client that was removed. *)
THEOREM IteratorsSafe == Spec => []IteratorsStayValid
  BY Invariance, PTL DEF IInv

-----------------------------------------------------------------------------
(* What the parent may rely on *)

(* Received data is reported of a client, after its connection was reported and
   before its end is. *)
DataOfClients == pc = "data" => sock \in (clients \cap told) \ orphans

THEOREM DataSafe == Spec => []DataOfClients
<1>1. Init => DataOfClients
  BY DEF Init, DataOfClients
<1>2. IInv /\ DataOfClients /\ [Next]_vars => DataOfClients'
  <2> SUFFICES ASSUME IInv, DataOfClients, [Next]_vars, pc' = "data"
               PROVE  sock' \in (clients' \cap told') \ orphans'
    BY DEF DataOfClients
  <2> USE TcpServerAssumption DEF IInv, TypeOK
  <2>1. ASSUME NEW f \in Fds, Parse(f)
        PROVE  sock' \in (clients' \cap told') \ orphans'
    BY <2>1 DEF Parse, Visiting, Loops, IteratorsStayValid, ReportsFollowMap,
       Reporting, mapVars, history
  <2>2. CASE pc = "data"
    <3>1. m_semClientMap = Server /\ Server # NoThread
      BY <2>2 DEF MutexHeld, Holding
    <3>2. ASSUME NEW t \in Callers, CallerStep(t)
          PROVE  sock' \in (clients' \cap told') \ orphans'
      BY <2>2, <3>1, <3>2 DEF CallerStep, SendValid, Write, CloseConnection,
         Look, MutexHeld, Callers, DataOfClients, mapVars, history, loopVars
    <3>3. CASE Receive \/ Configure \/ Begin \/ Stop
      BY <2>2, <3>3 DEF Receive, Configure, Begin, Stop, DataOfClients,
         mapVars, history, loopVars
    <3>4. ASSUME NEW u \in Others, Request(u)
          PROVE  sock' \in (clients' \cap told') \ orphans'
      BY <2>2, <3>4 DEF Request, DataOfClients, mapVars, history, loopVars
    <3>5. ~ServerStep
      BY <2>2, <3>1 DEF ServerStep, InitListens, InitFails, Select,
         SelectFails, EnterLoop, NoTimeouts, LeaveLoop, Skip, Parse,
         RemoveClient, Visiting, Loops, Accept, AddClient, Refuse, Report,
         NoKeepAlive, KeepAlive, KeepWrite, LeaveRun, RemoveAllClients,
         Unconfigure, FreeBuf, Alert
    <3>6. CASE UNCHANGED vars
      BY <2>2, <3>6 DEF vars, DataOfClients, mapVars, history, loopVars
    <3>7. QED
      BY <3>2, <3>3, <3>4, <3>5, <3>6 DEF Next
  <2>3. CASE pc # "data" /\ \A f \in Fds : ~Parse(f)
    <3>1. ASSUME NEW t \in Callers
          PROVE  ~CallerStep(t)
      BY <2>3 DEF CallerStep, SendValid, Write, CloseConnection, Look
    <3>2. ~ServerStep
      BY <2>3 DEF ServerStep, InitListens, InitFails, Select, SelectFails,
         EnterLoop, NoTimeouts, LeaveLoop, After, Skip, RemoveClient, Visiting,
         Loops, Accept, AddClient, Refuse, Report, NoKeepAlive, KeepAlive,
         KeepWrite, LeaveRun, RemoveAllClients, Unconfigure, FreeBuf, Alert
    <3>3. QED
      BY <2>3, <3>1, <3>2 DEF Next, Receive, Configure, Begin, Stop, Request,
         vars
  <2>4. QED
    BY <2>1, <2>2, <2>3
<1>3. QED
  BY <1>1, <1>2, Invariance, PTL DEF Spec

(* A server that has been configured once has a parent ever after: the call
   through a null m_pParentTask happens to servers that never were. *)
THEOREM CrashOnlyUnconfigured ==
  Spec => [](m_bConfigured /\ pc # "crashed" => [](pc # "crashed"))
<1>1. Init => (m_bConfigured => m_pParentTask)
  BY DEF Init
<1>2. ASSUME [Next]_vars
      PROVE  Configure \/ Unconfigure \/ UNCHANGED <<m_bConfigured, m_pParentTask>>
  BY <1>2 DEF Next, ServerStep, InitListens, InitFails, Select, SelectFails,
     EnterLoop, NoTimeouts, LeaveLoop, Skip, Parse, RemoveClient, Accept,
     AddClient, Refuse, Report, NoKeepAlive, KeepAlive, KeepWrite, LeaveRun,
     RemoveAllClients, FreeBuf, Alert, CallerStep, SendValid, Write,
     CloseConnection, Look, Receive, Begin, Stop, Request, configVars, vars
<1>3. (m_bConfigured => m_pParentTask) /\ [Next]_vars
        => (m_bConfigured => m_pParentTask)'
  BY <1>2 DEF Configure, Unconfigure
<1>4. IInv /\ m_pParentTask /\ pc # "crashed" /\ [Next]_vars
        => m_pParentTask' /\ (pc # "crashed")'
  <2> SUFFICES ASSUME IInv, m_pParentTask, pc # "crashed", [Next]_vars
               PROVE  m_pParentTask' /\ pc' # "crashed"
    OBVIOUS
  <2>1. m_pParentTask'
    BY <1>2 DEF Configure, Unconfigure
  <2>2. pc' # "crashed"
    BY DEF IInv, TypeOK, Loops, Next, ServerStep, InitListens, InitFails,
       Select, SelectFails, EnterLoop, NoTimeouts, LeaveLoop, After, Skip,
       Parse, RemoveClient, Visiting, Accept, AddClient, Refuse, Report,
       NoKeepAlive, KeepAlive, KeepWrite, LeaveRun, RemoveAllClients,
       Unconfigure, FreeBuf, Alert, CallerStep, SendValid, Write,
       CloseConnection, Look, Receive, Configure, Begin, Stop, Request, vars
  <2>3. QED
    BY <2>1, <2>2
<1>5. QED
  BY <1>1, <1>3, <1>4, Invariance, PTL DEF Spec

-----------------------------------------------------------------------------
(* What never ends *)

(* Everybody else waits for one of the two: what may still happen is that
   others begin to wait as well, and that the server is told to stop. *)
LEMMA DeadlockRests ==
  ASSUME IInv, Deadlocked, [Next]_vars
  PROVE  /\ UNCHANGED <<pc, pending, mapVars, m_semClientMap>>
         /\ \A t \in Callers : Waiting(t) => call'[t] = call[t]
<1> USE TcpServerAssumption DEF IInv, Deadlocked
<1>1. m_semClientMap = Server /\ Server # NoThread
  BY DEF MutexHeld, Holding
<1>2. ~ServerStep
  BY <1>1 DEF ServerStep, InitListens, InitFails, Select, SelectFails,
     EnterLoop, NoTimeouts, LeaveLoop, Skip, Parse, RemoveClient, Visiting,
     Loops, Accept, AddClient, Refuse, Report, NoKeepAlive, KeepAlive,
     KeepWrite, LeaveRun, RemoveAllClients, Unconfigure, FreeBuf, Alert
<1>3. ASSUME NEW t \in Callers
      PROVE  ~CallerStep(t)
  <2>1. call[t].at # "write"
    BY <1>1 DEF MutexHeld, Callers
  <2>2. QED
    BY <1>1, <2>1 DEF CallerStep, SendValid, Write, CloseConnection, Look
<1>4. ~Receive /\ ~Begin
  BY DEF Receive, Begin, Waiting, NoCall
<1>5. CASE Configure \/ Stop
  BY <1>5 DEF Configure, Stop
<1>6. ASSUME NEW u \in Others, Request(u)
      PROVE  /\ UNCHANGED <<pc, pending, mapVars, m_semClientMap>>
             /\ \A t \in Callers : Waiting(t) => call'[t] = call[t]
  <2>1. ~Waiting(u)
    BY <1>6 DEF Request, Waiting, NoCall
  <2>2. QED
    BY <1>6, <2>1 DEF Request, TypeOK
<1>7. CASE UNCHANGED vars
  BY <1>7 DEF vars
<1>8. QED
  BY <1>2, <1>3, <1>4, <1>5, <1>6, <1>7 DEF Next

(* A server that has a disconnect or data to report when the parent's queue is
   full, while a handler of the parent calls Send, CloseConnection or a look-up
   of the server, waits for ever, and so does the parent: no Stop and no timeout
   gets them out. *)
THEOREM DeadlockIsForever == Spec => [](Deadlocked => []Deadlocked)
<1>1. IInv /\ Deadlocked /\ [Next]_vars => Deadlocked'
  BY DeadlockRests DEF Deadlocked, Waiting, Callers
<1>2. QED
  BY <1>1, Invariance, PTL DEF Spec

(* Every other thread that calls the server then waits for ever, too. *)
THEOREM CallersWaitForever ==
  ASSUME NEW t \in Callers
  PROVE  Spec => [](Deadlocked /\ Waiting(t) => []Waiting(t))
<1>1. IInv /\ Deadlocked /\ Waiting(t) /\ [Next]_vars
        => Deadlocked' /\ Waiting(t)'
  BY DeadlockRests DEF Deadlocked, Waiting, Callers
<1>2. QED
  BY <1>1, Invariance, PTL DEF Spec

(* And what CloseConnection marked stays open. *)
THEOREM MarkedForever ==
  ASSUME NEW f \in Fds
  PROVE  Spec => [](Deadlocked /\ f \in marked => [](f \in marked \cap open))
<1>1. IInv /\ Deadlocked /\ f \in marked /\ [Next]_vars
        => Deadlocked' /\ (f \in marked)'
  BY DeadlockRests DEF Deadlocked, Waiting, Callers, mapVars
<1>2. IInv /\ f \in marked => f \in marked \cap open
  BY DEF IInv, TypeOK, SocketsAccountedFor
<1>3. QED
  BY <1>1, <1>2, Invariance, PTL DEF Spec
=============================================================================
