------------------------------ MODULE TcpServer ------------------------------
(***************************************************************************)
(* CAefTcpServer (aefTcpServer.cpp): one thread accepts connections, reads *)
(* from them, times them out, and reports each that comes or goes to the   *)
(* queue of a parent task.  Other threads, the parent's among them, send   *)
(* to connections and ask to close them, by descriptor.                    *)
(*                                                                         *)
(* The mutex m_semClientMap guards the client map.  The server's thread    *)
(* holds it over each of its loops, and so over the SendMessage of a       *)
(* disconnect or of received data, which waits while the parent's queue is *)
(* full.  A loop visits the clients it found, in any order.                *)
(*                                                                         *)
(* The thread's life is that of CAefTask (module TaskLife): one thread at  *)
(* a time is between Begin and "off".                                      *)
(***************************************************************************)
EXTENDS Naturals, FiniteSets

CONSTANTS Fds,            \* descriptors accept can return
          Listen,         \* m_sockListen's descriptor
          Server,         \* the server's thread
          Parent,         \* the thread of m_pParentTask
          Others,         \* further threads that use the object
          NoThread,       \* nobody holds the mutex
          MaxConnections, \* m_MaxConnections
          QCap            \* MAX_MQ_QUEUE_MESSAGES of the parent's queue

Callers == Others \cup {Parent}

ASSUME TcpServerAssumption ==
  /\ Listen \notin Fds
  /\ Parent \notin Others
  /\ Server \notin Callers
  /\ NoThread \notin Callers \cup {Server}
  /\ IsFiniteSet(Fds)
  /\ MaxConnections \in Nat
  /\ QCap \in Nat

VARIABLES
  clients,         \* the descriptors in m_ClientMap
  marked,          \* those with bDelete set
  m_setSelect,     \* the descriptors select watches
  open,            \* the sockets the kernel has for the server
  m_semClientMap,  \* the holder of the mutex
  m_bTaskRunning, m_bConfigured,
  m_pBuf,          \* whether there is a receive buffer
  m_pParentTask,   \* whether the parent is known
  m_exitReason,    \* whether Run ended because select failed
  pc,              \* where the server's thread is
  ready,           \* selSet after select
  loop, todo,      \* the loop it returns to; the clients still to visit in it
  sock,            \* the descriptor it works on
  pending,         \* the number of messages in the parent's queue
  call,            \* what each other thread is doing
  told,            \* connections reported to the parent, and not reported gone
  orphans          \* those of them that RemoveAllClients dropped

mapVars    == <<clients, marked, m_setSelect, open>>
configVars == <<m_bConfigured, m_pBuf, m_pParentTask>>
loopVars   == <<ready, loop, todo, sock>>
history    == <<told, orphans>>
vars == <<mapVars, m_semClientMap, m_bTaskRunning, configVars, m_exitReason,
          pc, loopVars, pending, call, history>>

Loops     == {"marked", "receive", "timeouts"}
Reports   == {"connect", "disconnect", "data"}
Running   == Loops \cup Reports \cup {"select", "accept", "add", "keepAlive",
                                      "keepWrite"}
ExitSteps == {"drop", "unconfigure", "freeBuf", "alert"}
PCs       == Running \cup ExitSteps \cup {"off", "init", "leave", "crashed"}

\* The calls of other threads: Send to one connection or to all,
\* CloseConnection, and those that only look into the map (ClientGetCount,
\* GetClientInfo, SetQos).  "write" is a Send that holds the mutex.
NoCall   == [at |-> "none", fds |-> {}]
Requests == [at : {"send", "close"}, fds : {{f} : f \in Fds}]
            \cup [at : {"send", "look"}, fds : {Fds}]

\* Run and Exit of a server that was never configured have no parent and no
\* buffer; m_exitReason has no initial value.
Init ==
  /\ clients = {} /\ marked = {}
  /\ m_setSelect = {} /\ open = {}
  /\ m_semClientMap = NoThread
  /\ m_bTaskRunning = FALSE
  /\ m_bConfigured = FALSE /\ m_pBuf = FALSE /\ m_pParentTask = FALSE
  /\ m_exitReason \in BOOLEAN
  /\ pc = "off"
  /\ ready = {} /\ loop = "marked" /\ todo = {} /\ sock = Listen
  /\ pending = 0
  /\ call = [t \in Callers |-> NoCall]
  /\ told = {} /\ orphans = {}

-----------------------------------------------------------------------------
(* Configure, Start and Stop; time; callers *)

Configure ==
  /\ ~m_bConfigured
  /\ m_bConfigured' = TRUE /\ m_pBuf' = TRUE /\ m_pParentTask' = TRUE
  /\ UNCHANGED <<mapVars, m_semClientMap, m_bTaskRunning, m_exitReason, pc,
                 loopVars, pending, call, history>>

Begin ==
  /\ pc = "off"
  /\ m_bTaskRunning' = TRUE
  /\ pc' = "init"
  /\ UNCHANGED <<mapVars, m_semClientMap, configVars, m_exitReason, loopVars,
                 pending, call, history>>

Stop ==
  /\ m_bTaskRunning
  /\ m_bTaskRunning' = FALSE
  /\ UNCHANGED <<mapVars, m_semClientMap, configVars, m_exitReason, pc,
                 loopVars, pending, call, history>>

\* A thread other than the parent's calls at any time, with the ID of a
\* connection that may have ended.
Request(t) ==
  /\ t \in Others
  /\ call[t] = NoCall
  /\ \E r \in Requests : call' = [call EXCEPT ![t] = r]
  /\ UNCHANGED <<mapVars, m_semClientMap, m_bTaskRunning, configVars,
                 m_exitReason, pc, loopVars, pending, history>>

\* The parent takes a message; its handler may make a call.
Receive ==
  /\ call[Parent] = NoCall
  /\ pending > 0
  /\ pending' = pending - 1
  /\ \E r \in Requests \cup {NoCall} : call' = [call EXCEPT ![Parent] = r]
  /\ UNCHANGED <<mapVars, m_semClientMap, m_bTaskRunning, configVars,
                 m_exitReason, pc, loopVars, history>>

-----------------------------------------------------------------------------
(* Send, CloseConnection and the rest, by other threads *)

\* The connections a Send will write to, once it has the mutex.
Targets(t) == IF m_bConfigured THEN call[t].fds \cap clients ELSE {}

\* A SendSocket that gives the mutex back between IsValidSocket and write.
SendValid_Unlocked(t) ==
  /\ call[t].at = "send"
  /\ m_semClientMap = NoThread
  /\ call' = [call EXCEPT ![t] = IF Targets(t) = {} THEN NoCall
                                 ELSE [at |-> "write", fds |-> Targets(t)]]
  /\ UNCHANGED <<mapVars, m_semClientMap, m_bTaskRunning, configVars,
                 m_exitReason, pc, loopVars, pending, history>>

\* A SendSocket that returns with the mutex when the socket is not valid.
SendValid_KeepsMutex(t) ==
  /\ call[t].at = "send"
  /\ m_semClientMap = NoThread
  /\ m_semClientMap' = t
  /\ call' = [call EXCEPT ![t] = IF Targets(t) = {} THEN NoCall
                                 ELSE [at |-> "write", fds |-> Targets(t)]]
  /\ UNCHANGED <<mapVars, m_bTaskRunning, configVars, m_exitReason, pc,
                 loopVars, pending, history>>

\* The lock and the look-up; a Send with nobody to write to returns.
SendValid(t) ==
  /\ call[t].at = "send"
  /\ m_semClientMap = NoThread
  /\ IF Targets(t) = {}
       THEN /\ call' = [call EXCEPT ![t] = NoCall]
            /\ UNCHANGED m_semClientMap
       ELSE /\ call' = [call EXCEPT ![t] =
                          [at |-> "write", fds |-> Targets(t)]]
            /\ m_semClientMap' = t
  /\ UNCHANGED <<mapVars, m_bTaskRunning, configVars, m_exitReason, pc,
                 loopVars, pending, history>>

\* The writes, up to the first that fails, and the unlock.
Write(t) ==
  /\ call[t].at = "write"
  /\ call' = [call EXCEPT ![t] = NoCall]
  /\ m_semClientMap' = IF m_semClientMap = t THEN NoThread ELSE m_semClientMap
  /\ UNCHANGED <<mapVars, m_bTaskRunning, configVars, m_exitReason, pc,
                 loopVars, pending, history>>

CloseConnection(t) ==
  /\ call[t].at = "close"
  /\ m_semClientMap = NoThread
  /\ marked' = marked \cup (call[t].fds \cap clients)
  /\ call' = [call EXCEPT ![t] = NoCall]
  /\ UNCHANGED <<clients, m_setSelect, open, m_semClientMap,
                 m_bTaskRunning, configVars, m_exitReason, pc, loopVars,
                 pending, history>>

Look(t) ==
  /\ call[t].at = "look"
  /\ m_semClientMap = NoThread
  /\ call' = [call EXCEPT ![t] = NoCall]
  /\ UNCHANGED <<mapVars, m_semClientMap, m_bTaskRunning, configVars,
                 m_exitReason, pc, loopVars, pending, history>>

CallerStep(t) ==
  SendValid(t) \/ Write(t) \/ CloseConnection(t) \/ Look(t)

-----------------------------------------------------------------------------
(* The server's thread: Init and the top of Run's loop *)

\* socket, SetSocketOptions, bind, listen.
InitListens ==
  /\ pc = "init"
  /\ m_bConfigured
  /\ open' = open \cup {Listen}
  /\ m_setSelect' = {Listen}
  /\ m_exitReason' = FALSE
  /\ pc' = "select"
  /\ UNCHANGED <<clients, marked, m_semClientMap, m_bTaskRunning,
                 configVars, loopVars, pending, call, history>>

\* One of them fails, or the server is not configured: Run is not called.
InitFails ==
  /\ pc = "init"
  /\ pc' = "drop"
  /\ UNCHANGED <<mapVars, m_semClientMap, m_bTaskRunning, configVars,
                 m_exitReason, loopVars, pending, call, history>>

\* A Run that looks for marked clients only when select found something.
Select_MarkedIfReady ==
  /\ pc = "select"
  /\ m_bTaskRunning
  /\ ready' \in SUBSET m_setSelect
  /\ pc' = IF ready' = {} THEN "timeouts" ELSE "marked"
  /\ UNCHANGED <<mapVars, m_semClientMap, m_bTaskRunning, configVars,
                 m_exitReason, loop, todo, sock, pending, call, history>>

Select ==
  /\ pc = "select"
  /\ m_bTaskRunning
  /\ ready' \in SUBSET m_setSelect
  /\ pc' = "marked"
  /\ UNCHANGED <<mapVars, m_semClientMap, m_bTaskRunning, configVars,
                 m_exitReason, loop, todo, sock, pending, call, history>>

SelectFails ==
  /\ pc = "select"
  /\ m_bTaskRunning
  /\ m_bTaskRunning' = FALSE
  /\ m_exitReason' = TRUE
  /\ UNCHANGED <<mapVars, m_semClientMap, configVars, pc, loopVars, pending,
                 call, history>>

-----------------------------------------------------------------------------
(* The loops over the client map *)

\* Where the thread goes after a loop.
After(l) == CASE l = "marked"   -> IF ready = {} THEN "timeouts" ELSE "receive"
              [] l = "receive"  -> IF Listen \in ready THEN "accept"
                                                       ELSE "timeouts"
              [] l = "timeouts" -> "keepAlive"

EnterLoop ==
  /\ pc \in Loops
  /\ m_semClientMap = NoThread
  /\ m_semClientMap' = Server
  /\ todo' = clients
  /\ UNCHANGED <<mapVars, m_bTaskRunning, configVars, m_exitReason, pc, ready,
                 loop, sock, pending, call, history>>

\* ReceiveTimeoutCheck with no timeout set.
NoTimeouts ==
  /\ pc = "timeouts"
  /\ m_semClientMap # Server
  /\ pc' = "keepAlive"
  /\ UNCHANGED <<mapVars, m_semClientMap, m_bTaskRunning, configVars,
                 m_exitReason, loopVars, pending, call, history>>

LeaveLoop ==
  /\ pc \in Loops
  /\ m_semClientMap = Server
  /\ todo = {}
  /\ m_semClientMap' = NoThread
  /\ pc' = After(pc)
  /\ ready' = IF pc' \in {"receive", "accept"} THEN ready ELSE {}
  /\ UNCHANGED <<mapVars, m_bTaskRunning, configVars, m_exitReason, loop, todo,
                 sock, pending, call, history>>

\* Whether loop l may remove f.  recv returns 0 or an error whenever it likes,
\* and every time there is no buffer.  Whether LastRcv is too long ago, against
\* a timeout that SetKeepalive may change under the loop, is left open.
MayRemove(l, f) ==
  CASE l = "marked"   -> f \in marked
    [] l = "receive"  -> f \in ready
    [] l = "timeouts" -> TRUE

MayKeep(l, f) ==
  CASE l = "marked"   -> f \notin marked
    [] l = "receive"  -> f \notin ready \/ m_pBuf
    [] l = "timeouts" -> TRUE

Visiting(f) == /\ pc \in Loops
               /\ m_semClientMap = Server
               /\ f \in todo

\* Nothing to do for f, or part of a packet.
Skip(f) ==
  /\ Visiting(f)
  /\ MayKeep(pc, f)
  /\ todo' = todo \ {f}
  /\ UNCHANGED <<mapVars, m_semClientMap, m_bTaskRunning, configVars,
                 m_exitReason, pc, ready, loop, sock, pending, call, history>>

\* ParseData completes a packet and sends it to the parent.
Parse(f) ==
  /\ Visiting(f)
  /\ pc = "receive" /\ f \in ready /\ m_pBuf
  /\ todo' = todo \ {f}
  /\ sock' = f
  /\ loop' = pc /\ pc' = "data"
  /\ UNCHANGED <<mapVars, m_semClientMap, m_bTaskRunning, configVars,
                 m_exitReason, ready, pending, call, history>>

\* A loop that steps its iterator after the removal.
RemoveClient_ThenAdvance(f) ==
  /\ Visiting(f)
  /\ MayRemove(pc, f)
  /\ clients' = clients \ {f}
  /\ marked' = marked \ {f}
  /\ open' = open \ {f}
  /\ m_setSelect' = m_setSelect \ {f}
  /\ sock' = f
  /\ loop' = pc /\ pc' = "disconnect"
  /\ UNCHANGED <<m_semClientMap, m_bTaskRunning, configVars, m_exitReason,
                 ready, todo, pending, call, history>>

\* RemoveClient up to the message.  The mutex is held throughout.
RemoveClient(f) ==
  /\ Visiting(f)
  /\ MayRemove(pc, f)
  /\ todo' = todo \ {f}
  /\ clients' = clients \ {f}
  /\ marked' = marked \ {f}
  /\ open' = open \ {f}
  /\ m_setSelect' = m_setSelect \ {f}
  /\ sock' = f
  /\ loop' = pc /\ pc' = "disconnect"
  /\ UNCHANGED <<m_semClientMap, m_bTaskRunning, configVars, m_exitReason,
                 ready, pending, call, history>>

-----------------------------------------------------------------------------
(* New connections *)

Accept ==
  /\ pc = "accept"
  /\ \/ \E f \in Fds \ open :
          /\ open' = open \cup {f}
          /\ sock' = f
          /\ pc' = "add"
     \/ /\ pc' = "timeouts"  \* accept fails
        /\ UNCHANGED <<open, sock>>
  /\ ready' = {}
  /\ UNCHANGED <<clients, marked, m_setSelect, m_semClientMap,
                 m_bTaskRunning, configVars, m_exitReason, loop, todo, pending,
                 call, history>>

AddClient ==
  /\ pc = "add"
  /\ m_semClientMap = NoThread
  /\ Cardinality(clients) < MaxConnections
  /\ clients' = clients \cup {sock}
  /\ m_setSelect' = m_setSelect \cup {sock}
  /\ loop' = "timeouts" /\ pc' = "connect"
  /\ orphans' = orphans \ {sock}
  /\ UNCHANGED <<marked, open, m_semClientMap, m_bTaskRunning,
                 configVars, m_exitReason, ready, todo, sock, pending, call,
                 told>>

\* A refusal that does not close the new socket.
Refuse_KeepsSocket ==
  /\ pc = "add"
  /\ m_semClientMap = NoThread
  /\ pc' = "timeouts"
  /\ UNCHANGED <<mapVars, m_semClientMap, m_bTaskRunning, configVars,
                 m_exitReason, loopVars, pending, call, history>>

\* A refusal that is reported as a connection.
Refuse_Reported ==
  /\ pc = "add"
  /\ m_semClientMap = NoThread
  /\ open' = open \ {sock}
  /\ loop' = "timeouts" /\ pc' = "connect"
  /\ UNCHANGED <<clients, marked, m_setSelect, m_semClientMap,
                 m_bTaskRunning, configVars, m_exitReason, ready, todo, sock,
                 pending, call, history>>

\* There are MaxConnections clients, or SetSocketOptions fails.
Refuse ==
  /\ pc = "add"
  /\ m_semClientMap = NoThread
  /\ open' = open \ {sock}
  /\ pc' = "timeouts" /\ sock' = Listen
  /\ UNCHANGED <<clients, marked, m_setSelect, m_semClientMap,
                 m_bTaskRunning, configVars, m_exitReason, ready, loop, todo,
                 pending, call, history>>

-----------------------------------------------------------------------------
(* Messages to the parent, and keep-alive messages to the clients *)

\* The parent's knowledge after the message.
Told == (told \cup IF pc = "connect" THEN {sock} ELSE {})
            \ IF pc = "disconnect" THEN {sock} ELSE {}

\* A SendMessage into a full queue.
Report_OffByOne ==
  /\ pc \in Reports
  /\ pending \leq QCap
  /\ pending' = pending + 1
  /\ told' = Told
  /\ pc' = loop
  /\ loop' = "marked" /\ sock' = Listen
  /\ UNCHANGED <<mapVars, m_semClientMap, m_bTaskRunning, configVars,
                 m_exitReason, ready, todo, call, orphans>>

\* SendMessage waits for room in the queue, with the mutex held unless a
\* connection is reported.  (loop and sock, which nothing reads any more, are
\* reset.)
Report ==
  /\ pc \in Reports
  /\ pending < QCap
  /\ pending' = pending + 1
  /\ told' = Told
  /\ pc' = loop
  /\ loop' = "marked" /\ sock' = Listen
  /\ UNCHANGED <<mapVars, m_semClientMap, m_bTaskRunning, configVars,
                 m_exitReason, ready, todo, call, orphans>>

\* No message is due, or there is nobody to send it to.
NoKeepAlive ==
  /\ pc = "keepAlive"
  /\ pc' = "select"
  /\ UNCHANGED <<mapVars, m_semClientMap, m_bTaskRunning, configVars,
                 m_exitReason, loopVars, pending, call, history>>

KeepAlive ==
  /\ pc = "keepAlive"
  /\ m_bConfigured /\ clients # {}
  /\ m_semClientMap = NoThread
  /\ m_semClientMap' = Server
  /\ pc' = "keepWrite"
  /\ UNCHANGED <<mapVars, m_bTaskRunning, configVars, m_exitReason, loopVars,
                 pending, call, history>>

KeepWrite ==
  /\ pc = "keepWrite"
  /\ m_semClientMap' = NoThread
  /\ pc' = "select"
  /\ UNCHANGED <<mapVars, m_bTaskRunning, configVars, m_exitReason, loopVars,
                 pending, call, history>>

-----------------------------------------------------------------------------
(* The end of Run, and Exit *)

LeaveRun ==
  /\ pc = "select"
  /\ ~m_bTaskRunning
  /\ open' = open \ {Listen}
  /\ m_setSelect' = {}
  /\ pc' = "drop"
  /\ UNCHANGED <<clients, marked, m_semClientMap, m_bTaskRunning,
                 configVars, m_exitReason, loopVars, pending, call, history>>

\* The parent is not told.
RemoveAllClients ==
  /\ pc = "drop"
  /\ m_semClientMap = NoThread
  /\ clients' = {} /\ marked' = {}
  /\ open' = open \ clients
  /\ m_setSelect' = m_setSelect \ clients
  /\ orphans' = orphans \cup clients
  /\ pc' = "unconfigure"
  /\ UNCHANGED <<m_semClientMap, m_bTaskRunning, configVars, m_exitReason,
                 loopVars, pending, call, told>>

Unconfigure ==
  /\ pc = "unconfigure"
  /\ m_bConfigured' = FALSE
  /\ pc' = "freeBuf"
  /\ UNCHANGED <<mapVars, m_semClientMap, m_bTaskRunning, m_pBuf,
                 m_pParentTask, m_exitReason, loopVars,
                 pending, call, history>>

\* Deletes the buffer of a Configure that came in between, too.
FreeBuf ==
  /\ pc = "freeBuf"
  /\ m_pBuf' = FALSE
  /\ pc' = IF m_exitReason THEN "alert" ELSE "off"
  /\ UNCHANGED <<mapVars, m_semClientMap, m_bTaskRunning, m_bConfigured,
                 m_pParentTask, m_exitReason, loopVars,
                 pending, call, history>>

\* The message m_ShutdownId; a null m_pParentTask is dereferenced.
Alert ==
  /\ pc = "alert"
  /\ IF m_pParentTask
       THEN /\ pending < QCap
            /\ pending' = pending + 1
            /\ pc' = "off"
       ELSE /\ pc' = "crashed"
            /\ UNCHANGED pending
  /\ UNCHANGED <<mapVars, m_semClientMap, m_bTaskRunning, configVars,
                 m_exitReason, loopVars, call, history>>

-----------------------------------------------------------------------------

ServerStep ==
  \/ InitListens \/ InitFails \/ Select \/ SelectFails
  \/ EnterLoop \/ NoTimeouts \/ LeaveLoop
  \/ \E f \in Fds : Skip(f) \/ Parse(f) \/ RemoveClient(f)
  \/ Accept \/ AddClient \/ Refuse \/ Report
  \/ NoKeepAlive \/ KeepAlive \/ KeepWrite
  \/ LeaveRun \/ RemoveAllClients \/ Unconfigure \/ FreeBuf \/ Alert

Next ==
  \/ ServerStep
  \/ \E t \in Callers : CallerStep(t)
  \/ Receive
  \/ Configure \/ Begin \/ Stop
  \/ \E t \in Others : Request(t)

Spec == Init /\ [][Next]_vars

\* A write to the socket of a client that does not read may block for as long
\* as the client likes, with the mutex held.
CallerProgress(t) == call[t].at # "write" /\ CallerStep(t)
ServerProgress    == pc # "keepWrite" /\ ServerStep

\* Each thread goes on if it can, unless it is in a write, and gets the mutex
\* in the end if that is free again and again.  Calls, Starts, Stops and the
\* ends of writes need not come.
FairSpec == /\ Spec
            /\ SF_vars(ServerProgress)
            /\ WF_vars(Receive)
            /\ \A t \in Callers : SF_vars(CallerProgress(t))

-----------------------------------------------------------------------------
(* Properties *)

\* The type invariant.
TypeOK ==
  /\ clients \subseteq Fds
  /\ marked \subseteq clients
  /\ m_setSelect \subseteq Fds \cup {Listen}
  /\ open \subseteq Fds \cup {Listen}
  /\ m_semClientMap \in Callers \cup {Server, NoThread}
  /\ m_bTaskRunning \in BOOLEAN /\ m_bConfigured \in BOOLEAN
  /\ m_pBuf \in BOOLEAN /\ m_pParentTask \in BOOLEAN
  /\ m_exitReason \in BOOLEAN
  /\ pc \in PCs
  /\ ready \subseteq Fds \cup {Listen}
  /\ loop \in Loops
  /\ todo \subseteq Fds
  /\ sock \in Fds \cup {Listen}
  /\ pending \in 0..QCap
  /\ call \in [Callers -> [at : {"none", "send", "close", "look", "write"},
                           fds : SUBSET Fds]]
  /\ told \subseteq Fds /\ orphans \subseteq Fds

\* The connection whose report is on its way.
Reporting == IF pc \in {"connect", "disconnect"} THEN {sock} ELSE {}

\* The connect and disconnect messages, taken in order, tell the parent which
\* clients there are: none is reported twice or gone before it came, and none
\* is forgotten, except those that Exit drops without a message.
ReportsFollowMap ==
  /\ told \ Reporting = (clients \cup orphans) \ Reporting
  /\ clients \cap orphans = {}
  /\ pc = "connect" => sock \in clients
  /\ pc = "disconnect" => sock \in told \ (clients \cup orphans)

\* Every socket is the listening one, a client's or just accepted, is closed
\* when its client leaves the map, and is watched by select exactly as long
\* as it is in the map: nothing leaks over any number of runs.
SocketsAccountedFor ==
  LET listening == IF pc \in Running THEN {Listen} ELSE {} IN
  /\ open = clients \cup listening \cup (IF pc = "add" THEN {sock} ELSE {})
  /\ pc \in Running => m_setSelect = clients \cup listening
  /\ pc = "add" => sock \notin clients
  /\ pc \notin Running \cup {"drop"} => clients = {}

\* SendSocket writes to sockets of clients: what it found in the map is still
\* there, and open, when it writes, whatever the server does meanwhile.
WriteHitsClient ==
  \A t \in Callers :
    call[t].at = "write" => call[t].fds \subseteq clients \cap open

\* The iterators of the loops stay valid: what a loop has yet to visit is in
\* the map, although clients are removed and messages awaited on the way.
IteratorsStayValid ==
  m_semClientMap = Server /\ pc # "keepWrite" => todo \subseteq clients

\* No write blocks for ever: the clients go on reading.
ClientsRead == /\ []<>(pc # "keepWrite")
               /\ \A t \in Callers : []<>(call[t].at # "write")

\* A call that needs the mutex.
Waiting(t) == call[t].at \in {"send", "close", "look"}

\* The server waits for room in the parent's queue with the map locked, and
\* the parent's handler waits for the map.
Deadlocked == /\ pc \in {"disconnect", "data"}
              /\ pending = QCap
              /\ Waiting(Parent)

\* f is closed and the parent knows, or Exit closed it and says nothing.
Closed(f) == f \notin marked /\ (f \notin told \/ f \in orphans)

\* What CloseConnection promises, as far as it goes: with clients that read, a
\* connection that was marked is closed and the parent is told that it is gone,
\* in whatever way it comes to be removed.  There are two exceptions and no
\* third: Exit, which may find it first, closes it without the message, and the
\* parent and the server may be waiting for each other (Deadlocked).
CloseCompletes ==
  ClientsRead => \A f \in Fds : (f \in marked) ~> (Closed(f) \/ Deadlocked)

\* A server that was stopped ends, with clients that read, unless it and the
\* parent wait for each other.
StopCompletes ==
  ClientsRead =>
    ((pc # "off" /\ ~m_bTaskRunning)
       ~> (pc \in {"off", "crashed"} \/ Deadlocked))

=============================================================================
