----------------------------- MODULE TimerProofs -----------------------------
(***************************************************************************)
(* Proofs about Timer: the safety properties hold for any numbers of       *)
(* addresses, handles, Fire threads and messages.                          *)
(***************************************************************************)
EXTENDS Timer, SequenceTheorems, TLAPS

\* A handle that Start has given out.
Used(h) == h \in Handles /\ h < m_TimerInstance

(* A timer in the map is reached by the same address from the map and from
   its POSIX timer, and a POSIX timer that can still expire is in the map or
   on its way there. *)
Linked ==
  /\ \A h \in Handles : m_timerMap[h] # NoAddr =>
       Used(h) /\ sival[h] = m_timerMap[h]
  /\ \A h \in armed : Used(h) /\ (m_timerMap[h] = sival[h]
                                    \/ (pc = "insert" /\ cur = h))

(* The timer that Start is making has a record of its own, and is not in the
   map yet. *)
Starting ==
  pc \in {"arm", "insert"} =>
    /\ Used(cur) /\ m_timerMap[cur] = NoAddr
    /\ sival[cur] \in allocated /\ info[sival[cur]] = cur

\* A Fire thread was given an address when it was created.
FireHasAddr == \A f \in FireIds : fire[f].pc # "none" => fire[f].addr \in Addrs

Links == RecordsOutliveTimers /\ Linked /\ Starting /\ FireHasAddr

(* Stopped timers and one-shot timers that were handled have left the map, and
   only Start could enter them again, under a handle that was never used. *)
History ==
  /\ \A h \in periodic \cup handled \cup stopped : Used(h)
  /\ \A h \in stopped : m_timerMap[h] = NoAddr
  /\ \A h \in handled \ periodic : m_timerMap[h] = NoAddr
  /\ pc \in {"arm", "insert"} => cur \notin handled \cup stopped
  /\ pc \in {"handle", "onTimer"} =>
       /\ Used(cur) /\ cur \notin stopped
       /\ cur \notin periodic => cur \notin handled
  /\ pc = "onTimer" /\ cur \notin periodic => m_timerMap[cur] = NoAddr

IInv == TypeOK /\ Links /\ History

(* A new object has no timers. *)
LEMMA InitIInv == Init => IInv
  BY TimerAssumption
  DEF Init, IInv, TypeOK, Links, History, RecordsOutliveTimers, Linked,
      Starting, FireHasAddr, Handles, Invalid, FireIds, NoFire, PCs

(* Removing timers of the map deletes no record but theirs: two timers never
   share one. *)
LEMMA RemoveKeeps ==
  ASSUME TypeOK, Links, NEW hs \in SUBSET Handles, Remove(hs),
         \A h \in hs : m_timerMap[h] # NoAddr
  PROVE  /\ RecordsOutliveTimers'
         /\ \A h \in Handles : m_timerMap'[h] =
              IF h \in hs THEN NoAddr ELSE m_timerMap[h]
         /\ \A h \in Handles \ hs :
              sival[h] \in allocated /\ info[sival[h]] = h
                => sival[h] \in allocated'
         /\ armed' = armed \ hs
<1>1. \A h \in Handles : m_timerMap'[h] =
        IF h \in hs THEN NoAddr ELSE m_timerMap[h]
  BY DEF Remove
<1>2. \A h \in Handles \ hs, a \in allocated :
        info[a] = h => a \in allocated'
  BY DEF Remove, Links, RecordsOutliveTimers, TypeOK
<1>3. RecordsOutliveTimers'
  BY <1>1, <1>2 DEF Remove, Links, RecordsOutliveTimers, TypeOK
<1>4. QED
  BY <1>1, <1>2, <1>3 DEF Remove, TypeOK

(* What the steps do to the queue: it holds what it may, and not too much. *)
LEMMA QueueSteps ==
  ASSUME NEW S, NEW q \in Seq(S), Len(q) <= QCap
  PROVE  /\ <<>> \in Seq(S) /\ Len(<<>>) <= QCap
         /\ \A e \in S : Len(q) < QCap =>
              Append(q, e) \in Seq(S) /\ Len(Append(q, e)) <= QCap
         /\ q # <<>> =>
              Head(q) \in S /\ Tail(q) \in Seq(S) /\ Len(Tail(q)) <= QCap
<1>1. <<>> \in Seq(S) /\ Len(<<>>) <= QCap
  BY EmptySeq, TimerAssumption
<1>2. \A e \in S : Len(q) < QCap =>
        Append(q, e) \in Seq(S) /\ Len(Append(q, e)) <= QCap
  BY AppendProperties, LenProperties, TimerAssumption
<1>3. q # <<>> =>
        Head(q) \in S /\ Tail(q) \in Seq(S) /\ Len(Tail(q)) <= QCap
  BY HeadTailProperties, LenProperties, TimerAssumption
<1>4. QED
  BY <1>1, <1>2, <1>3

(* No step takes a variable out of its type. *)
LEMMA NextTypeOK == IInv /\ [Next]_vars => TypeOK'
<1> SUFFICES ASSUME IInv, [Next]_vars
             PROVE  TypeOK'
  OBVIOUS
<1>q. /\ \A e \in Handles \cup {Invalid} : Len(queue) < QCap =>
           /\ Append(queue, e) \in Seq(Handles \cup {Invalid})
           /\ Len(Append(queue, e)) <= QCap
      /\ queue # <<>> =>
           /\ Head(queue) \in Handles \cup {Invalid}
           /\ Tail(queue) \in Seq(Handles \cup {Invalid})
           /\ Len(Tail(queue)) <= QCap
      /\ <<>> \in Seq(Handles \cup {Invalid}) /\ Len(<<>>) <= QCap
  BY QueueSteps DEF IInv, TypeOK
<1>6a. ASSUME NEW f \in FireIds, FireSend(f)
       PROVE  queue' \in Seq(Handles \cup {Invalid}) /\ Len(queue') <= QCap
  <2>1. fire[f].msg \in Handles \cup {Invalid}
    BY DEF IInv, TypeOK
  <2>2. QED
    BY <1>q, <1>6a, <2>1 DEF FireSend, IInv, TypeOK
<1>7a. ASSUME Receive
       PROVE  /\ cur' \in Handles \cup {Invalid}
              /\ queue' \in Seq(Handles \cup {Invalid})
              /\ Len(queue') <= QCap
  BY <1>q, <1>7a DEF Receive
<1> USE TimerAssumption DEF IInv, Handles, Invalid, PCs, FireIds
<1>1. ASSUME NEW a \in Addrs, NEW kind \in Kinds, Create(a, kind)
      PROVE  TypeOK'
  BY <1>1 DEF Create, TypeOK, historyVars
<1>2. CASE Arm
  BY <1>2 DEF Arm, TypeOK, heapVars, historyVars, Links, Starting, Used
<1>3. CASE Insert
  BY <1>3 DEF Insert, TypeOK, heapVars, kernelVars, historyVars, Links,
              Starting, Used
<1>4. ASSUME NEW h \in Handles, Expire(h)
      PROVE  TypeOK'
  BY <1>4 DEF Expire, TypeOK, heapVars, historyVars
<1>5. ASSUME NEW f \in FireIds, FireRead(f)
      PROVE  TypeOK'
  <2>1. fire[f].addr \in Addrs
    BY <1>5 DEF Links, FireHasAddr, FireRead
  <2>2. PICK h \in Read(fire[f].addr) :
          fire' = [fire EXCEPT ![f].pc = "send", ![f].msg = h]
    BY <1>5 DEF FireRead
  <2>3. h \in Handles \cup {Invalid}
    BY <2>1, <2>2 DEF Read, TypeOK
  <2>4. fire' \in [FireIds -> [pc   : {"none", "read", "send"},
                               addr : Addrs \cup {NoAddr},
                               msg  : Handles \cup {Invalid}]]
    <3> DEFINE R == [pc   : {"none", "read", "send"},
                     addr : Addrs \cup {NoAddr},
                     msg  : Handles \cup {Invalid}]
               r == [fire[f] EXCEPT !.pc = "send", !.msg = h]
    <3>1. fire \in [FireIds -> R]
      BY DEF TypeOK
    <3>2. fire' = [fire EXCEPT ![f] = r]
      BY <2>2
    <3>3. r \in R
      <4>1. fire[f] \in R
        BY <3>1
      <4>2. QED
        BY <2>3, <4>1
    <3> HIDE DEF R, r
    <3>4. fire' \in [FireIds -> R]
      BY <3>1, <3>2, <3>3
    <3>5. QED
      BY <3>4 DEF R
  <2>5. QED
    BY <1>5, <2>4 DEF FireRead, TypeOK, heapVars, kernelVars, historyVars
<1>6. ASSUME NEW f \in FireIds, FireSend(f)
      PROVE  TypeOK'
  <2>1. fire' \in [FireIds -> [pc   : {"none", "read", "send"},
                               addr : Addrs \cup {NoAddr},
                               msg  : Handles \cup {Invalid}]]
    BY <1>6 DEF FireSend, TypeOK, NoFire
  <2>2. QED
    BY <1>6, <1>6a, <2>1 DEF FireSend, TypeOK, heapVars, kernelVars, historyVars
<1>7. CASE Receive
  BY <1>7, <1>7a DEF Receive, TypeOK, heapVars, kernelVars, historyVars
<1>8. CASE Lookup
  BY <1>8 DEF Lookup, TypeOK, heapVars, kernelVars, historyVars
<1>9. CASE HandleTimer
  <2>1. CASE Remove({cur})
    BY <1>9, <2>1 DEF HandleTimer, Remove, TypeOK, historyVars
  <2>2. CASE UNCHANGED <<m_timerMap, heapVars, kernelVars>>
    BY <1>9, <2>2 DEF HandleTimer, TypeOK, heapVars, kernelVars, historyVars
  <2>3. QED
    BY <1>9, <2>1, <2>2 DEF HandleTimer
<1>10. CASE OnTimer
  BY <1>10 DEF OnTimer, TypeOK, heapVars, kernelVars, History, Used
<1>11. ASSUME NEW h \in Handles, TaskStop(h) \/ OtherStop(h)
       PROVE  TypeOK'
  BY <1>11 DEF TaskStop, OtherStop, Remove, TypeOK, historyVars
<1>12. CASE DeleteAllTimers
  BY <1>12 DEF DeleteAllTimers, Remove, TypeOK, historyVars
<1>13. CASE RunEnds \/ DrainTest \/ CloseQueue
  BY <1>13
  DEF RunEnds, DrainTest, CloseQueue, TypeOK, heapVars, kernelVars, historyVars
<1>14. CASE Restart
  BY <1>14 DEF Restart, TypeOK, heapVars, kernelVars, historyVars
<1>15. CASE UNCHANGED vars
  BY <1>15 DEF vars, TypeOK
<1>16. QED
  BY <1>1, <1>2, <1>3, <1>4, <1>5, <1>6, <1>7, <1>8, <1>9, <1>10, <1>11,
     <1>12, <1>13, <1>14, <1>15
  DEF Next, TaskProgress, FireStep

(* The map, the POSIX timers and the records stay in step. *)
LEMMA NextLinks == IInv /\ [Next]_vars => Links'
<1> SUFFICES ASSUME IInv, [Next]_vars
             PROVE  Links'
  OBVIOUS
<1>0. TypeOK'
  BY NextTypeOK
<1>r. ASSUME NEW hs \in SUBSET Handles, Remove(hs),
             \A h \in hs : m_timerMap[h] # NoAddr,
             pc \notin {"arm", "insert"} \/ pc' = pc,
             pc' \in {"arm", "insert"} => pc' = pc,
             UNCHANGED <<m_TimerInstance, cur, fire>>
      PROVE  Links'
  <2>1. /\ RecordsOutliveTimers'
        /\ \A h \in Handles : m_timerMap'[h] =
             IF h \in hs THEN NoAddr ELSE m_timerMap[h]
        /\ \A h \in Handles \ hs :
             sival[h] \in allocated /\ info[sival[h]] = h
               => sival[h] \in allocated'
        /\ armed' = armed \ hs
    BY <1>r, RemoveKeeps DEF IInv
  <2>2. Linked'
    BY <1>r, <2>1 DEF IInv, Links, Linked, Used, TypeOK, Remove
  <2>3. Starting'
    BY <1>r, <2>1 DEF IInv, Links, Starting, Used, Remove
  <2>4. FireHasAddr'
    BY <1>r DEF IInv, Links, FireHasAddr
  <2>5. QED
    BY <2>1, <2>2, <2>3, <2>4 DEF Links
<1>1. ASSUME NEW a \in Addrs, NEW kind \in Kinds, Create(a, kind)
      PROVE  Links'
  <2>1. /\ m_TimerInstance \in Handles
        /\ m_timerMap[m_TimerInstance] = NoAddr
        /\ m_TimerInstance \notin armed
    BY <1>1, TimerAssumption
    DEF Create, IInv, Links, Linked, Used, TypeOK, Handles
  <2>2. \A h \in Handles \ {m_TimerInstance} : sival'[h] = sival[h]
    BY <1>1 DEF Create, IInv, TypeOK
  <2>3. \A b \in allocated : b # a /\ info'[b] = info[b] /\ b \in allocated'
    BY <1>1 DEF Create, IInv, TypeOK
  <2>4. RecordsOutliveTimers'
    BY <1>1, <2>1, <2>2, <2>3
    DEF Create, IInv, Links, RecordsOutliveTimers, TypeOK
  <2>5. Linked'
    BY <1>1, <2>1, <2>2, TimerAssumption
    DEF Create, IInv, Links, Linked, Used, TypeOK, Handles
  <2>6. Starting'
    BY <1>1, <2>1, TimerAssumption
    DEF Create, IInv, Starting, Used, TypeOK, Handles
  <2>7. FireHasAddr'
    BY <1>1 DEF Create, IInv, Links, FireHasAddr
  <2>8. QED
    BY <2>4, <2>5, <2>6, <2>7 DEF Links
<1>2. CASE Arm
  BY <1>2
  DEF Arm, IInv, Links, RecordsOutliveTimers, Linked, Starting, Used,
      FireHasAddr, TypeOK, heapVars
<1>3. CASE Insert
  BY <1>3
  DEF Insert, IInv, Links, RecordsOutliveTimers, Linked, Starting, Used,
      FireHasAddr, TypeOK, heapVars, kernelVars
<1>4. ASSUME NEW h \in Handles, Expire(h)
      PROVE  Links'
  <2>1. sival[h] \in Addrs
    BY <1>4 DEF Expire, IInv, Links, RecordsOutliveTimers, TypeOK
  <2>2. FireHasAddr'
    BY <1>4, <2>1 DEF Expire, IInv, Links, FireHasAddr, TypeOK, FireIds
  <2>3. QED
    BY <1>4, <2>2
    DEF Expire, IInv, Links, RecordsOutliveTimers, Linked, Starting, Used,
        TypeOK, heapVars
<1>5. ASSUME NEW f \in FireIds, FireRead(f) \/ FireSend(f)
      PROVE  Links'
  <2>1. FireHasAddr'
    BY <1>5 DEF FireRead, FireSend, NoFire, IInv, Links, FireHasAddr, TypeOK
  <2>2. QED
    BY <1>5, <2>1
    DEF FireRead, FireSend, IInv, Links, RecordsOutliveTimers, Linked,
        Starting, Used, heapVars, kernelVars
<1>6. CASE \/ Receive \/ Lookup \/ OnTimer
           \/ RunEnds \/ DrainTest \/ CloseQueue \/ Restart
  BY <1>6
  DEF Receive, Lookup, OnTimer, RunEnds, DrainTest, CloseQueue, Restart, IInv,
      Links, RecordsOutliveTimers, Linked, Starting, Used, FireHasAddr, heapVars,
      kernelVars
<1>7. CASE HandleTimer
  <2>1. CASE m_timerMap[cur] # NoAddr /\ Remove({cur})
    <3>1. cur \in Handles
      BY <1>7 DEF HandleTimer, IInv, History, Used
    <3>2. QED
      BY <1>7, <1>r, <2>1, <3>1 DEF HandleTimer
  <2>2. CASE UNCHANGED <<m_timerMap, heapVars, kernelVars>>
    BY <1>7, <2>2
    DEF HandleTimer, IInv, Links, RecordsOutliveTimers, Linked, Starting,
        Used, FireHasAddr, heapVars, kernelVars
  <2>3. QED
    BY <1>7, <2>1, <2>2 DEF HandleTimer
<1>8. ASSUME NEW h \in Handles, TaskStop(h) \/ OtherStop(h)
      PROVE  Links'
  BY <1>8, <1>r DEF TaskStop, OtherStop
<1>9. CASE DeleteAllTimers
  BY <1>9, <1>r DEF DeleteAllTimers
<1>10. CASE UNCHANGED vars
  BY <1>10
  DEF vars, IInv, Links, RecordsOutliveTimers, Linked, Starting, Used,
      FireHasAddr
<1>11. QED
  BY <1>1, <1>2, <1>3, <1>4, <1>5, <1>6, <1>7, <1>8, <1>9, <1>10
  DEF Next, TaskProgress, FireStep

(* A timer that left the map never comes back to it. *)
LEMMA NextHistory == IInv /\ [Next]_vars => History'
<1> SUFFICES ASSUME IInv, [Next]_vars
             PROVE  History'
  OBVIOUS
<1>r. ASSUME NEW hs \in SUBSET Handles, Remove(hs)
      PROVE  \A h \in Handles : m_timerMap[h] = NoAddr => m_timerMap'[h] = NoAddr
  BY <1>r DEF Remove
<1>1. ASSUME NEW a \in Addrs, NEW kind \in Kinds, Create(a, kind)
      PROVE  History'
  BY <1>1, TimerAssumption
  DEF Create, IInv, History, Used, TypeOK, Handles, historyVars
<1>2. CASE Arm
  BY <1>2 DEF Arm, IInv, History, Used, historyVars
<1>3. CASE Insert
  BY <1>3
  DEF Insert, IInv, History, Links, Starting, Used, TypeOK, historyVars
<1>4. ASSUME NEW h \in Handles, Expire(h)
      PROVE  History'
  BY <1>4 DEF Expire, IInv, History, Used, historyVars
<1>5. ASSUME NEW f \in FireIds, FireRead(f) \/ FireSend(f)
      PROVE  History'
  BY <1>5 DEF FireRead, FireSend, IInv, History, Used, historyVars
<1>6. CASE Receive \/ RunEnds \/ DrainTest \/ CloseQueue \/ Restart
  BY <1>6
  DEF Receive, RunEnds, DrainTest, CloseQueue, Restart, IInv, History, Used,
      historyVars
<1>7. CASE Lookup
  BY <1>7 DEF Lookup, IInv, History, Links, Linked, Used, historyVars
<1>8. CASE HandleTimer
  <2>1. CASE m_timerMap[cur] # NoAddr /\ cur \notin periodic /\ Remove({cur})
    <3>1. cur \in Handles
      BY <1>8 DEF HandleTimer, IInv, History, Used
    <3>2. m_timerMap'[cur] = NoAddr
      BY <2>1, <3>1 DEF Remove
    <3>3. QED
      BY <1>8, <1>r, <2>1, <3>1, <3>2
      DEF HandleTimer, IInv, History, Used, historyVars
  <2>2. CASE /\ m_timerMap[cur] = NoAddr \/ cur \in periodic
             /\ UNCHANGED <<m_timerMap, heapVars, kernelVars>>
    BY <1>8, <2>2 DEF HandleTimer, IInv, History, Used, historyVars
  <2>3. QED
    BY <1>8, <2>1, <2>2 DEF HandleTimer
<1>9. CASE OnTimer
  BY <1>9 DEF OnTimer, IInv, History, Used
<1>10. ASSUME NEW h \in Handles, TaskStop(h)
       PROVE  History'
  <2>1. m_timerMap'[h] = NoAddr /\ Used(h)
    BY <1>10 DEF TaskStop, Remove, IInv, Links, Linked
  <2>2. QED
    BY <1>10, <1>r, <2>1 DEF TaskStop, IInv, History, Used
<1>11. ASSUME NEW h \in Handles, OtherStop(h)
       PROVE  History'
  BY <1>11, <1>r DEF OtherStop, IInv, History, Used, historyVars
<1>12. CASE DeleteAllTimers
  BY <1>12, <1>r DEF DeleteAllTimers, IInv, History, Used, historyVars
<1>13. CASE UNCHANGED vars
  BY <1>13 DEF vars, IInv, History, Used
<1>14. QED
  BY <1>1, <1>2, <1>3, <1>4, <1>5, <1>6, <1>7, <1>8, <1>9, <1>10, <1>11,
     <1>12, <1>13
  DEF Next, TaskProgress, FireStep

(* The invariant holds in every reachable state. *)
THEOREM Invariance == Spec => []IInv
<1>1. IInv /\ [Next]_vars => IInv'
  BY NextTypeOK, NextLinks, NextHistory DEF IInv
<1>2. QED
  BY InitIInv, <1>1, PTL DEF Spec

(* Every variable keeps its type; the queue stays within its size. *)
THEOREM TypeCorrect == Spec => []TypeOK
  BY Invariance, PTL DEF IInv

(* The map leads to live records of the right timers, and so do the POSIX
   timers that can still expire: no record is deleted twice or too early. *)
THEOREM RecordsSafe == Spec => []RecordsOutliveTimers
  BY Invariance, PTL DEF IInv, Links

(* OnTimer is never called for a timer the task has stopped. *)
THEOREM SilenceSafe == Spec => []StoppedStaysSilent
<1>1. IInv => StoppedStaysSilent
  BY DEF IInv, History, StoppedStaysSilent
<1>2. QED
  BY Invariance, <1>1, PTL

(* OnTimer is called at most once for a one-shot timer. *)
THEOREM OneShotSafe == Spec => []OneShotOnce
<1>1. IInv => OneShotOnce
  BY DEF IInv, History, OneShotOnce
<1>2. QED
  BY Invariance, <1>1, PTL

-----------------------------------------------------------------------------
(* Why a timer may be early *)

\* new returns an address that was never a timer's record.
FreshRecord == \A a \in Addrs : info'[a] # info[a] => info[a] = Invalid

(* As long as records are fresh, each record tells Fire the handle of the timer
   that had it, and what goes on to the queue, to the task and to OnTimer is
   the handle of a timer that has expired. *)
OnTime ==
  /\ \A a \in Addrs : info[a] # Invalid => Used(info[a])
  /\ \A h \in expired : Used(h)
  /\ \A h \in Handles : sival[h] # NoAddr => info[sival[h]] = h
  /\ \A f \in FireIds : fire[f].pc # "none" =>
       /\ f[1] \in expired /\ fire[f].addr = sival[f[1]]
       /\ fire[f].msg \in expired \cup {Invalid}
  /\ queue \in Seq(expired \cup {Invalid})
  /\ pc \in {"lookup", "handle", "onTimer"} => cur \in expired \cup {Invalid}
  /\ handled \subseteq expired

LEMMA NextOnTime == IInv /\ OnTime /\ [Next /\ FreshRecord]_vars => OnTime'
<1> SUFFICES ASSUME IInv, OnTime, [Next /\ FreshRecord]_vars
             PROVE  OnTime'
  OBVIOUS
<1> USE TimerAssumption DEF Invalid
<1>q. /\ \A e \in expired \cup {Invalid} :
           Append(queue, e) \in Seq(expired \cup {Invalid})
      /\ queue # <<>> =>
           /\ Head(queue) \in expired \cup {Invalid}
           /\ Tail(queue) \in Seq(expired \cup {Invalid})
      /\ <<>> \in Seq(expired \cup {Invalid})
  BY AppendProperties, HeadTailProperties, EmptySeq DEF OnTime
<1>1. ASSUME NEW a \in Addrs, NEW kind \in Kinds, Create(a, kind), FreshRecord
      PROVE  OnTime'
  <2>1. info[a] = Invalid
    BY <1>1 DEF Create, FreshRecord, OnTime, Used, Handles, IInv, TypeOK
  <2>2. \A h \in Handles : sival'[h] # NoAddr => info'[sival'[h]] = h
    BY <1>1, <2>1 DEF Create, OnTime, Handles, IInv, TypeOK
  <2>3. \A f \in FireIds : fire[f].pc # "none" => sival'[f[1]] = sival[f[1]]
    <3>1. ASSUME NEW f \in FireIds, fire[f].pc # "none"
          PROVE  sival'[f[1]] = sival[f[1]]
      <4>1. f[1] \in Handles /\ sival[f[1]] \in Addrs
        BY <3>1 DEF OnTime, IInv, Links, FireHasAddr, FireIds
      <4>2. f[1] # m_TimerInstance
        BY <3>1 DEF OnTime, Used, Handles, IInv, TypeOK
      <4>3. QED
        BY <1>1, <4>1, <4>2 DEF Create, IInv, TypeOK
    <3>2. QED
      BY <3>1
  <2>4. \A h \in Handles : Used(h) => Used(h)'
    BY <1>1 DEF Create, Used, Handles, IInv, TypeOK
  <2>5. \A b \in Addrs : info'[b] # Invalid => Used(info[b])'
    <3>1. m_TimerInstance \in Handles /\ m_TimerInstance < m_TimerInstance'
      BY <1>1 DEF Create, Handles
    <3>2. ASSUME NEW b \in Addrs, info'[b] # Invalid
          PROVE  info'[b] \in Handles /\ info'[b] < m_TimerInstance'
      <4>1. CASE b = a
        BY <1>1, <3>1, <4>1 DEF Create, IInv, TypeOK
      <4>2. CASE b # a
        <5>1. info'[b] = info[b]
          BY <1>1, <4>2 DEF Create, IInv, TypeOK
        <5>2. QED
          BY <2>4, <3>2, <5>1 DEF OnTime, Used
      <4>3. QED
        BY <4>1, <4>2
    <3>3. QED
      BY <3>2 DEF Used
  <2>6. /\ UNCHANGED <<expired, fire, queue, handled>>
        /\ pc' \notin {"lookup", "handle", "onTimer"}
    BY <1>1 DEF Create, historyVars
  <2>7. \A h \in expired' : Used(h)'
    BY <2>4, <2>6 DEF OnTime, IInv, TypeOK
  <2>8. \A f \in FireIds : fire'[f].pc # "none" =>
          /\ f[1] \in expired' /\ fire'[f].addr = sival'[f[1]]
          /\ fire'[f].msg \in expired' \cup {Invalid}
    BY <2>3, <2>6 DEF OnTime
  <2>9. QED
    BY <2>2, <2>5, <2>6, <2>7, <2>8 DEF OnTime
<1>2. CASE Arm \/ Insert \/ Restart
  BY <1>2 DEF Arm, Insert, Restart, OnTime, heapVars, kernelVars, historyVars, Used
<1>3. ASSUME NEW h \in Handles, Expire(h)
      PROVE  OnTime'
  <2>1. expired' = expired \cup {h} /\ Used(h)
    BY <1>3 DEF Expire, IInv, Links, Linked
  <2>2. queue' \in Seq(expired' \cup {Invalid})
    <3>1. queue' = queue /\ queue \in Seq(expired \cup {Invalid})
      BY <1>3 DEF Expire, OnTime
    <3>2. \A i \in 1..Len(queue) : queue[i] \in expired' \cup {Invalid}
      BY <2>1, <3>1, ElementOfSeq
    <3>3. QED
      BY <3>1, <3>2
  <2>3. \A f \in FireIds : fire'[f].pc # "none" =>
          /\ f[1] \in expired' /\ fire'[f].addr = sival'[f[1]]
          /\ fire'[f].msg \in expired' \cup {Invalid}
    BY <1>3, <2>1 DEF Expire, OnTime, IInv, TypeOK, FireIds
  <2>4. QED
    BY <1>3, <2>1, <2>2, <2>3 DEF Expire, OnTime, Used, heapVars, historyVars
<1>4. ASSUME NEW f \in FireIds, FireRead(f)
      PROVE  OnTime'
  <2>1. PICK m \in Read(fire[f].addr) :
          fire' = [fire EXCEPT ![f].pc = "send", ![f].msg = m]
    BY <1>4 DEF FireRead
  <2>2. m \in expired \cup {Invalid}
    <3>1. /\ f[1] \in expired /\ fire[f].addr = sival[f[1]]
          /\ fire[f].addr \in Addrs
      BY <1>4 DEF FireRead, OnTime, IInv, Links, FireHasAddr
    <3>2. info[fire[f].addr] = f[1]
      BY <3>1, TimerAssumption DEF OnTime, IInv, TypeOK
    <3>3. QED
      BY <2>1, <3>1, <3>2 DEF Read
  <2>3. \A g \in FireIds : fire'[g].pc # "none" =>
          /\ g[1] \in expired /\ fire'[g].addr = sival[g[1]]
          /\ fire'[g].msg \in expired \cup {Invalid}
    BY <1>4, <2>1, <2>2 DEF FireRead, OnTime, IInv, TypeOK
  <2>4. QED
    BY <1>4, <2>3 DEF FireRead, OnTime, Used, heapVars, kernelVars, historyVars
<1>5. ASSUME NEW f \in FireIds, FireSend(f)
      PROVE  OnTime'
  <2>1. fire[f].msg \in expired \cup {Invalid}
    BY <1>5 DEF FireSend, OnTime
  <2>2. queue' \in Seq(expired \cup {Invalid})
    BY <1>5, <1>q, <2>1 DEF FireSend, OnTime
  <2>3. \A g \in FireIds : fire'[g].pc # "none" => fire'[g] = fire[g]
    BY <1>5 DEF FireSend, NoFire, IInv, TypeOK
  <2>4. QED
    BY <1>5, <2>2, <2>3
    DEF FireSend, OnTime, Used, heapVars, kernelVars, historyVars
<1>6. CASE Receive
  BY <1>6, <1>q DEF Receive, OnTime, Used, heapVars, kernelVars, historyVars
<1>7. CASE Lookup
  BY <1>7 DEF Lookup, OnTime, Used, heapVars, kernelVars, historyVars
<1>8. CASE HandleTimer
  BY <1>8 DEF HandleTimer, Remove, OnTime, Used, heapVars, kernelVars, historyVars
<1>9. CASE OnTimer
  BY <1>9 DEF OnTimer, OnTime, heapVars, kernelVars, IInv, History, Used, Handles
<1>10. ASSUME NEW h \in Handles, TaskStop(h) \/ OtherStop(h)
       PROVE  OnTime'
  BY <1>10 DEF TaskStop, OtherStop, Remove, OnTime, Used, historyVars
<1>11. CASE DeleteAllTimers
  BY <1>11 DEF DeleteAllTimers, Remove, OnTime, Used, historyVars
<1>12. CASE RunEnds \/ DrainTest \/ CloseQueue
  BY <1>12
  DEF RunEnds, DrainTest, CloseQueue, OnTime, Used, heapVars, kernelVars,
      historyVars
<1>13. CASE UNCHANGED vars
  BY <1>13 DEF vars, OnTime, Used
<1>14. QED
  BY <1>1, <1>2, <1>3, <1>4, <1>5, <1>6, <1>7, <1>8, <1>9, <1>10, <1>11,
     <1>12, <1>13
  DEF Next, TaskProgress, FireStep

(* NeverEarly fails only because new returns the address of a deleted record
   to a new timer while Fire still has it: without that, OnTimer is called for
   timers that have expired and for no others. *)
THEOREM EarlyOnlyByReuse == Spec /\ [][FreshRecord]_vars => []NeverEarly
<1>1. Init => OnTime
  BY EmptySeq DEF Init, OnTime, NoFire, FireIds, Handles
<1>2. IInv /\ OnTime /\ [Next]_vars /\ [FreshRecord]_vars => OnTime'
  BY NextOnTime
<1>3. OnTime => NeverEarly
  BY DEF OnTime, NeverEarly
<1>4. QED
  BY <1>1, <1>2, <1>3, Invariance, PTL DEF Spec
=============================================================================
