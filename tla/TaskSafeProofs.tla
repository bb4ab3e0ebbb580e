--------------------------- MODULE TaskSafeProofs ---------------------------
(***************************************************************************)
(* The safety of TaskSafe for any set of threads and any nesting of locks. *)
(***************************************************************************)
EXTENDS TaskSafe, TLAPS

(* The inductive invariant: the accounting of the locks is what keeps depth
   from going below zero. *)
IInv == TypeOK /\ LocksAccountedFor

(* The invariant holds of a new object. *)
LEMMA InitIInv == Init => IInv
  BY TaskSafeAssumption
  DEF Init, IInv, TypeOK, LocksAccountedFor, Due, PCs

(* A thread that has a lock due is the holder, and the mutex is not free. *)
LEMMA DueHolds ==
  ASSUME IInv, NEW t \in Threads,
         m_taskOwnerID = t \/ pc[t] \in {"decide", "drop"} \/ locks[t] > 0
  PROVE  holder = t /\ depth \in Nat \ {0} /\ Due(t) = depth
  <1>1. locks[t] \in Nat /\ Due(t) # 0
    BY DEF IInv, TypeOK, Due
  <1>2. QED
    BY <1>1, TaskSafeAssumption DEF IInv, TypeOK, LocksAccountedFor

(* Every step keeps the account: it moves a lock from one entry to another,
   or locks or unlocks the mutex once. *)
LEMMA NextIInv == IInv /\ [Next]_vars => IInv'
  <1> SUFFICES ASSUME IInv, [Next]_vars PROVE IInv'
    OBVIOUS
  <1> USE TaskSafeAssumption DEF Goto, PCs
  <1>t. TypeOK /\ LocksAccountedFor
    BY DEF IInv
  <1>1. ASSUME NEW t \in Threads, Call(t) PROVE IInv'
    BY <1>t, <1>1 DEF Call, IInv, TypeOK, LocksAccountedFor, Due
  <1>2. ASSUME NEW t \in Threads, Lock(t) PROVE IInv'
    <2>1. TypeOK'
      <3>1. locks'[t] \in 0..MaxLocks
        BY <1>t, <1>2 DEF Lock, TypeOK
      <3>2. QED
        BY <1>t, <1>2, <3>1 DEF Lock, Acquire, TypeOK
    <2>2. Due(t)' = Due(t) + 1 /\ \A u \in Threads \ {t} : Due(u)' = Due(u)
      BY <1>t, <1>2 DEF Lock, TypeOK, Due
    <2>3. LocksAccountedFor'
      BY <1>t, <1>2, <2>2
      DEF Lock, Acquire, Free, TypeOK, LocksAccountedFor
    <2>4. QED
      BY <2>1, <2>3 DEF IInv
  <1>3. ASSUME NEW t \in Threads, LockTimesOut(t) PROVE IInv'
    BY <1>t, <1>3 DEF LockTimesOut, IInv, TypeOK, LocksAccountedFor, Due
  <1>4. ASSUME NEW t \in Threads, Unlock(t) PROVE IInv'
    <2>1. holder = t /\ depth \in Nat \ {0}
      BY <1>4, DueHolds DEF Unlock
    <2>2. QED
      BY <1>t, <1>4, <2>1
      DEF Unlock, Release, IInv, TypeOK, LocksAccountedFor, Due
  <1>5. ASSUME NEW t \in Threads, TakeLock(t) PROVE IInv'
    BY <1>t, <1>5
    DEF TakeLock, Acquire, Free, IInv, TypeOK, LocksAccountedFor, Due
  <1>6. ASSUME NEW t \in Threads, TakeOwnership(t) PROVE IInv'
    BY <1>t, <1>6 DEF TakeOwnership, IInv, TypeOK, LocksAccountedFor, Due
  <1>7. ASSUME NEW t \in Threads, ReleaseOwnership(t) PROVE IInv'
    BY <1>t, <1>7 DEF ReleaseOwnership, IInv, TypeOK, LocksAccountedFor, Due
  <1>8. ASSUME NEW t \in Threads, Drop(t) PROVE IInv'
    <2>1. holder = t /\ depth \in Nat \ {0}
      BY <1>8, DueHolds DEF Drop
    <2>2. QED
      BY <1>t, <1>8, <2>1
      DEF Drop, Release, IInv, TypeOK, LocksAccountedFor, Due
  <1>9. CASE UNCHANGED vars
    BY <1>t, <1>9 DEF vars, IInv, TypeOK, LocksAccountedFor, Due
  <1>10. QED
    BY <1>1, <1>2, <1>3, <1>4, <1>5, <1>6, <1>7, <1>8, <1>9 DEF Next

(* The invariant holds in every reachable state. *)
THEOREM Invariance == Spec => []IInv
  BY InitIInv, NextIInv, PTL DEF Spec

(* Every variable keeps its type. *)
THEOREM TypeCorrect == Spec => []TypeOK
  BY Invariance, PTL DEF IInv

(* The mutex is held as deep as its holder's calls account for. *)
THEOREM LocksSafe == Spec => []LocksAccountedFor
  BY Invariance, PTL DEF IInv

(* The third branch of TakeOwnership is dead: a thread that has the lock
   finds no owner or itself. *)
THEOREM BranchIsDead == Spec => []NoStrangeReason
  <1>1. IInv => NoStrangeReason
    <2>1. SUFFICES ASSUME IInv, NEW t \in Threads, pc[t] = "decide",
                          m_taskOwnerID # NoThread
                   PROVE  m_taskOwnerID = t
      BY DEF NoStrangeReason
    <2>2. m_taskOwnerID \in Threads
      BY <2>1 DEF IInv, TypeOK
    <2>3. QED
      BY <2>1, <2>2, DueHolds
  <1>2. QED
    BY Invariance, <1>1, PTL

(* An owner is replaced only after it released the object itself, and until
   then it holds the mutex. *)
THEOREM HandOver == Spec => OwnerReleasesFirst
  <1>1. ASSUME IInv, Next, m_taskOwnerID # NoThread,
               m_taskOwnerID' # m_taskOwnerID
        PROVE  /\ m_taskOwnerID' = NoThread
               /\ holder = m_taskOwnerID
               /\ pc'[m_taskOwnerID] = "drop"
    <2>1. m_taskOwnerID \in Threads
      BY <1>1 DEF IInv, TypeOK
    <2>2. holder = m_taskOwnerID
      BY <1>1, <2>1, DueHolds
    <2>3. PICK t \in Threads : ReleaseOwnership(t)
      BY <1>1
      DEF Next, Call, Lock, LockTimesOut, Unlock, TakeLock, TakeOwnership, Drop
    <2>4. pc'[t] = "drop" /\ t = m_taskOwnerID /\ m_taskOwnerID' = NoThread
      BY <1>1, <2>3 DEF ReleaseOwnership, Goto, IInv, TypeOK
    <2>5. QED
      BY <2>2, <2>4
  <1>2. IInv /\ [Next]_vars
          => [m_taskOwnerID # NoThread /\ m_taskOwnerID' # m_taskOwnerID =>
                /\ m_taskOwnerID' = NoThread
                /\ holder = m_taskOwnerID
                /\ pc'[m_taskOwnerID] = "drop"]_vars
    BY <1>1
  <1>3. QED
    BY Invariance, <1>2, PTL DEF Spec, OwnerReleasesFirst
=============================================================================
