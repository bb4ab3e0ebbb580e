------------------------------ MODULE TaskSafe ------------------------------
(***************************************************************************)
(* CAefTaskSafe: an object that one thread at a time may own.  Ownership   *)
(* is a member, m_taskOwnerID, kept in step with the recursive mutex the   *)
(* class inherits (CAefMutex): the owner keeps one lock of the mutex for   *)
(* as long as it is the owner.  The member is also read and cleared by     *)
(* threads that do not hold the mutex.                                     *)
(*                                                                         *)
(* Clients use the mutex on its own too, and give back what they took: a   *)
(* thread calls Unlock once for each Lock that returned true.  CAefMutex's *)
(* m_lockCount, which decides nothing here, is left out.                   *)
(***************************************************************************)
EXTENDS Naturals

CONSTANTS Threads,
          NoThread,  \* AEF_INVALID_TASK_ID; also: the mutex is free
          MaxLocks   \* bound on the Locks one thread holds at a time

ASSUME TaskSafeAssumption == /\ NoThread \notin Threads
                             /\ MaxLocks \in Nat

VARIABLES
  m_taskOwnerID,
  holder,        \* the thread that holds m_semMutex, or NoThread
  depth,         \* how many times it has locked it
  locks,         \* per thread, its Locks not yet matched by an Unlock
  pc

vars == <<m_taskOwnerID, holder, depth, locks, pc>>

\* lock, take: waiting in pthread_mutex_lock for Lock or for TakeOwnership.
\* tryLock, tryTake: the same with a timeout.
\* decide: TakeOwnership has the lock.  drop: a last unlock is to be made.
PCs == {"idle", "lock", "tryLock", "take", "tryTake", "decide", "drop"}

Goto(t, l) == pc' = [pc EXCEPT ![t] = l]

Init == /\ m_taskOwnerID = NoThread
        /\ holder = NoThread
        /\ depth = 0
        /\ locks = [t \in Threads |-> 0]
        /\ pc = [t \in Threads |-> "idle"]

-----------------------------------------------------------------------------
(* pthread_mutex_lock and _unlock on a recursive mutex *)
Free(t) == holder \in {NoThread, t}

Acquire(t) == /\ Free(t)
              /\ holder' = t
              /\ depth' = depth + 1

\* Unlocking a mutex that another thread holds, or none, fails and changes
\* nothing.
Release(t) ==
  IF holder = t
  THEN /\ depth' = depth - 1
       /\ holder' = IF depth = 1 THEN NoThread ELSE t
  ELSE UNCHANGED <<holder, depth>>

-----------------------------------------------------------------------------
\* A finite msWait is turned into a deadline in the past, so a timed Lock
\* fails at once where it cannot succeed at once.
Call(t) ==
  /\ pc[t] = "idle"
  /\ \/ locks[t] < MaxLocks /\ (Goto(t, "lock") \/ Goto(t, "tryLock"))
     \/ Goto(t, "take")
     \/ Goto(t, "tryTake")
  /\ UNCHANGED <<m_taskOwnerID, holder, depth, locks>>

Lock(t) ==
  /\ pc[t] \in {"lock", "tryLock"}
  /\ Acquire(t)
  /\ locks' = [locks EXCEPT ![t] = @ + 1]
  /\ Goto(t, "idle")
  /\ UNCHANGED m_taskOwnerID

LockTimesOut(t) ==
  /\ pc[t] \in {"tryLock", "tryTake"}
  /\ ~Free(t)
  /\ Goto(t, "idle")
  /\ UNCHANGED <<m_taskOwnerID, holder, depth, locks>>

\* A client that unlocks what it did not lock.
Unlock_Unbalanced(t) ==
  /\ pc[t] = "idle"
  /\ Release(t)
  /\ locks' = [locks EXCEPT ![t] = @ - 1]
  /\ UNCHANGED <<m_taskOwnerID, pc>>

Unlock(t) ==
  /\ pc[t] = "idle"
  /\ locks[t] > 0
  /\ Release(t)
  /\ locks' = [locks EXCEPT ![t] = @ - 1]
  /\ UNCHANGED <<m_taskOwnerID, pc>>

TakeLock(t) ==
  /\ pc[t] \in {"take", "tryTake"}
  /\ Acquire(t)
  /\ Goto(t, "decide")
  /\ UNCHANGED <<m_taskOwnerID, locks>>

\* An owner that does not keep the lock.
TakeOwnership_DropsLock(t) ==
  /\ pc[t] = "decide"
  /\ m_taskOwnerID' = IF m_taskOwnerID = NoThread THEN t ELSE m_taskOwnerID
  /\ Goto(t, "drop")
  /\ UNCHANGED <<holder, depth, locks>>

\* A second TakeOwnership by the owner that keeps a second lock.
TakeOwnership_KeepsTwo(t) ==
  /\ pc[t] = "decide"
  /\ m_taskOwnerID \in {NoThread, t}
  /\ m_taskOwnerID' = t
  /\ Goto(t, "idle")
  /\ UNCHANGED <<holder, depth, locks>>

\* TakeOwnership, with the lock: become the owner, or give the lock back.
TakeOwnership(t) ==
  /\ pc[t] = "decide"
  /\ \/ /\ m_taskOwnerID = NoThread
        /\ m_taskOwnerID' = t
        /\ Goto(t, "idle")
     \/ /\ m_taskOwnerID # NoThread
        /\ UNCHANGED m_taskOwnerID
        /\ Goto(t, "drop")
  /\ UNCHANGED <<holder, depth, locks>>

\* ReleaseOwnership by a thread that only knows the object is owned.
ReleaseOwnership_ByAnyone(t) ==
  /\ pc[t] = "idle"
  /\ m_taskOwnerID # NoThread
  /\ m_taskOwnerID' = NoThread
  /\ Goto(t, "drop")
  /\ UNCHANGED <<holder, depth, locks>>

\* ReleaseOwnership: the member first, then the lock.
ReleaseOwnership(t) ==
  /\ pc[t] = "idle"
  /\ m_taskOwnerID = t
  /\ m_taskOwnerID' = NoThread
  /\ Goto(t, "drop")
  /\ UNCHANGED <<holder, depth, locks>>

Drop(t) ==
  /\ pc[t] = "drop"
  /\ Release(t)
  /\ Goto(t, "idle")
  /\ UNCHANGED <<m_taskOwnerID, locks>>

-----------------------------------------------------------------------------
Next == \E t \in Threads :
          \/ Call(t) \/ Lock(t) \/ LockTimesOut(t) \/ Unlock(t) \/ TakeLock(t)
          \/ TakeOwnership(t) \/ ReleaseOwnership(t) \/ Drop(t)

Spec == Init /\ [][Next]_vars

-----------------------------------------------------------------------------
TypeOK ==
  /\ m_taskOwnerID \in Threads \cup {NoThread}
  /\ holder \in Threads \cup {NoThread}
  /\ depth \in Nat
  /\ locks \in [Threads -> 0..MaxLocks]
  /\ pc \in [Threads -> PCs]
  /\ \A t \in Threads : pc[t] \in {"lock", "tryLock"} => locks[t] < MaxLocks

\* The locks of the mutex that t should have: its own, the one that goes with
\* ownership, and the one a call of its is about to use or to give back.
Due(t) == locks[t] + (IF m_taskOwnerID = t THEN 1 ELSE 0)
                   + (IF pc[t] \in {"decide", "drop"} THEN 1 ELSE 0)

(* No lock of the mutex is lost or given back twice, on any path through
   nested Lock, TakeOwnership and ReleaseOwnership: the mutex is held exactly
   as deep as its holder's calls account for, and by no other thread. *)
LocksAccountedFor ==
  /\ \A t \in Threads : Due(t) = IF holder = t THEN depth ELSE 0
  /\ holder = NoThread <=> depth = 0

(* aefTaskSafe.cpp:64: "couldn't become owner for some strange reason".  With
   balanced clients there is none: a thread that gets the lock in
   TakeOwnership never finds another thread's ID. *)
NoStrangeReason ==
  \A t \in Threads : pc[t] = "decide" => m_taskOwnerID \in {NoThread, t}

(* Ownership passes from one thread to another only through the release of
   the first: no step replaces one owner by another, and only the owner's own
   step ends its ownership. *)
OwnerReleasesFirst ==
  [][m_taskOwnerID # NoThread /\ m_taskOwnerID' # m_taskOwnerID =>
       /\ m_taskOwnerID' = NoThread
       /\ holder = m_taskOwnerID /\ pc'[m_taskOwnerID] = "drop"]_vars
=============================================================================
