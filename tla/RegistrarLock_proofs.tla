------------------------ MODULE RegistrarLock_proofs ------------------------
(* Theorems about RegistrarLock, for any number of invocations, any waits  *)
(* and any clocks that differ by no more than LockAssumption allows.       *)
EXTENDS RegistrarLock, TLAPS

(* Every variable keeps its type.                                          *)
THEOREM LockTyping == Spec => []TypeOK
<1> USE LockAssumption
<1>1. Init => TypeOK
  BY DEF Init, TypeOK
<1>2. TypeOK /\ [Next]_vars => TypeOK'
  <2> SUFFICES ASSUME TypeOK, [Next]_vars
               PROVE  TypeOK'
    OBVIOUS
  <2> USE DEF TypeOK
  <2>1. CASE Tick
    BY <2>1 DEF Tick, timers
  <2>2. ASSUME NEW i \in Invocations, Invoke(i)
        PROVE  TypeOK'
    BY <2>2 DEF Invoke
  <2>3. ASSUME NEW i \in Invocations, TakeLock(i)
        PROVE  lock' \in [owner : Invocations, ttl : Int]
    BY <2>3 DEF TakeLock, Now
  <2>4. ASSUME NEW i \in Invocations, Acquire(i)
        PROVE  TypeOK'
    BY <2>3, <2>4 DEF Acquire, TakeLock, timers
  <2>5. ASSUME NEW i \in Invocations, AcquireReplyLost(i)
        PROVE  TypeOK'
    BY <2>3, <2>5 DEF AcquireReplyLost, TakeLock, timers
  <2>6. ASSUME NEW i \in Invocations, NEW how \in {"refused", "done", "dead"}, End(i, how),
               lock' \in {lock, NoLock}, UNCHANGED clock
        PROVE  TypeOK'
    BY <2>6 DEF End
  <2>7. ASSUME NEW i \in Invocations, GiveUp(i)
        PROVE  TypeOK'
    BY <2>6, <2>7 DEF GiveUp
  <2>8. ASSUME NEW i \in Invocations, Sleep(i)
        PROVE  TypeOK'
    <3>1. Pause(i) \in Int
      BY DEF Pause, Lesser, Greater, Deadline, Now
    <3>2. Lesser(2 * delay[i], MaxDelay) \in Nat \ {0}
      BY DEF Lesser
    <3> QED
      BY <2>8, <3>1, <3>2 DEF Sleep, Now
  <2>9. ASSUME NEW i \in Invocations, Wake(i)
        PROVE  TypeOK'
    BY <2>9 DEF Wake
  <2>10. ASSUME NEW i \in Invocations, Release(i)
         PROVE  TypeOK'
    BY <2>6, <2>10 DEF Release
  <2>11. ASSUME NEW i \in Invocations, Kill(i)
         PROVE  TypeOK'
    BY <2>6, <2>11 DEF Kill
  <2>12. CASE ExpireItem
    BY <2>12 DEF ExpireItem, timers
  <2>13. CASE UNCHANGED vars
    BY <2>13 DEF vars, timers
  <2> QED
    BY <2>1, <2>2, <2>4, <2>5, <2>7, <2>8, <2>9, <2>10, <2>11, <2>12, <2>13 DEF Next, Step
<1> QED
  BY <1>1, <1>2, PTL DEF Spec

-----------------------------------------------------------------------------
(* An invocation started in the past and is not alive past its timeout.    *)
InTime ==
    \A i \in Invocations :
        /\ started[i] <= clock
        /\ Alive(i) => clock <= started[i] + Timeout

(* The inductive invariant: a holder's row cannot expire under any clock   *)
(* while the holder lives.                                                 *)
LockInv == TypeOK /\ InTime /\ HolderOwnsLock

(* While i holds the lock, neither an attempt to take it nor DynamoDB's    *)
(* own expiry finds the row expired.                                       *)
LEMMA HeldIsNotFree ==
    ASSUME LockInv, NEW i \in Invocations, pc[i] = "holding"
    PROVE  /\ \A j \in Invocations : ~LockFree(j)
           /\ ~(lock.ttl < clock)
<1> USE LockAssumption DEF LockInv, TypeOK
<1>1. lock # NoLock /\ lock.owner = i /\ lock.ttl >= started[i] + Timeout + Skew
  BY DEF HolderOwnsLock
<1>2. clock <= started[i] + Timeout
  BY DEF InTime, Alive
<1>3. lock.ttl \in Int
  BY <1>1
<1>4. \A j \in Invocations : Now(j) <= clock + Skew /\ Now(j) \in Int
  BY DEF Now
<1> QED
  BY <1>1, <1>2, <1>3, <1>4 DEF LockFree

(* An invocation that owns the row is the only one that can hold the lock. *)
LEMMA OneOwner == HolderOwnsLock => MutualExclusion
  BY DEF HolderOwnsLock, MutualExclusion

LEMMA LockInvStep ==
    ASSUME LockInv, TypeOK', [Next]_vars
    PROVE  LockInv'
<1> USE LockAssumption DEF LockInv
<1>1. InTime'
  <2>1. CASE Tick
    BY <2>1 DEF Tick, timers, TypeOK, InTime, Alive
  <2>2. ASSUME NEW i \in Invocations, Invoke(i)
        PROVE  InTime'
    BY <2>2 DEF Invoke, TypeOK, InTime, Alive
  <2>3. ASSUME NEW i \in Invocations, NEW how \in {"refused", "done", "dead"}, End(i, how),
               UNCHANGED clock
        PROVE  InTime'
    BY <2>3 DEF End, TypeOK, InTime, Alive
  <2>4. ASSUME NEW i \in Invocations, Alive(i), NEW p \in {"trying", "sleeping", "holding"},
               pc' = [pc EXCEPT ![i] = p], UNCHANGED <<clock, started>>
        PROVE  InTime'
    BY <2>4 DEF TypeOK, InTime, Alive
  <2>5. CASE UNCHANGED <<clock, pc, started>>
    BY <2>5 DEF InTime, Alive
  <2> QED
    BY <2>1, <2>2, <2>3, <2>4, <2>5
       DEF Next, Step, vars, timers, Acquire, AcquireReplyLost, TakeLock, GiveUp, Sleep, Wake,
           Release, Kill, ExpireItem, Refused, Alive
<1>2. ASSUME NEW i \in Invocations, TakeLock(i)
      PROVE  /\ \A j \in Invocations : pc[j] # "holding"
             /\ lock' # NoLock /\ lock'.owner = i
             /\ lock'.ttl >= started[i] + Timeout + Skew
  <2>1. \A j \in Invocations : pc[j] # "holding"
    BY <1>2, HeldIsNotFree DEF TakeLock
  <2>2. lock' = [owner |-> i, ttl |-> clock + skew[i] + LockTtl]
    BY <1>2 DEF TakeLock, Now
  <2>3. started[i] <= clock /\ clock \in Nat /\ started[i] \in Nat /\ skew[i] \in -Skew .. Skew
    BY DEF TypeOK, InTime
  <2>4. lock' # NoLock
    BY <2>2, <2>3
  <2> QED
    BY <2>1, <2>2, <2>3, <2>4
<1>3. HolderOwnsLock'
  <2>1. ASSUME NEW i \in Invocations, Acquire(i)
        PROVE  HolderOwnsLock'
    BY <1>2, <2>1 DEF Acquire, TakeLock, timers, TypeOK, HolderOwnsLock
  <2>2. ASSUME NEW i \in Invocations, AcquireReplyLost(i)
        PROVE  HolderOwnsLock'
    BY <1>2, <2>2 DEF AcquireReplyLost, HolderOwnsLock
  <2>3. ASSUME NEW i \in Invocations, Release(i)
        PROVE  HolderOwnsLock'
    BY <2>3, OneOwner DEF Release, End, TypeOK, HolderOwnsLock
  <2>4. ASSUME NEW i \in Invocations, GiveUp(i) \/ Kill(i)
        PROVE  HolderOwnsLock'
    BY <2>4 DEF GiveUp, Kill, End, TypeOK, HolderOwnsLock
  <2>5. ASSUME NEW i \in Invocations, Invoke(i) \/ Sleep(i) \/ Wake(i)
        PROVE  HolderOwnsLock'
    BY <2>5 DEF Invoke, Sleep, Wake, Refused, TypeOK, HolderOwnsLock
  <2>6. CASE ExpireItem
    <3>1. \A i \in Invocations : pc[i] # "holding"
      BY <2>6, HeldIsNotFree DEF ExpireItem
    <3> QED
      BY <2>6, <3>1 DEF ExpireItem, HolderOwnsLock
  <2>7. CASE Tick \/ UNCHANGED vars
    BY <2>7 DEF Tick, vars, timers, HolderOwnsLock
  <2> QED
    BY <2>1, <2>2, <2>3, <2>4, <2>5, <2>6, <2>7 DEF Next, Step
<1> QED
  BY <1>1, <1>3

LEMMA LockInvariant == Spec => []LockInv
<1>1. Init => LockInv
  BY LockAssumption DEF Init, LockInv, TypeOK, InTime, HolderOwnsLock, Alive
<1>2. LockInv /\ TypeOK' /\ [Next]_vars => LockInv'
  BY LockInvStep
<1> QED
  BY <1>1, <1>2, LockTyping, PTL DEF Spec

-----------------------------------------------------------------------------
(* Two invocations never reconcile at the same time, whatever is killed,   *)
(* lost or late: handler._with_lock's purpose.                             *)
THEOREM LockMutualExclusion == Spec => []MutualExclusion
<1>1. LockInv => MutualExclusion
  BY OneOwner DEF LockInv
<1> QED
  BY <1>1, LockInvariant, PTL

(* A holder owns the row, which no clock reaches the end of.               *)
THEOREM LockOwned == Spec => []HolderOwnsLock
<1>1. LockInv => HolderOwnsLock
  BY DEF LockInv
<1> QED
  BY <1>1, LockInvariant, PTL

-----------------------------------------------------------------------------
(* The backoff sleeps past the deadline by less than its shortest pause:   *)
(* the pause is cut to what is left of the wait, or to the shortest one,   *)
(* and an attempt is followed by a pause only before the deadline.         *)
THEOREM LockWakesByDeadline == Spec => []WakesByDeadline
<1>1. Init => WakesByDeadline
  BY DEF Init, WakesByDeadline
<1>2. TypeOK /\ WakesByDeadline /\ [Next]_vars => WakesByDeadline'
  <2> SUFFICES ASSUME TypeOK, WakesByDeadline, [Next]_vars
               PROVE  WakesByDeadline'
    OBVIOUS
  <2> USE DEF TypeOK, WakesByDeadline, Deadline
  <2>1. ASSUME NEW i \in Invocations, Sleep(i)
        PROVE  WakesByDeadline'
    <3>1. Now(i) \in Int /\ Deadline(i) \in Int /\ Now(i) < Deadline(i) /\ delay[i] \in Int
      <4>1. {started[i], Wait[i], delay[i]} \subseteq Nat /\ skew[i] \in Int /\ clock \in Nat
        BY LockAssumption
      <4>2. Now(i) < Deadline(i)
        BY <2>1 DEF Sleep
      <4> QED
        BY <4>1, <4>2 DEF Now
    <3>2. Now(i) + Pause(i) < Deadline(i) + MinPause
      BY <3>1, LockAssumption DEF Pause, Lesser, Greater
    <3> QED
      BY <2>1, <3>2 DEF Sleep
  <2>2. ASSUME NEW i \in Invocations, NEW how \in {"refused", "done", "dead"}, End(i, how)
        PROVE  WakesByDeadline'
    BY <2>2 DEF End
  <2>3. ASSUME NEW i \in Invocations, Invoke(i)
        PROVE  WakesByDeadline'
    BY <2>3 DEF Invoke
  <2>4. ASSUME NEW i \in Invocations, Wake(i) \/ Acquire(i) \/ AcquireReplyLost(i)
        PROVE  WakesByDeadline'
    BY <2>4 DEF Wake, Acquire, AcquireReplyLost, TakeLock, timers
  <2>5. CASE Tick \/ ExpireItem \/ UNCHANGED vars
    BY <2>5 DEF Tick, ExpireItem, vars, timers
  <2> QED
    BY <2>1, <2>2, <2>3, <2>4, <2>5 DEF Next, Step, GiveUp, Release, Kill
<1> QED
  BY <1>1, <1>2, LockTyping, PTL DEF Spec
=============================================================================
