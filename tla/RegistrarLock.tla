---------------------------- MODULE RegistrarLock ----------------------------
(***************************************************************************)
(* The lock that keeps registrar invocations apart: the DynamoDB row       *)
(* LOCK#registrar, taken and given back by conditional writes              *)
(* (store.acquire_lock, store.release_lock) in the waiting loop            *)
(* handler._with_lock.  A deployment, the schedule and the proxy's         *)
(* revalidation requests each start an invocation, with a wait of its own. *)
(* Any of them may be killed at any moment, a reply of DynamoDB may be     *)
(* lost, and the clocks of two Lambda hosts differ.                        *)
(***************************************************************************)
EXTENDS Integers

CONSTANTS
    Invocations,  \* the invocations, each with an owner identifier of its own
    Wait,         \* Wait[i]: how long i waits for the lock
    Timeout,      \* Lambda ends an invocation after this long
    LockTtl,      \* LOCK_TTL_SECONDS
    Skew,         \* how far a host's clock may be off
    FirstDelay,   \* the first pause between two attempts
    MaxDelay,     \* the longest pause
    MinPause,     \* the shortest pause, 0.1 s
    NoLock,       \* the row LOCK#registrar does not exist
    MaxClock      \* bound: the clock

(* validateConfig asks for LockTtl > 1.5 Timeout; what the lock needs is   *)
(* that the part beyond Timeout covers the clocks' difference.             *)
ASSUME LockAssumption ==
    /\ {Timeout, LockTtl, Skew, MaxClock} \subseteq Nat
    /\ Wait \in [Invocations -> Nat]
    /\ {FirstDelay, MaxDelay, MinPause} \subseteq Nat \ {0}
    /\ LockTtl >= Timeout + 2 * Skew
    /\ NoLock \notin [owner : Invocations, ttl : Int]

VARIABLES
    clock,
    lock,      \* the row LOCK#registrar, or NoLock
    pc,        \* pc[i]: where invocation i is in _with_lock
    skew,      \* skew[i]: how far the clock of i's host is off
    started,   \* started[i]: when Lambda started i
    delay,     \* delay[i]: its next pause
    wakeAt     \* wakeAt[i]: the end of its present pause, on its own clock

timers == <<skew, started, delay, wakeAt>>
vars == <<clock, lock, pc, timers>>

Alive(i) == pc[i] \in {"trying", "sleeping", "holding"}
Now(i) == clock + skew[i]

(* The wait is taken to begin with the invocation: what _settings takes    *)
(* before it, to read the configuration, counts as no time.                *)
Deadline(i) == started[i] + skew[i] + Wait[i]
Lesser(a, b) == IF a < b THEN a ELSE b
Greater(a, b) == IF a > b THEN a ELSE b

Init ==
    /\ clock = 0
    /\ lock = NoLock
    /\ pc = [i \in Invocations |-> "new"]
    /\ skew = [i \in Invocations |-> 0]
    /\ started = [i \in Invocations |-> 0]
    /\ delay = [i \in Invocations |-> FirstDelay]
    /\ wakeAt = [i \in Invocations |-> 0]

(* Time passes, but no invocation outlives its timeout.                    *)
Tick ==
    /\ clock < MaxClock
    /\ \A i \in Invocations : Alive(i) => clock < started[i] + Timeout
    /\ clock' = clock + 1
    /\ UNCHANGED <<lock, pc, timers>>

(* Bound: an invocation starts early enough to reach its timeout.          *)
Invoke(i) ==
    /\ pc[i] = "new"
    /\ clock + Timeout <= MaxClock
    /\ pc' = [pc EXCEPT ![i] = "trying"]
    /\ \E s \in -Skew .. Skew : skew' = [skew EXCEPT ![i] = s]
    /\ started' = [started EXCEPT ![i] = clock]
    /\ UNCHANGED <<clock, lock, delay, wakeAt>>

(* Mutant: the condition of acquire_lock compares the other way round.     *)
LockFree_Reversed(i) == lock # NoLock => lock.ttl > Now(i)

(* The condition of acquire_lock's PutItem.                                *)
LockFree(i) == lock # NoLock => lock.ttl < Now(i)

(* Mutant: the row is written without its ttl.                             *)
TakeLock_NoTtl(i) ==
    /\ pc[i] = "trying"
    /\ LockFree(i)
    /\ lock' = [owner |-> i]
    /\ UNCHANGED <<clock, timers>>

(* Mutant: the ttl is a duration instead of a time.                        *)
TakeLock_RelativeTtl(i) ==
    /\ pc[i] = "trying"
    /\ LockFree(i)
    /\ lock' = [owner |-> i, ttl |-> LockTtl]
    /\ UNCHANGED <<clock, timers>>

TakeLock(i) ==
    /\ pc[i] = "trying"
    /\ LockFree(i)
    /\ lock' = [owner |-> i, ttl |-> Now(i) + LockTtl]
    /\ UNCHANGED <<clock, timers>>

Acquire(i) ==
    /\ TakeLock(i)
    /\ pc' = [pc EXCEPT ![i] = "holding"]

(* The row is written but the reply is lost.  The client library repeats   *)
(* the call, whose condition now fails on the invocation's own row.        *)
AcquireReplyLost(i) ==
    /\ TakeLock(i)
    /\ UNCHANGED pc

(* The invocation and its local variables are gone.                        *)
End(i, how) ==
    /\ pc' = [pc EXCEPT ![i] = how]
    /\ skew' = [skew EXCEPT ![i] = 0]
    /\ started' = [started EXCEPT ![i] = 0]
    /\ delay' = [delay EXCEPT ![i] = FirstDelay]
    /\ wakeAt' = [wakeAt EXCEPT ![i] = 0]

Refused(i) ==
    /\ pc[i] = "trying"
    /\ ~LockFree(i)

(* Mutant: the loop retries for ever.                                      *)
GiveUp_Never(i) == Refused(i) /\ FALSE /\ UNCHANGED vars

(* LockHeld at the deadline: the invocation ends without having run.       *)
GiveUp(i) ==
    /\ Refused(i)
    /\ Now(i) >= Deadline(i)
    /\ End(i, "refused")
    /\ UNCHANGED <<clock, lock>>

(* Mutant: the pause is not cut to the time that is left.                  *)
Pause_Uncapped(i) == delay[i]

Pause(i) == Lesser(delay[i], Greater(MinPause, Deadline(i) - Now(i)))

Sleep(i) ==
    /\ Refused(i)
    /\ Now(i) < Deadline(i)
    /\ pc' = [pc EXCEPT ![i] = "sleeping"]
    /\ wakeAt' = [wakeAt EXCEPT ![i] = Now(i) + Pause(i)]
    /\ delay' = [delay EXCEPT ![i] = Lesser(2 * @, MaxDelay)]
    /\ UNCHANGED <<clock, lock, skew, started>>

Wake(i) ==
    /\ pc[i] = "sleeping"
    /\ Now(i) >= wakeAt[i]
    /\ pc' = [pc EXCEPT ![i] = "trying"]
    /\ wakeAt' = [wakeAt EXCEPT ![i] = 0]
    /\ UNCHANGED <<clock, lock, skew, started, delay>>

(* fn() has returned or raised; the row is deleted if it is still ours.    *)
Release(i) ==
    /\ pc[i] = "holding"
    /\ End(i, "done")
    /\ lock' = IF lock # NoLock /\ lock.owner = i THEN NoLock ELSE lock
    /\ UNCHANGED clock

(* Lambda kills the invocation, or release_lock's own call fails: the row, *)
(* if it has one, stays.                                                   *)
Kill(i) ==
    /\ Alive(i)
    /\ End(i, "dead")
    /\ UNCHANGED <<clock, lock>>

(* DynamoDB removes an item whose ttl has passed, at a time of its choice. *)
ExpireItem ==
    /\ lock # NoLock
    /\ lock.ttl < clock
    /\ lock' = NoLock
    /\ UNCHANGED <<clock, pc, timers>>

Step(i) == Acquire(i) \/ GiveUp(i) \/ Sleep(i) \/ Wake(i) \/ Release(i)

Next ==
    \/ Tick
    \/ \E i \in Invocations :
          Invoke(i) \/ Step(i) \/ AcquireReplyLost(i) \/ Kill(i)
    \/ ExpireItem

Spec == Init /\ [][Next]_vars

(* An invocation's code runs, and time passes.                             *)
Fairness == WF_vars(Tick) /\ \A i \in Invocations : WF_vars(Step(i))

FairSpec == Spec /\ Fairness

-----------------------------------------------------------------------------
TypeOK ==
    /\ clock \in Nat
    /\ lock \in [owner : Invocations, ttl : Int] \cup {NoLock}
    /\ pc \in [Invocations -> {"new", "trying", "sleeping", "holding",
                               "refused", "done", "dead"}]
    /\ skew \in [Invocations -> -Skew .. Skew]
    /\ started \in [Invocations -> Nat]
    /\ delay \in [Invocations -> Nat \ {0}]
    /\ wakeAt \in [Invocations -> Int]

(* Two invocations never reconcile at the same time.                       *)
MutualExclusion ==
    \A i, j \in Invocations : pc[i] = "holding" /\ pc[j] = "holding" => i = j

(* An invocation that reconciles owns the row, whose ttl lies so far ahead *)
(* that no host's clock reaches it before Lambda has ended the invocation. *)
(* So nobody else's release and no TTL deletion takes it away.             *)
HolderOwnsLock ==
    \A i \in Invocations :
        pc[i] = "holding"
            => /\ lock # NoLock /\ lock.owner = i
               /\ lock.ttl >= started[i] + Timeout + Skew

(* The backoff sleeps past the deadline by less than its shortest pause,   *)
(* however long it has become: revalidate_one's caller, who has a timeout  *)
(* of its own, is answered when the wait is over.                          *)
WakesByDeadline ==
    \A i \in Invocations : pc[i] = "sleeping" => wakeAt[i] < Deadline(i) + MinPause

(* An invocation whose wait and last pause fit into its timeout ends by    *)
(* itself, even if a dead invocation's row, or its own, is in its way: the *)
(* fairness assumed lets no kill come to its help.                         *)
InvocationsEnd ==
    \A i \in Invocations : Wait[i] + MinPause <= Timeout => (Alive(i) ~> ~Alive(i))
=============================================================================
