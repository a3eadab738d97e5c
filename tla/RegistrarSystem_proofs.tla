----------------------- MODULE RegistrarSystem_proofs -----------------------
(* Theorems about RegistrarSystem, for any number of invocations and URLs, *)
(* any lists and any times: the lock goes on keeping its promises when the *)
(* invocations do their work, and what they promise together rests on it.  *)
EXTENDS RegistrarSystem, RegistrarLock_proofs

(* Every step of the system is one of the lock, or none of its business.   *)
LEMMA SystemStepIsLockStep == [SystemNext]_system => [Next]_vars
<1> SUFFICES ASSUME [SystemNext]_system
             PROVE  [Next]_vars
  OBVIOUS
<1>1. CASE PassTime
  BY <1>1 DEF PassTime, Next
<1>2. CASE EditAllowList
  BY <1>2 DEF EditAllowList
<1>3. ASSUME NEW i \in Invocations, StartInvocation(i) \/ LoseReply(i) \/ Raise(i) \/ Die(i)
      PROVE  Next
  BY <1>3 DEF StartInvocation, LoseReply, Raise, Die, Next, Step
<1>4. ASSUME NEW i \in Invocations,
             \/ WaitOn(i) \/ LeaveWithout(i) \/ LockTaken(i)
             \/ CompleteRun(i) \/ CompleteRevalidation(i)
      PROVE  Next
  BY <1>4 DEF WaitOn, LeaveWithout, LockTaken, CompleteRun, CompleteRevalidation, Next, Step
<1>5. ASSUME NEW i \in Invocations, Reconcile(i) \/ ScanRows(i) \/ Retire(i)
      PROVE  UNCHANGED vars
  BY <1>5 DEF Reconcile, ScanRows, Retire
<1>6. CASE UNCHANGED system
  BY <1>6 DEF system
<1> QED
  BY <1>1, <1>2, <1>3, <1>4, <1>5, <1>6 DEF SystemNext, Proceed

(* The system implements the lock: what holds of every behaviour of the    *)
(* lock holds of the lock inside the system.                               *)
THEOREM SystemKeepsLock == SystemSpec => Spec
<1>1. SystemInit => Init
  BY DEF SystemInit
<1> QED
  BY <1>1, SystemStepIsLockStep, PTL DEF SystemSpec, Spec

(* What goes by the state of an invocation: End moves it out of "holding". *)
LEMMA EndedIsNotAlive ==
    ASSUME TypeOK, NEW i \in Invocations,
           GiveUp(i) \/ Kill(i) \/ Release(i)
    PROVE  /\ pc'[i] \in {"refused", "dead", "done"}
           /\ \A j \in Invocations \ {i} : pc'[j] = pc[j]
  BY DEF TypeOK, GiveUp, Kill, Release, End

LEMMA SystemTypingStep ==
    ASSUME SystemTypeOK, TypeOK, [SystemNext]_system
    PROVE  SystemTypeOK'
<1> USE DEF SystemTypeOK
<1>1. CASE PassTime
  BY <1>1 DEF PassTime, config, work
<1>2. CASE EditAllowList
  BY <1>2 DEF EditAllowList, work, TypeOK
<1>3. ASSUME NEW i \in Invocations, StartInvocation(i)
      PROVE  SystemTypeOK'
  BY <1>3 DEF StartInvocation, Settings, config
<1>4. ASSUME NEW i \in Invocations, WaitOn(i) \/ LoseReply(i)
      PROVE  SystemTypeOK'
  BY <1>4 DEF WaitOn, LoseReply, config, work
<1>5. ASSUME NEW i \in Invocations, LockTaken(i)
      PROVE  SystemTypeOK'
  <2>1. PICK urls \in IF Kind[i] = "revalidate" THEN {{u} \cap env[i] : u \in Urls} ELSE {env[i]} :
           job' = [job EXCEPT ![i] = Job("reconciling", urls)]
    BY <1>5 DEF LockTaken
  <2>2. urls \subseteq Urls
    BY <2>1
  <2> QED
    BY <1>5, <2>1, <2>2 DEF LockTaken, Job, config
<1>6. ASSUME NEW i \in Invocations, Reconcile(i) \/ Retire(i)
      PROVE  SystemTypeOK'
  <2>1. PICK u \in job[i].urls :
           /\ job' = [job EXCEPT ![i] = Job(job[i].doing, job[i].urls \ {u})]
           /\ served' \in {served \cup {u}, served \ {u}, served}
    BY <1>6 DEF Reconcile, Retire
  <2>2. u \in Urls
    OBVIOUS
  <2> QED
    BY <1>6, <2>1, <2>2 DEF Reconcile, Retire, config, Job
<1>7. ASSUME NEW i \in Invocations, ScanRows(i)
      PROVE  SystemTypeOK'
  BY <1>7 DEF ScanRows, Job, config
<1>8. ASSUME NEW i \in Invocations, Forget(i)
      PROVE  SystemTypeOK'
  BY <1>8 DEF Forget, Waiting, config
<1>9. CASE UNCHANGED system
  BY <1>9 DEF system, config, work
<1> QED
  BY <1>1, <1>2, <1>3, <1>4, <1>5, <1>6, <1>7, <1>8, <1>9
     DEF SystemNext, Proceed, Raise, Die, LeaveWithout, CompleteRun, CompleteRevalidation

-----------------------------------------------------------------------------
(* What an invocation that holds the lock knows of the rows: while it      *)
(* retires, the clients it has still to disable are all that are served    *)
(* off its list.                                                           *)
RetiringCovers ==
    \A i \in Invocations :
        pc[i] = "holding" /\ job[i].doing = "retiring"
            => served \ env[i] \subseteq job[i].urls

(* What it knows of the list: an entry it works by is on the list still,   *)
(* or was taken off after the invocation had started.                      *)
ListIsRecent ==
    \A i \in Invocations : Alive(i)
        => /\ \A u \in env[i] : u \in allowed \/ started[i] <= offSince[u]
           /\ job[i].doing = "reconciling" => job[i].urls \subseteq env[i]

OnlyHoldersWork == \A i \in Invocations : pc[i] # "holding" => job[i] = Waiting

SystemInv == LockInv /\ SystemTypeOK /\ RetiringCovers /\ ListIsRecent /\ OnlyHoldersWork

(* A step of one invocation that does not touch the rows disturbs neither. *)
LEMMA ForgetsStep ==
    ASSUME SystemInv, NEW i \in Invocations,
           GiveUp(i) \/ Kill(i) \/ Release(i), Forget(i)
    PROVE  RetiringCovers' /\ ListIsRecent' /\ OnlyHoldersWork'
<1>1. /\ ~Alive(i)' /\ pc'[i] # "holding"
      /\ \A j \in Invocations \ {i} : pc'[j] = pc[j] /\ started'[j] = started[j]
                                       /\ env'[j] = env[j] /\ job'[j] = job[j]
      /\ job'[i] = Waiting
  BY EndedIsNotAlive
     DEF SystemInv, LockInv, TypeOK, SystemTypeOK, Forget, Alive, GiveUp, Kill, Release, End
<1>2. UNCHANGED <<served, allowed, offSince>>
  BY DEF Forget, config
<1> QED
  BY <1>1, <1>2 DEF SystemInv, RetiringCovers, ListIsRecent, OnlyHoldersWork, Alive

LEMMA StartStep ==
    ASSUME SystemInv, NEW i \in Invocations, StartInvocation(i)
    PROVE  RetiringCovers' /\ ListIsRecent' /\ OnlyHoldersWork'
<1> USE DEF SystemInv, LockInv, TypeOK, SystemTypeOK
<1>1. /\ pc'[i] = "trying" /\ env'[i] \subseteq allowed
      /\ \A j \in Invocations \ {i} : pc'[j] = pc[j] /\ started'[j] = started[j]
                                       /\ env'[j] = env[j]
      /\ UNCHANGED <<job, served, allowed, offSince>>
  BY DEF StartInvocation, Invoke, Settings, config
<1>2. job[i] = Waiting
  BY DEF StartInvocation, Invoke, OnlyHoldersWork
<1> QED
  BY <1>1, <1>2 DEF RetiringCovers, ListIsRecent, OnlyHoldersWork, Alive, Waiting

LEMMA LockTakenStep ==
    ASSUME SystemInv, NEW i \in Invocations, LockTaken(i)
    PROVE  RetiringCovers' /\ ListIsRecent' /\ OnlyHoldersWork'
<1> USE DEF SystemInv, LockInv, TypeOK, SystemTypeOK
<1>1. PICK urls \in IF Kind[i] = "revalidate" THEN {{u} \cap env[i] : u \in Urls} ELSE {env[i]} :
         job' = [job EXCEPT ![i] = Job("reconciling", urls)]
  BY DEF LockTaken
<1>2. urls \subseteq env[i]
  BY <1>1
<1>3. /\ pc[i] = "trying" /\ pc' = [pc EXCEPT ![i] = "holding"]
      /\ UNCHANGED <<started, env, served, allowed, offSince>>
  BY DEF LockTaken, Acquire, TakeLock, timers, config
<1>4. job'[i].doing = "reconciling" /\ job'[i].urls = urls
  BY <1>1 DEF Job
<1> QED
  BY <1>1, <1>2, <1>3, <1>4 DEF RetiringCovers, ListIsRecent, OnlyHoldersWork, Alive

(* Only the holder of the lock changes what is served, so no other is      *)
(* retiring meanwhile.                                                     *)
LEMMA ReconcileStep ==
    ASSUME SystemInv, NEW i \in Invocations, Reconcile(i) \/ Retire(i)
    PROVE  RetiringCovers' /\ ListIsRecent' /\ OnlyHoldersWork'
<1> USE DEF SystemInv, LockInv, TypeOK, SystemTypeOK
<1>1. PICK u \in job[i].urls :
         /\ job' = [job EXCEPT ![i] = Job(job[i].doing, job[i].urls \ {u})]
         /\ served' \in {served \cup {u}, served \ {u}, served}
         /\ job[i].doing = "retiring" => served' = served \ {u}
  BY DEF Reconcile, Retire
<1>2. pc[i] = "holding" /\ \A j \in Invocations : pc[j] = "holding" => j = i
  BY OneOwner DEF Reconcile, Retire, MutualExclusion
<1>3. UNCHANGED <<pc, started, env, allowed, offSince>>
  BY DEF Reconcile, Retire, vars, timers, config
<1>4. /\ job'[i].doing = job[i].doing /\ job'[i].urls = job[i].urls \ {u}
      /\ \A j \in Invocations \ {i} : job'[j] = job[j]
  BY <1>1 DEF Job
<1>5. RetiringCovers'
  BY <1>1, <1>2, <1>3, <1>4 DEF RetiringCovers
<1>6. ListIsRecent'
  BY <1>3, <1>4 DEF ListIsRecent, Alive
<1>7. OnlyHoldersWork'
  BY <1>2, <1>3, <1>4 DEF OnlyHoldersWork
<1> QED
  BY <1>5, <1>6, <1>7

LEMMA ScanRowsStep ==
    ASSUME SystemInv, NEW i \in Invocations, ScanRows(i)
    PROVE  RetiringCovers' /\ ListIsRecent' /\ OnlyHoldersWork'
<1> USE DEF SystemInv, LockInv, TypeOK, SystemTypeOK
<1>1. /\ pc[i] = "holding"
      /\ job' = [job EXCEPT ![i] = Job("retiring", served \ env[i])]
      /\ UNCHANGED <<pc, started, env, served, allowed, offSince>>
  BY DEF ScanRows, vars, timers, config
<1>2. /\ job'[i].doing = "retiring" /\ job'[i].urls = served \ env[i]
      /\ \A j \in Invocations \ {i} : job'[j] = job[j]
  BY <1>1 DEF Job
<1> QED
  BY <1>1, <1>2 DEF RetiringCovers, ListIsRecent, OnlyHoldersWork, Alive

(* A new list leaves the entries of those that have started recent: what   *)
(* it drops, it drops now.                                                 *)
LEMMA EditStep ==
    ASSUME SystemInv, EditAllowList
    PROVE  RetiringCovers' /\ ListIsRecent' /\ OnlyHoldersWork'
<1> USE DEF SystemInv, LockInv, TypeOK, SystemTypeOK
<1>1. PICK list \in SUBSET Urls :
         /\ allowed' = list
         /\ offSince' = [u \in Urls |-> IF u \in allowed \ list THEN clock ELSE offSince[u]]
  BY DEF EditAllowList
<1>2. UNCHANGED <<pc, started, env, job, served>>
  BY DEF EditAllowList, vars, timers, work
<1>3. ASSUME NEW i \in Invocations, Alive(i), NEW u \in env[i]
      PROVE  u \in allowed' \/ started[i] <= offSince'[u]
  <2>1. u \in Urls /\ started[i] <= clock /\ (u \in allowed \/ started[i] <= offSince[u])
    BY <1>3 DEF InTime, ListIsRecent
  <2> QED
    BY <1>1, <2>1
<1>4. ListIsRecent'
  BY <1>2, <1>3 DEF ListIsRecent, Alive
<1> QED
  BY <1>2, <1>4 DEF RetiringCovers, OnlyHoldersWork

LEMMA WaitStep ==
    ASSUME SystemInv, NEW i \in Invocations, WaitOn(i) \/ LoseReply(i)
    PROVE  RetiringCovers' /\ ListIsRecent' /\ OnlyHoldersWork'
<1> USE DEF SystemInv, LockInv, TypeOK, SystemTypeOK
<1>1. /\ Alive(i) /\ pc[i] # "holding" /\ pc'[i] \in {"trying", "sleeping"}
      /\ \A j \in Invocations \ {i} : pc'[j] = pc[j]
      /\ UNCHANGED <<started, env, job, served, allowed, offSince>>
  BY DEF WaitOn, LoseReply, Sleep, Wake, Refused, AcquireReplyLost, TakeLock, timers, config,
         work, Alive
<1> QED
  BY <1>1 DEF RetiringCovers, ListIsRecent, OnlyHoldersWork, Alive

LEMMA QuietStep ==
    ASSUME SystemInv, PassTime \/ UNCHANGED system
    PROVE  RetiringCovers' /\ ListIsRecent' /\ OnlyHoldersWork'
<1>1. UNCHANGED <<pc, started, env, job, served, allowed, offSince>>
  BY DEF PassTime, Tick, ExpireItem, system, vars, timers, config, work
<1> QED
  BY <1>1 DEF SystemInv, RetiringCovers, ListIsRecent, OnlyHoldersWork, Alive

LEMMA SystemInvStep ==
    ASSUME SystemInv, LockInv', [SystemNext]_system
    PROVE  SystemInv'
<1>1. SystemTypeOK'
  BY SystemTypingStep DEF SystemInv, LockInv
<1>2. RetiringCovers' /\ ListIsRecent' /\ OnlyHoldersWork'
  BY ForgetsStep, StartStep, LockTakenStep, ReconcileStep, ScanRowsStep, EditStep, WaitStep,
     QuietStep
     DEF SystemNext, Proceed, Raise, Die, LeaveWithout, CompleteRun, CompleteRevalidation
<1> QED
  BY <1>1, <1>2 DEF SystemInv

LEMMA SystemInvariant == SystemSpec => []SystemInv
<1>1. SystemInit /\ LockInv => SystemInv
  BY DEF SystemInit, Init, SystemInv, SystemTypeOK, RetiringCovers, ListIsRecent,
         OnlyHoldersWork, Alive, Waiting
<1>2. SystemInv /\ LockInv' /\ [SystemNext]_system => SystemInv'
  BY SystemInvStep
<1> QED
  BY <1>1, <1>2, SystemKeepsLock, LockInvariant, PTL DEF SystemSpec

-----------------------------------------------------------------------------
(* A run that comes to its end leaves nobody served off the list it has    *)
(* worked by, because nobody else has worked since its scan.               *)
THEOREM SystemRunDecides == SystemSpec => RunDecides
<1>1. SystemInv /\ [SystemNext]_system
        => [\A i \in Invocations : CompleteRun(i) => served' \subseteq env[i]]_system
  <2> SUFFICES ASSUME SystemInv, NEW i \in Invocations, CompleteRun(i)
               PROVE  served' \subseteq env[i]
    OBVIOUS
  <2>1. pc[i] = "holding" /\ job[i].doing = "retiring" /\ job[i].urls = {} /\ served' = served
    BY DEF CompleteRun, Release, Forget, Job
  <2> QED
    BY <2>1 DEF SystemInv, RetiringCovers
<1> QED
  BY <1>1, SystemInvariant, PTL DEF SystemSpec, RunDecides

(* Whoever brings a client back that is off the list has started before it *)
(* was dropped, and does not live longer than Lambda's timeout.            *)
THEOREM SystemRemovedStaysOut == SystemSpec => RemovedStaysOut
<1>1. SystemInv /\ [SystemNext]_system
        => [\A u \in served' \ served :
               u \in allowed \/ clock <= offSince[u] + Timeout]_system
  <2> SUFFICES ASSUME SystemInv, SystemNext, NEW u \in served' \ served
               PROVE  u \in allowed \/ clock <= offSince[u] + Timeout
    OBVIOUS
  <2> USE DEF SystemInv, LockInv, TypeOK, SystemTypeOK
  <2>1. PICK i \in Invocations : Reconcile(i)
    BY DEF SystemNext, Proceed, PassTime, EditAllowList, StartInvocation, WaitOn, LeaveWithout,
           LockTaken, ScanRows, Retire, CompleteRun, CompleteRevalidation, LoseReply, Raise, Die,
           Forget
  <2>2. pc[i] = "holding" /\ job[i].doing = "reconciling" /\ u \in job[i].urls
    BY <2>1 DEF Reconcile
  <2>3. u \in env[i] /\ (u \in allowed \/ started[i] <= offSince[u])
    BY <2>2 DEF ListIsRecent, Alive
  <2>4. clock <= started[i] + Timeout
    BY <2>2 DEF InTime, Alive
  <2>5. /\ clock \in Nat /\ started[i] \in Nat /\ offSince[u] \in Nat /\ Timeout \in Nat
    BY <2>3, LockAssumption
  <2> QED
    BY <2>3, <2>4, <2>5
<1> QED
  BY <1>1, SystemInvariant, PTL DEF SystemSpec, RemovedStaysOut
=============================================================================
