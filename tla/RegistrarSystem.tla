--------------------------- MODULE RegistrarSystem ---------------------------
(***************************************************************************)
(* The registrar's invocations together: each takes the allow-list of its  *)
(* function's environment when it starts, waits for the lock, and then     *)
(* works by the list it took, which the operator may have changed since.   *)
(* What an invocation does to a client is reduced to whether the client    *)
(* is served afterwards; Registrar has the rest.  Scans are taken to be    *)
(* consistent.                                                             *)
(***************************************************************************)
EXTENDS RegistrarLock

CONSTANTS
    Urls,       \* client_id URLs
    Kind,       \* Kind[i]: what has started i
    MaxEdits    \* bound: changes of the allow-list

ASSUME KindAssumption ==
    Kind \in [Invocations -> {"deploy", "schedule", "revalidate", "delete"}]

VARIABLES
    allowed,    \* ALLOWED_CLIENTS of the function as it is deployed
    edits,      \* how often it was changed
    offSince,   \* offSince[u]: when u was taken off it
    env,        \* env[i]: the allow-list i works by
    job,        \* job[i]: what i does with which clients
    served      \* the clients whose row is enabled

work == <<env, job>>
config == <<allowed, edits, offSince>>
system == <<vars, config, work, served>>

Waiting == [doing |-> "waiting", urls |-> {}]
Job(what, urls) == [doing |-> what, urls |-> urls]

SystemInit ==
    /\ Init
    /\ allowed = Urls /\ edits = 0
    /\ offSince = [u \in Urls |-> 0]
    /\ env = [i \in Invocations |-> {}]
    /\ job = [i \in Invocations |-> Waiting]
    /\ served = {}

(* A deployment replaces the environment of the function: invocations that *)
(* have started keep the old one.                                          *)
EditAllowList ==
    /\ edits < MaxEdits
    /\ \E list \in SUBSET Urls \ {allowed} :
          /\ allowed' = list
          /\ offSince' = [u \in Urls |-> IF u \in allowed \ list THEN clock ELSE offSince[u]]
    /\ edits' = edits + 1
    /\ UNCHANGED <<vars, work, served>>

(* Mutant: a container reads its settings once and keeps them.             *)
Settings_Kept(i) == Urls

(* _settings, at the start of every invocation.  delete_all asks nobody.   *)
Settings(i) == IF Kind[i] = "delete" THEN {} ELSE allowed

StartInvocation(i) ==
    /\ Invoke(i)
    /\ env' = [env EXCEPT ![i] = Settings(i)]
    /\ UNCHANGED <<config, job, served>>

(* run() goes through its whole list, revalidate_one looks up one URL in   *)
(* it, delete_all goes straight to the rows.                               *)
LockTaken(i) ==
    /\ Acquire(i)
    /\ \E urls \in IF Kind[i] = "revalidate" THEN {{u} \cap env[i] : u \in Urls} ELSE {env[i]} :
          job' = [job EXCEPT ![i] = Job("reconciling", urls)]
    /\ UNCHANGED <<config, env, served>>

(* Waiting for the lock, without it.                                       *)
WaitOn(i) ==
    /\ Sleep(i) \/ Wake(i)
    /\ UNCHANGED <<config, work, served>>

LoseReply(i) == AcquireReplyLost(i) /\ UNCHANGED <<config, work, served>>

(* One client is reconciled: confirmed, disabled, or left as it is.        *)
Reconcile(i) ==
    /\ pc[i] = "holding" /\ job[i].doing = "reconciling"
    /\ \E u \in job[i].urls :
          /\ job' = [job EXCEPT ![i] = Job(@.doing, @.urls \ {u})]
          /\ served' \in {served \cup {u}, served \ {u}, served}
    /\ UNCHANGED <<vars, config, env>>

(* _retire_removed, delete_all: which rows are no longer on the list?      *)
ScanRows(i) ==
    /\ pc[i] = "holding" /\ job[i] = Job("reconciling", {})
    /\ Kind[i] # "revalidate"
    /\ job' = [job EXCEPT ![i] = Job("retiring", served \ env[i])]
    /\ UNCHANGED <<vars, config, env, served>>

Retire(i) ==
    /\ pc[i] = "holding" /\ job[i].doing = "retiring"
    /\ \E u \in job[i].urls :
          /\ job' = [job EXCEPT ![i] = Job(@.doing, @.urls \ {u})]
          /\ served' = served \ {u}
    /\ UNCHANGED <<vars, config, env>>

(* The invocation's local variables are gone.                              *)
Forget(i) ==
    /\ env' = [env EXCEPT ![i] = {}]
    /\ job' = [job EXCEPT ![i] = Waiting]
    /\ UNCHANGED <<config, served>>

(* A run is through with its list and with the rows.                       *)
CompleteRun(i) ==
    /\ Release(i)
    /\ job[i] = Job("retiring", {})
    /\ Forget(i)

CompleteRevalidation(i) ==
    /\ Release(i)
    /\ job[i] = Job("reconciling", {}) /\ Kind[i] = "revalidate"
    /\ Forget(i)

(* A call of AWS outside the loop over the list has failed.                *)
Raise(i) == Release(i) /\ Forget(i)

LeaveWithout(i) == GiveUp(i) /\ Forget(i)

Die(i) == Kill(i) /\ Forget(i)

PassTime == (Tick \/ ExpireItem) /\ UNCHANGED <<config, work, served>>

Proceed(i) ==
    \/ WaitOn(i) \/ LeaveWithout(i)
    \/ LockTaken(i) \/ Reconcile(i) \/ ScanRows(i) \/ Retire(i)
    \/ CompleteRun(i) \/ CompleteRevalidation(i)

SystemNext ==
    \/ PassTime
    \/ EditAllowList
    \/ \E i \in Invocations :
          StartInvocation(i) \/ Proceed(i) \/ LoseReply(i) \/ Raise(i) \/ Die(i)

SystemSpec == SystemInit /\ [][SystemNext]_system

(* An invocation's code runs, and time passes.                             *)
SystemFairness ==
    WF_system(PassTime) /\ \A i \in Invocations : WF_system(Proceed(i))

FairSystem == SystemSpec /\ SystemFairness

-----------------------------------------------------------------------------
SystemTypeOK ==
    /\ allowed \subseteq Urls /\ served \subseteq Urls
    /\ edits \in Nat
    /\ offSince \in [Urls -> Nat]
    /\ env \in [Invocations -> SUBSET Urls]
    /\ job \in [Invocations -> [doing : {"waiting", "reconciling", "retiring"},
                                urls : SUBSET Urls]]

(* A run that comes to its end leaves nobody served but clients of the     *)
(* list it started with, whatever older or newer lists the invocations     *)
(* before it worked by: the lock lets none of them in between its scan and *)
(* its end.                                                                *)
RunDecides ==
    [][\A i \in Invocations : CompleteRun(i) => served' \subseteq env[i]]_system

(* An invocation that waits for the lock may bring a client back which the *)
(* deployment before it has retired, because it goes by the list of its    *)
(* start; but not later than Lambda's timeout after the list has changed.  *)
RemovedStaysOut ==
    [][\A u \in served' \ served :
          u \in allowed \/ clock <= offSince[u] + Timeout]_system
=============================================================================
