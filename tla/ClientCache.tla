----------------------------- MODULE ClientCache -----------------------------
(***************************************************************************)
(* The MCP server's verifier: is_registered_cognito_client, with a cache   *)
(* in the memory of each Lambda container, in front of a registrar of      *)
(* which only the promises of Registration are known.  Between the read of *)
(* an INDEX# row and the storing of its result the row may change.         *)
(***************************************************************************)
EXTENDS Registration

CONSTANTS
    Containers,
    CacheTtl,   \* registeredClientCacheSeconds; 0 turns the cache off
    ReadTime,   \* a read of the table takes at most this long
    UriLists,
    MaxClock,   \* bound: the clock
    MaxWrites   \* bound: changes of the table

ASSUME CacheAssumption ==
    /\ {CacheMax, Lag, CacheTtl, ReadTime, MaxClock, MaxWrites} \subseteq Nat
    /\ None \notin Nat

VARIABLES
    writes,
    cache,      \* cache[c][i]: what container c remembers of client i, or None
    lookup,     \* lookup[c]: the lookup container c is busy with, or was last
    lostAt,     \* lostAt[i]: when i was last taken off the accepted (history)
    gainedAt    \* gainedAt[i]: when i was last put on them (history)

vars == <<clock, registration, writes, cache, lookup, lostAt, gainedAt>>

Mappings ==
    [id : ClientIds, enabled : BOOLEAN, fetchedAt : {clock}, cacheUntil : {clock}, uris : UriLists]

EmptyCache == [i \in ClientIds |-> None]
NoLookup == [id |-> None, phase |-> "idle", started |-> 0, ok |-> FALSE]

Init ==
    /\ RegistrationInit
    /\ writes = 0
    /\ cache = [c \in Containers |-> EmptyCache]
    /\ lookup = [c \in Containers |-> NoLookup]
    /\ lostAt = [i \in ClientIds |-> None]
    /\ gainedAt = [i \in ClientIds |-> None]

Reading(c) == lookup[c].phase \in {"read", "store"}

Tick ==
    /\ clock < MaxClock
    /\ \A c \in Containers : Reading(c) => clock < lookup[c].started + ReadTime
    /\ Pass
    /\ UNCHANGED <<writes, cache, lookup, lostAt, gainedAt>>

RegistrarWrites(u) ==
    /\ writes < MaxWrites
    /\ Disable(u) \/ Delete(u) \/ \E m \in Mappings : Confirm(u, m)
    /\ writes' = writes + 1
    /\ lostAt' = [i \in ClientIds |-> IF i \in accepted \ accepted' THEN clock ELSE lostAt[i]]
    /\ gainedAt' = [i \in ClientIds |-> IF i \in accepted' \ accepted THEN clock ELSE gainedAt[i]]
    /\ UNCHANGED <<cache, lookup>>

Lookup(c) == UNCHANGED <<clock, registration, writes, lostAt, gainedAt>>

(* Mutant: an entry is valid as long as it exists.                         *)
Hit_Forever(c, i) == cache[c][i] # None

(* Mutant: a refusal is remembered for ever.                               *)
Hit_Refusal(c, i) == cache[c][i] # None /\ (~cache[c][i].ok \/ clock - cache[c][i].at < CacheTtl)

Hit(c, i) == cache[c][i] # None /\ clock - cache[c][i].at < CacheTtl

(* The verifier asks for the client of a valid token.                      *)
Ask(c, i) ==
    /\ ~Reading(c)
    /\ lookup' = [lookup EXCEPT ![c] =
          IF Hit(c, i) THEN [id |-> i, phase |-> "answered", started |-> clock, ok |-> cache[c][i].ok]
          ELSE [id |-> i, phase |-> "read", started |-> clock, ok |-> FALSE]]
    /\ UNCHANGED cache
    /\ Lookup(c)

Read(c) ==
    /\ lookup[c].phase = "read"
    /\ lookup' = [lookup EXCEPT ![c] = [@ EXCEPT !.phase = "store", !.ok = lookup[c].id \in accepted]]
    /\ UNCHANGED cache
    /\ Lookup(c)

(* Mutant: the entry does not say when it was made.                        *)
Store_Undated(c) ==
    LET q == lookup[c]
    IN  /\ q.phase = "store"
        /\ cache' = [cache EXCEPT ![c] = [@ EXCEPT ![q.id] = [ok |-> q.ok]]]
        /\ lookup' = [lookup EXCEPT ![c] = [q EXCEPT !.phase = "answered"]]
        /\ Lookup(c)

(* The entry's age is counted from here, not from the read.                *)
Store(c) ==
    LET q == lookup[c]
    IN  /\ q.phase = "store"
        /\ cache' = [cache EXCEPT ![c] = [@ EXCEPT ![q.id] = [at |-> clock, ok |-> q.ok]]]
        /\ lookup' = [lookup EXCEPT ![c] = [q EXCEPT !.phase = "answered"]]
        /\ Lookup(c)

(* Lambda replaces the container, or the read fails and the request with   *)
(* it: then the cache is as it was.                                        *)
Recycle(c) ==
    /\ cache' = [cache EXCEPT ![c] = EmptyCache]
    /\ lookup' = [lookup EXCEPT ![c] = NoLookup]
    /\ Lookup(c)

ReadFails(c) ==
    /\ Reading(c)
    /\ lookup' = [lookup EXCEPT ![c] = NoLookup]
    /\ UNCHANGED cache
    /\ Lookup(c)

Next ==
    \/ Tick
    \/ \E u \in Urls : RegistrarWrites(u)
    \/ \E c \in Containers :
          \/ \E i \in ClientIds : Ask(c, i)
          \/ Read(c) \/ Store(c) \/ Recycle(c) \/ ReadFails(c)

Spec == Init /\ [][Next]_vars

-----------------------------------------------------------------------------
TypeOK ==
    /\ clock \in 0 .. MaxClock /\ writes \in 0 .. MaxWrites
    /\ cache \in [Containers -> [ClientIds -> [at : 0 .. MaxClock, ok : BOOLEAN] \cup {None}]]
    /\ lookup \in [Containers -> [id : ClientIds \cup {None}, phase : {"idle", "read", "store", "answered"},
                                  started : 0 .. MaxClock, ok : BOOLEAN]]
    /\ lostAt \in [ClientIds -> 0 .. MaxClock \cup {None}]
    /\ gainedAt \in [ClientIds -> 0 .. MaxClock \cup {None}]

Answers(c, i, ok) ==
    /\ lookup'[c].phase = "answered" /\ lookup'[c].id = i /\ lookup'[c].ok = ok
    /\ lookup'[c] # lookup[c]

Within(since, bound) == since # None /\ clock - since <= bound

(* The registered-client cache is a security parameter: a client that has  *)
(* been disabled, rotated away or deleted is honoured by a warm container  *)
(* for less than the cache lifetime, plus the time of one read.            *)
Grace == IF CacheTtl = 0 THEN ReadTime ELSE CacheTtl - 1 + ReadTime

DisablementBites ==
    [][\A c \in Containers, i \in ClientIds :
          Answers(c, i, TRUE) => i \in accepted \/ Within(lostAt[i], Grace)]_vars

(* The other way round: a client that has been registered or enabled again *)
(* is turned down by what a container remembers for no longer than that.   *)
EnablementReaches ==
    [][\A c \in Containers, i \in ClientIds :
          Answers(c, i, FALSE) => i \notin accepted \/ Within(gainedAt[i], Grace)]_vars

=============================================================================
