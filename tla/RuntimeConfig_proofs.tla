------------------------ MODULE RuntimeConfig_proofs ------------------------
(***************************************************************************)
(* Theorems about what a Lambda container remembers, the registered        *)
(* clients of ClientCache and the URLs of RuntimeConfig, for any number of *)
(* containers, clients and parameters and any lifetimes.                   *)
(***************************************************************************)
EXTENDS RuntimeConfig, TLAPS

(* A behaviour of ConfigSpec is about one of the two caches, and leaves    *)
(* the other one's requests alone.                                         *)
OneCache ==
    /\ watched = "clients" => \A c \in Containers : request[c].phase # "reading"
    /\ watched = "urls" => \A c \in Containers : ~Reading(c)

LEMMA WritesKeepClock ==
    ASSUME NEW u \in Urls, RegistrarWrites(u)
    PROVE  clock' = clock /\ UNCHANGED <<cache, lookup>>
  BY DEF RegistrarWrites, Confirm, Register, Refresh, Rotate, Disable, Delete, Write

LEMMA OneCacheInvariant == ConfigSpec => []OneCache
<1>1. ConfigInit => OneCache
  BY DEF ConfigInit, Init, OneCache, NoRequest, NoLookup, Reading
<1>2. OneCache /\ [ConfigNext]_all => OneCache'
  BY DEF OneCache, ConfigNext, all, vars, config, UrlsNext, PassTime, WriteParam, GetUrls, ReadPage,
         Remember, Unavailable, NewContainer, Requests, Reading
<1>. QED  BY <1>1, <1>2, PTL DEF ConfigSpec

-----------------------------------------------------------------------------
(* The registered clients.                                                 *)

(* A lookup that is under way is about a client.                           *)
CacheTypes ==
    /\ TypeOK
    /\ \A c \in Containers : Reading(c) => lookup[c].id \in ClientIds

LEMMA LookupChanges ==
    ASSUME TypeOK, NEW c \in Containers, NEW q, lookup' = [lookup EXCEPT ![c] = q]
    PROVE  lookup'[c] = q /\ \A d \in Containers \ {c} : lookup'[d] = lookup[d]
  BY DEF TypeOK

LEMMA CacheTypesStep == CacheTypes /\ [ConfigNext]_all => CacheTypes'
<1>. SUFFICES ASSUME CacheTypes, [ConfigNext]_all PROVE CacheTypes'
  OBVIOUS
<1>. USE CacheAssumption
<1>1. ASSUME UNCHANGED <<writes, cache, lookup, lostAt, gainedAt>>, clock' \in 0 .. MaxClock
      PROVE  CacheTypes'
  BY <1>1 DEF CacheTypes, TypeOK, Reading
<1>2. CASE Tick \/ PassTime
  <2>1. clock' \in 0 .. MaxClock
    BY <1>2 DEF Tick, PassTime, Pass, CacheTypes, TypeOK
  <2>. QED  BY <1>1, <1>2, <2>1 DEF Tick, PassTime
<1>3. ASSUME NEW u \in Urls, RegistrarWrites(u) PROVE CacheTypes'
  <2>1. TypeOK'
    BY <1>3, WritesKeepClock DEF RegistrarWrites, CacheTypes, TypeOK
  <2>. QED  BY <1>3, <2>1, WritesKeepClock DEF CacheTypes, Reading
<1>4. ASSUME NEW c \in Containers, NEW q, q \in [id : ClientIds \cup {None},
                 phase : {"idle", "read", "store", "answered"}, started : 0 .. MaxClock, ok : BOOLEAN],
             q.phase \in {"read", "store"} => q.id \in ClientIds,
             lookup' = [lookup EXCEPT ![c] = q], UNCHANGED <<clock, writes, lostAt, gainedAt>>,
             cache' \in [Containers -> [ClientIds -> [at : 0 .. MaxClock, ok : BOOLEAN] \cup {None}]]
      PROVE  CacheTypes'
  <2>1. TypeOK'
    BY <1>4 DEF CacheTypes, TypeOK
  <2>. QED  BY <1>4, <2>1, LookupChanges DEF CacheTypes, Reading
<1>5. ASSUME NEW c \in Containers, NEW i \in ClientIds, Ask(c, i) PROVE CacheTypes'
  <2>. DEFINE q == IF Hit(c, i)
                   THEN [id |-> i, phase |-> "answered", started |-> clock, ok |-> cache[c][i].ok]
                   ELSE [id |-> i, phase |-> "read", started |-> clock, ok |-> FALSE]
  <2>1. Hit(c, i) => cache[c][i].ok \in BOOLEAN
    BY DEF Hit, CacheTypes, TypeOK
  <2>2. /\ q \in [id : ClientIds \cup {None}, phase : {"idle", "read", "store", "answered"},
                  started : 0 .. MaxClock, ok : BOOLEAN]
        /\ q.phase \in {"read", "store"} => q.id \in ClientIds
    BY <2>1 DEF CacheTypes, TypeOK
  <2>3. lookup' = [lookup EXCEPT ![c] = q]
    BY <1>5 DEF Ask
  <2>. HIDE DEF q
  <2>. QED  BY <1>4, <1>5, <2>2, <2>3 DEF Ask, Lookup, CacheTypes, TypeOK
<1>6. ASSUME NEW c \in Containers, Read(c) PROVE CacheTypes'
  <2>. DEFINE is == lookup[c].id \in accepted
              q == [lookup[c] EXCEPT !.phase = "store", !.ok = is]
  <2>1. is \in BOOLEAN
    OBVIOUS
  <2>2. lookup' = [lookup EXCEPT ![c] = q]
    BY <1>6 DEF Read
  <2>. HIDE DEF is
  <2>3. lookup[c].id \in ClientIds
    BY <1>6 DEF Read, Reading, CacheTypes
  <2>4. /\ q \in [id : ClientIds \cup {None}, phase : {"idle", "read", "store", "answered"},
                  started : 0 .. MaxClock, ok : BOOLEAN]
        /\ q.id = lookup[c].id
    BY <2>1 DEF CacheTypes, TypeOK
  <2>. HIDE DEF q
  <2>. QED  BY <1>4, <1>6, <2>2, <2>3, <2>4 DEF Read, Lookup, CacheTypes, TypeOK
<1>7. ASSUME NEW c \in Containers, Store(c) PROVE CacheTypes'
  <2>. DEFINE q == [lookup[c] EXCEPT !.phase = "answered"]
              entry == [at |-> clock, ok |-> lookup[c].ok]
  <2>1. /\ lookup' = [lookup EXCEPT ![c] = q] /\ lookup[c].id \in ClientIds
        /\ cache' = [cache EXCEPT ![c] = [@ EXCEPT ![lookup[c].id] = entry]]
    BY <1>7 DEF Store, Reading, CacheTypes
  <2>2. /\ q \in [id : ClientIds \cup {None}, phase : {"idle", "read", "store", "answered"},
                  started : 0 .. MaxClock, ok : BOOLEAN]
        /\ q.phase = "answered" /\ entry \in [at : 0 .. MaxClock, ok : BOOLEAN]
    BY DEF CacheTypes, TypeOK
  <2>. HIDE DEF q, entry
  <2>3. cache' \in [Containers -> [ClientIds -> [at : 0 .. MaxClock, ok : BOOLEAN] \cup {None}]]
    BY <2>1, <2>2 DEF CacheTypes, TypeOK
  <2>. QED  BY <1>4, <1>7, <2>1, <2>2, <2>3 DEF Store, Lookup
<1>8. ASSUME NEW c \in Containers, Recycle(c) \/ ReadFails(c) PROVE CacheTypes'
  <2>1. /\ NoLookup \in [id : ClientIds \cup {None}, phase : {"idle", "read", "store", "answered"},
                         started : 0 .. MaxClock, ok : BOOLEAN]
        /\ NoLookup.phase = "idle"
    BY DEF NoLookup
  <2>2. cache' \in [Containers -> [ClientIds -> [at : 0 .. MaxClock, ok : BOOLEAN] \cup {None}]]
    <3>1. EmptyCache \in [ClientIds -> [at : 0 .. MaxClock, ok : BOOLEAN] \cup {None}]
      BY DEF EmptyCache
    <3>2. CASE Recycle(c)
      BY <3>1, <3>2 DEF Recycle, CacheTypes, TypeOK
    <3>3. CASE ReadFails(c)
      BY <3>3 DEF ReadFails, CacheTypes, TypeOK
    <3>. QED  BY <1>8, <3>2, <3>3
  <2>. QED  BY <1>4, <1>8, <2>1, <2>2 DEF Recycle, ReadFails, Lookup
<1>9. ASSUME UNCHANGED vars PROVE CacheTypes'
  BY <1>1, <1>9 DEF vars, CacheTypes, TypeOK
<1>. QED  BY <1>2, <1>3, <1>5, <1>6, <1>7, <1>8, <1>9 DEF ConfigNext, all, Next, UrlsNext, WriteParam,
          GetUrls, ReadPage, Remember, Unavailable, NewContainer, Requests

LEMMA CacheTypesInvariant == ConfigSpec => []CacheTypes
<1>1. ConfigInit => CacheTypes
  BY CacheAssumption DEF ConfigInit, Init, RegistrationInit, CacheTypes, TypeOK, EmptyCache, NoLookup, Reading
<1>. QED  BY <1>1, CacheTypesStep, PTL DEF ConfigSpec

(* Every variable of the verifier keeps its type.                          *)
THEOREM ClientCacheTyping == ConfigSpec => []TypeOK
<1>1. CacheTypes => TypeOK
  BY DEF CacheTypes
<1>. QED  BY <1>1, CacheTypesInvariant, PTL

(* At t or later the answer `ok' was right about client i; the same after  *)
(* a step.                                                                 *)
RightSince(i, ok, t) ==
    IF ok THEN i \in accepted \/ (lostAt[i] # None /\ lostAt[i] >= t)
          ELSE i \notin accepted \/ (gainedAt[i] # None /\ gainedAt[i] >= t)
StillRight(i, ok, t) ==
    IF ok THEN i \in accepted' \/ (lostAt'[i] # None /\ lostAt'[i] >= t)
          ELSE i \notin accepted' \/ (gainedAt'[i] # None /\ gainedAt'[i] >= t)

(* What has been read was right when the lookup began or later, and no     *)
(* lookup takes longer than ReadTime; what is remembered was right at most *)
(* ReadTime before it was stored.                                          *)
RememberInv ==
    /\ \A c \in Containers :
          Reading(c) => lookup[c].started <= clock /\ clock <= lookup[c].started + ReadTime
    /\ \A c \in Containers :
          lookup[c].phase = "store" => RightSince(lookup[c].id, lookup[c].ok, lookup[c].started)
    /\ \A c \in Containers, i \in ClientIds :
          cache[c][i] # None
              => cache[c][i].at <= clock /\ RightSince(i, cache[c][i].ok, cache[c][i].at - ReadTime)

LEMMA RightSinceEarlier ==
    ASSUME TypeOK, NEW i \in ClientIds, NEW ok, NEW t \in Int, NEW s \in Int, s <= t,
           RightSince(i, ok, t)
    PROVE  RightSince(i, ok, s)
  BY CacheAssumption DEF RightSince, TypeOK

Serves(c) == Read(c) \/ Store(c) \/ Recycle(c) \/ ReadFails(c) \/ \E i \in ClientIds : Ask(c, i)

LEMMA CacheSteps ==
    ASSUME [ConfigNext]_all
    PROVE  \/ watched = "clients" /\ Tick
           \/ watched = "urls" /\ PassTime
           \/ \E u \in Urls : RegistrarWrites(u)
           \/ \E c \in Containers : Serves(c)
           \/ UNCHANGED vars
  BY DEF ConfigNext, all, Next, Serves, UrlsNext, WriteParam, GetUrls, ReadPage, Remember, Unavailable,
         NewContainer, Requests

LEMMA ServesKeeps == ASSUME NEW c, Serves(c) PROVE Lookup(c)
  BY DEF Serves, Ask, Read, Store, Recycle, ReadFails

(* A client that changes sides does so now.                                *)
LEMMA RightSinceKept ==
    ASSUME TypeOK, [ConfigNext]_all, NEW i \in ClientIds, NEW ok, NEW t \in Int, t <= clock,
           RightSince(i, ok, t)
    PROVE  StillRight(i, ok, t)
<1>1. CASE UNCHANGED <<accepted, lostAt, gainedAt>>
  BY <1>1 DEF RightSince, StillRight
<1>2. ASSUME NEW u \in Urls, RegistrarWrites(u) PROVE StillRight(i, ok, t)
  <2>1. /\ lostAt'[i] = IF i \in accepted /\ i \notin accepted' THEN clock ELSE lostAt[i]
        /\ gainedAt'[i] = IF i \in accepted' /\ i \notin accepted THEN clock ELSE gainedAt[i]
    BY <1>2 DEF RegistrarWrites
  <2>2. clock \in Nat /\ clock # None
    BY CacheAssumption DEF TypeOK
  <2>. QED  BY <2>1, <2>2 DEF RightSince, StillRight
<1>3. (\E u \in Urls : RegistrarWrites(u)) \/ UNCHANGED <<accepted, lostAt, gainedAt>>
  BY CacheSteps, ServesKeeps DEF vars, registration, Tick, PassTime, Pass, Lookup
<1>. QED  BY <1>1, <1>2, <1>3

(* The numbers that the step is about.                                     *)
LEMMA CacheNumbers ==
    ASSUME CacheTypes, NEW c \in Containers
    PROVE  /\ clock \in Nat /\ ReadTime \in Nat /\ CacheTtl \in Nat
           /\ lookup[c].started \in Nat /\ lookup[c].ok \in BOOLEAN
           /\ \A i \in ClientIds :
                 cache[c][i] # None => cache[c][i].at \in Nat /\ cache[c][i].ok \in BOOLEAN
  BY CacheAssumption DEF CacheTypes, TypeOK

(* A container that the step is not about.                                 *)
LEMMA OthersRemember ==
    ASSUME OneCache, CacheTypes, CacheTypes', RememberInv, [ConfigNext]_all, NEW c \in Containers
    PROVE  /\ lookup'[c] = lookup[c] /\ clock' = clock
                 => (Reading(c)' => lookup'[c].started <= clock' /\ clock' <= lookup'[c].started + ReadTime)
           /\ lookup'[c] = lookup[c] /\ lookup[c].phase = "store"
                 => StillRight(lookup'[c].id, lookup'[c].ok, lookup'[c].started)
           /\ \A i \in ClientIds :
                 cache'[c][i] = cache[c][i] /\ cache[c][i] # None /\ clock <= clock'
                     => /\ cache'[c][i].at <= clock'
                        /\ StillRight(i, cache'[c][i].ok, cache'[c][i].at - ReadTime)
<1>0. TypeOK
  BY DEF CacheTypes
<1>1. lookup'[c] = lookup[c] /\ clock' = clock
          => (Reading(c)' => lookup'[c].started <= clock' /\ clock' <= lookup'[c].started + ReadTime)
  BY DEF RememberInv, Reading
<1>2. ASSUME lookup'[c] = lookup[c], lookup[c].phase = "store"
      PROVE  StillRight(lookup'[c].id, lookup'[c].ok, lookup'[c].started)
  <2>1. /\ RightSince(lookup[c].id, lookup[c].ok, lookup[c].started)
        /\ lookup[c].started <= clock /\ lookup[c].started \in Int /\ lookup[c].id \in ClientIds
    BY <1>2, CacheNumbers DEF RememberInv, Reading, CacheTypes
  <2>. QED  BY <1>0, <1>2, <2>1, RightSinceKept
<1>3. ASSUME NEW i \in ClientIds, cache'[c][i] = cache[c][i], cache[c][i] # None, clock <= clock'
      PROVE  /\ cache'[c][i].at <= clock'
             /\ StillRight(i, cache'[c][i].ok, cache'[c][i].at - ReadTime)
  <2>1. /\ RightSince(i, cache[c][i].ok, cache[c][i].at - ReadTime)
        /\ cache[c][i].at <= clock /\ cache[c][i].at \in Nat
    BY <1>3, CacheNumbers DEF RememberInv
  <2>2. cache[c][i].at - ReadTime \in Int /\ cache[c][i].at - ReadTime <= clock
    BY <2>1, CacheNumbers
  <2>3. clock \in Nat /\ clock' \in Nat
    BY <1>0 DEF TypeOK, CacheTypes
  <2>. QED  BY <1>0, <1>3, <2>1, <2>2, <2>3, RightSinceKept
<1>. QED  BY <1>1, <1>2, <1>3

LEMMA ClockGoesOn == CacheTypes /\ [ConfigNext]_all => clock' = clock \/ clock' = clock + 1
  BY CacheSteps, ServesKeeps, WritesKeepClock DEF vars, Tick, PassTime, Pass, Lookup

LEMMA RememberStep ==
    OneCache /\ CacheTypes /\ CacheTypes' /\ RememberInv /\ [ConfigNext]_all => RememberInv'
<1>. SUFFICES ASSUME OneCache, CacheTypes, CacheTypes', RememberInv, [ConfigNext]_all,
                     NEW c \in Containers
              PROVE  /\ Reading(c)' => lookup'[c].started <= clock' /\ clock' <= lookup'[c].started + ReadTime
                     /\ lookup'[c].phase = "store" => StillRight(lookup'[c].id, lookup'[c].ok, lookup'[c].started)
                     /\ \A i \in ClientIds :
                           cache'[c][i] # None
                               => /\ cache'[c][i].at <= clock'
                                  /\ StillRight(i, cache'[c][i].ok, cache'[c][i].at - ReadTime)
  BY DEF RememberInv, RightSince, StillRight
<1>0. /\ clock \in Nat /\ clock' \in Nat /\ ReadTime \in Nat /\ clock <= clock' /\ TypeOK
      /\ lookup[c].started \in Nat
  BY ClockGoesOn, CacheNumbers DEF CacheTypes
<1>1. CASE Tick \/ PassTime
  <2>1. lookup'[c] = lookup[c] /\ cache' = cache /\ clock' = clock + 1
    BY <1>1 DEF Tick, PassTime, Pass
  <2>2. Reading(c) => clock < lookup[c].started + ReadTime /\ lookup[c].started <= clock
    <3>1. CASE Tick
      BY <3>1 DEF Tick, RememberInv
    <3>2. CASE PassTime /\ watched = "urls"
      BY <3>2 DEF OneCache
    <3>3. Tick \/ (PassTime /\ watched = "urls")
      <4>1. ASSUME NEW d \in Containers, Serves(d) PROVE clock' = clock
        BY <4>1, ServesKeeps DEF Lookup
      <4>2. UNCHANGED vars => clock' = clock
        BY DEF vars
      <4>. QED  BY <1>0, <2>1, <4>1, <4>2, CacheSteps, WritesKeepClock
    <3>. QED  BY <3>1, <3>2, <3>3
  <2>3. Reading(c)' => lookup'[c].started <= clock' /\ clock' <= lookup'[c].started + ReadTime
    BY <1>0, <2>1, <2>2 DEF Reading
  <2>. QED  BY <1>0, <2>1, <2>3, OthersRemember
<1>2. CASE lookup'[c] = lookup[c] /\ cache'[c] = cache[c] /\ clock' = clock
  BY <1>0, <1>2, OthersRemember
<1>3. ASSUME Serves(c)
      PROVE  /\ Reading(c)' => lookup'[c].started <= clock' /\ clock' <= lookup'[c].started + ReadTime
             /\ lookup'[c].phase = "store" => StillRight(lookup'[c].id, lookup'[c].ok, lookup'[c].started)
             /\ \A i \in ClientIds :
                   cache'[c][i] # None
                       => /\ cache'[c][i].at <= clock'
                          /\ StillRight(i, cache'[c][i].ok, cache'[c][i].at - ReadTime)
  <2>0. UNCHANGED <<clock, accepted, lostAt, gainedAt>>
    BY <1>3, ServesKeeps DEF Lookup, registration
  <2>1. ASSUME NEW i \in ClientIds, Ask(c, i)
        PROVE  /\ Reading(c)' => lookup'[c].started = clock
               /\ lookup'[c].phase # "store" /\ cache' = cache
    BY <1>0, <2>1, LookupChanges DEF Ask, Reading
  <2>2. CASE Read(c)
    <3>. DEFINE is == lookup[c].id \in accepted
    <3>1. is \in BOOLEAN
      OBVIOUS
    <3>2. lookup[c].phase = "read" /\ lookup'[c] = [lookup[c] EXCEPT !.phase = "store", !.ok = is] /\ cache' = cache
      BY <1>0, <2>2, LookupChanges DEF Read
    <3>. HIDE DEF is
    <3>3. /\ lookup'[c].id = lookup[c].id /\ lookup'[c].started = lookup[c].started
          /\ lookup'[c].ok = is /\ Reading(c)
      BY <1>0, <3>1, <3>2 DEF TypeOK, Reading
    <3>4. lookup[c].started <= clock /\ clock <= lookup[c].started + ReadTime
      BY <3>3 DEF RememberInv
    <3>5. StillRight(lookup'[c].id, lookup'[c].ok, lookup'[c].started)
      BY <2>0, <3>3 DEF StillRight, is
    <3>. QED  BY <1>0, <2>0, <3>2, <3>3, <3>4, <3>5, OthersRemember
  <2>3. CASE Store(c)
    <3>. DEFINE entry == [at |-> clock, ok |-> lookup[c].ok]
    <3>1. /\ lookup[c].phase = "store" /\ lookup[c].id \in ClientIds
          /\ lookup'[c] = [lookup[c] EXCEPT !.phase = "answered"]
          /\ cache' = [cache EXCEPT ![c] = [@ EXCEPT ![lookup[c].id] = entry]]
      BY <1>0, <2>3, LookupChanges DEF Store, CacheTypes, Reading
    <3>2. lookup'[c].phase = "answered"
      BY <1>0, <3>1 DEF TypeOK
    <3>3. RightSince(lookup[c].id, lookup[c].ok, clock - ReadTime)
      <4>1. /\ RightSince(lookup[c].id, lookup[c].ok, lookup[c].started)
            /\ clock <= lookup[c].started + ReadTime
        BY <3>1 DEF RememberInv, Reading
      <4>2. clock - ReadTime <= lookup[c].started /\ clock - ReadTime \in Int
        BY <1>0, <4>1
      <4>. QED  BY <1>0, <3>1, <4>1, <4>2, RightSinceEarlier
    <3>4. entry.at = clock /\ entry.ok = lookup[c].ok
      OBVIOUS
    <3>. HIDE DEF entry
    <3>5. /\ cache'[c][lookup[c].id] = entry
          /\ \A i \in ClientIds : i # lookup[c].id => cache'[c][i] = cache[c][i]
      BY <1>0, <3>1 DEF TypeOK
    <3>6. StillRight(lookup[c].id, lookup[c].ok, clock - ReadTime)
      BY <2>0, <3>3 DEF RightSince, StillRight
    <3>. QED  BY <1>0, <2>0, <3>2, <3>4, <3>5, <3>6, OthersRemember DEF Reading
  <2>4. CASE Recycle(c) \/ ReadFails(c)
    <3>1. lookup'[c] = NoLookup /\ (cache'[c] = EmptyCache \/ cache' = cache)
      BY <1>0, <2>4, LookupChanges DEF Recycle, ReadFails, TypeOK
    <3>2. \A i \in ClientIds : cache'[c][i] = None \/ cache'[c][i] = cache[c][i]
      BY <3>1 DEF EmptyCache
    <3>. QED  BY <1>0, <3>1, <3>2, OthersRemember DEF NoLookup, Reading
  <2>. QED  BY <1>0, <1>3, <2>0, <2>1, <2>2, <2>3, <2>4, OthersRemember DEF Serves
<1>4. ASSUME NEW d \in Containers, d # c, Serves(d)
      PROVE  lookup'[c] = lookup[c] /\ cache'[c] = cache[c] /\ clock' = clock
  <2>1. clock' = clock
    BY <1>4, ServesKeeps DEF Lookup
  <2>2. lookup'[c] = lookup[c]
    BY <1>0, <1>4, LookupChanges DEF Serves, Ask, Read, Store, Recycle, ReadFails
  <2>3. cache' = cache \/ \E m : cache' = [cache EXCEPT ![d] = m]
    BY <1>4 DEF Serves, Ask, Read, Store, Recycle, ReadFails
  <2>4. cache'[c] = cache[c]
    BY <1>0, <1>4, <2>3 DEF TypeOK
  <2>. QED  BY <2>1, <2>2, <2>4
<1>. QED  BY <1>1, <1>2, <1>3, <1>4, CacheSteps, WritesKeepClock DEF vars

LEMMA RememberInvariant == ConfigSpec => []RememberInv
<1>1. ConfigInit => RememberInv
  BY DEF ConfigInit, Init, RememberInv, Reading, NoLookup, EmptyCache
<1>. QED  BY <1>1, RememberStep, OneCacheInvariant, CacheTypesInvariant, PTL DEF ConfigSpec

(* What an answer may rest on, whichever it is.                            *)
LEMMA AnswerWithinGrace ==
    ASSUME CacheTypes, RememberInv, [ConfigNext]_all, NEW c \in Containers, NEW i \in ClientIds,
           NEW ok \in BOOLEAN, Answers(c, i, ok)
    PROVE  IF ok THEN i \in accepted \/ Within(lostAt[i], Grace)
                 ELSE i \notin accepted \/ Within(gainedAt[i], Grace)
<1>0. /\ clock \in Nat /\ ReadTime \in Nat /\ CacheTtl \in Nat /\ TypeOK
      /\ lookup[c].started \in Nat
      /\ lostAt[i] # None => lostAt[i] \in Nat
      /\ gainedAt[i] # None => gainedAt[i] \in Nat
  BY CacheNumbers DEF CacheTypes, TypeOK
<1>1. PICK t \in Int : clock - t <= Grace /\ RightSince(i, ok, t)
  <2>1. ASSUME NEW j \in ClientIds, Ask(c, j) PROVE \E t \in Int : clock - t <= Grace /\ RightSince(i, ok, t)
    <3>1. j = i /\ cache[c][i] # None /\ clock - cache[c][i].at < CacheTtl /\ cache[c][i].ok = ok
      <4>. DEFINE q == IF Hit(c, j)
                       THEN [id |-> j, phase |-> "answered", started |-> clock, ok |-> cache[c][j].ok]
                       ELSE [id |-> j, phase |-> "read", started |-> clock, ok |-> FALSE]
      <4>1. lookup' = [lookup EXCEPT ![c] = q]
        BY <2>1 DEF Ask
      <4>2. /\ Hit(c, j) => q.ok = cache[c][j].ok
            /\ ~Hit(c, j) => q.phase = "read"
            /\ q.id = j
        OBVIOUS
      <4>. HIDE DEF q
      <4>3. lookup'[c] = q
        BY <1>0, <4>1, LookupChanges
      <4>4. q.phase = "answered" /\ q.id = i /\ q.ok = ok
        BY <4>3 DEF Answers
      <4>. QED  BY <4>2, <4>4 DEF Hit
    <3>2. /\ cache[c][i].at <= clock /\ cache[c][i].at \in Nat
          /\ RightSince(i, ok, cache[c][i].at - ReadTime)
      BY <3>1, CacheNumbers DEF RememberInv
    <3>3. clock - (cache[c][i].at - ReadTime) <= Grace /\ cache[c][i].at - ReadTime \in Int
      BY <1>0, <3>1, <3>2 DEF Grace
    <3>. QED  BY <3>2, <3>3
  <2>2. CASE Store(c)
    <3>1. /\ lookup[c].phase = "store" /\ lookup'[c] = [lookup[c] EXCEPT !.phase = "answered"]
      BY <1>0, <2>2, LookupChanges DEF Store
    <3>2. lookup[c].id = i /\ lookup[c].ok = ok
      BY <1>0, <3>1 DEF Answers, TypeOK
    <3>3. RightSince(i, ok, lookup[c].started) /\ clock <= lookup[c].started + ReadTime
      BY <3>1, <3>2 DEF RememberInv, Reading
    <3>4. clock - lookup[c].started <= Grace
      BY <1>0, <3>3 DEF Grace
    <3>. QED  BY <1>0, <3>3, <3>4
  <2>3. ~Read(c)
    <3>1. ASSUME Read(c) PROVE lookup'[c].phase = "store"
      <4>. DEFINE is == lookup[c].id \in accepted
      <4>1. is \in BOOLEAN
        OBVIOUS
      <4>2. lookup'[c] = [lookup[c] EXCEPT !.phase = "store", !.ok = is]
        BY <1>0, <3>1, LookupChanges DEF Read
      <4>. HIDE DEF is
      <4>. QED  BY <1>0, <4>1, <4>2 DEF TypeOK
    <3>. QED  BY <3>1 DEF Answers
  <2>4. ~(Recycle(c) \/ ReadFails(c))
    <3>1. ASSUME Recycle(c) \/ ReadFails(c) PROVE lookup'[c] = NoLookup
      BY <1>0, <3>1, LookupChanges DEF Recycle, ReadFails
    <3>. QED  BY <3>1 DEF Answers, NoLookup
  <2>5. ASSUME NEW d \in Containers, d # c, Serves(d) PROVE lookup'[c] = lookup[c]
    BY <1>0, <2>5, LookupChanges DEF Serves, Ask, Read, Store, Recycle, ReadFails
  <2>6. ASSUME NEW d \in Containers, Serves(d) PROVE d = c
    BY <2>5, <2>6 DEF Answers
  <2>. QED  BY <2>1, <2>2, <2>3, <2>4, <2>6, CacheSteps, WritesKeepClock
            DEF Serves, Answers, vars, Tick, PassTime
<1>2. Grace \in Int
  BY <1>0 DEF Grace
<1>. QED  BY <1>0, <1>1, <1>2 DEF RightSince, Within

(* A client that has been disabled, rotated away or deleted is honoured by *)
(* a warm container for less than the cache lifetime, plus the time of one *)
(* read.                                                                   *)
THEOREM ClientCacheDisablementBites == ConfigSpec => DisablementBites
<1>1. CacheTypes /\ RememberInv /\ [ConfigNext]_all
        => [\A c \in Containers, i \in ClientIds :
               Answers(c, i, TRUE) => i \in accepted \/ Within(lostAt[i], Grace)]_vars
  BY AnswerWithinGrace
<1>. QED  BY <1>1, RememberInvariant, CacheTypesInvariant, PTL DEF ConfigSpec, DisablementBites

(* A client that has been registered, or enabled again, is turned down by  *)
(* what a container remembers for no longer than that.                     *)
THEOREM ClientCacheEnablementReaches == ConfigSpec => EnablementReaches
<1>1. CacheTypes /\ RememberInv /\ [ConfigNext]_all
        => [\A c \in Containers, i \in ClientIds :
               Answers(c, i, FALSE) => i \notin accepted \/ Within(gainedAt[i], Grace)]_vars
  BY AnswerWithinGrace
<1>. QED  BY <1>1, RememberInvariant, CacheTypesInvariant, PTL DEF ConfigSpec, EnablementReaches

-----------------------------------------------------------------------------
(* The URLs.                                                               *)

(* The values are those of the latest write, or a write has come at t or   *)
(* later; the same after a step.                                           *)
LatestSince(values, t) == (\A p \in DOMAIN values : values[p] = stored[p]) \/ changedAt >= t
StillLatest(values, t) == (\A p \in DOMAIN values : values[p] = stored'[p]) \/ changedAt' >= t

PartOf(values) == values = [p \in DOMAIN values |-> values[p]]

(* get_urls reads for no longer than ReadTime, and what it has read, or    *)
(* remembers, is no older than its date.                                   *)
UrlsInv ==
    /\ changedAt \in Nat /\ stored = [p \in Params |-> stored[p]]
    /\ \A c \in Containers :
          request[c].phase = "reading"
              => /\ request[c].at \in Nat /\ request[c].at <= clock
                 /\ clock <= request[c].at + ReadTime
                 /\ LatestSince(request[c].values, request[c].at)
                 /\ PartOf(request[c].values)
    /\ \A c \in Containers :
          urls[c] # None
              => /\ urls[c].at \in Nat /\ urls[c].at <= clock
                 /\ LatestSince(urls[c].values, urls[c].at)
                 /\ PartOf(urls[c].values) /\ DOMAIN urls[c].values = Params

RequestShape ==
    /\ request = [c \in Containers |-> request[c]]
    /\ urls = [c \in Containers |-> urls[c]]
    /\ \A c \in Containers :
          request[c] = [phase |-> request[c].phase, at |-> request[c].at, values |-> request[c].values]

Asks(c) == GetUrls(c) \/ ReadPage(c) \/ Remember(c) \/ Unavailable(c) \/ NewContainer(c)

LEMMA ConfigSteps ==
    ASSUME [ConfigNext]_all
    PROVE  \/ UNCHANGED config /\ (watched = "clients" \/ UNCHANGED all)
           \/ PassTime
           \/ \E p \in Params : WriteParam(p)
           \/ \E c \in Containers : Asks(c)
  BY DEF ConfigNext, all, UrlsNext, Asks

LEMMA RequestChanges ==
    ASSUME RequestShape, NEW c \in Containers, NEW q,
           request' = [request EXCEPT ![c] = q],
           q = [phase |-> q.phase, at |-> q.at, values |-> q.values],
           urls' = urls \/ \E m : urls' = [urls EXCEPT ![c] = m]
    PROVE  /\ RequestShape' /\ request'[c] = q
           /\ \A d \in Containers \ {c} : request'[d] = request[d] /\ urls'[d] = urls[d]
<1>1. /\ request'[c] = q
      /\ \A d \in Containers \ {c} : request'[d] = request[d] /\ urls'[d] = urls[d]
  BY DEF RequestShape
<1>2. request' = [d \in Containers |-> request'[d]]
  BY DEF RequestShape
<1>3. urls' = [d \in Containers |-> urls'[d]]
  BY DEF RequestShape
<1>4. \A d \in Containers :
         request'[d] = [phase |-> request'[d].phase, at |-> request'[d].at, values |-> request'[d].values]
  <2>. SUFFICES ASSUME NEW d \in Containers
                PROVE  request'[d] = [phase |-> request'[d].phase, at |-> request'[d].at,
                                      values |-> request'[d].values]
    OBVIOUS
  <2>1. CASE d = c
    BY <1>1, <2>1
  <2>2. CASE d # c
    <3>1. request'[d] = request[d]
      BY <1>1, <2>2
    <3>. QED  BY <3>1 DEF RequestShape
  <2>. QED  BY <2>1, <2>2
<1>. QED  BY <1>1, <1>2, <1>3, <1>4 DEF RequestShape

(* What a step of get_urls does to its container.                          *)
Hits(c) ==
    /\ UrlsHit(c) /\ urls'[c] = urls[c]
    /\ request'[c].phase = "answered" /\ request'[c].values = urls[c].values
Begins(c) ==
    /\ urls'[c] = urls[c]
    /\ request'[c].phase = "reading" /\ request'[c].at = clock /\ request'[c].values = <<>>
Reads(c) ==
    /\ urls'[c] = urls[c]
    /\ request[c].phase = "reading" /\ request'[c].phase = "reading" /\ request'[c].at = request[c].at
    /\ \E page \in SUBSET Params :
          request'[c].values = [p \in DOMAIN request[c].values \cup page |->
                                   IF p \in page THEN stored[p] ELSE request[c].values[p]]
Remembers(c) ==
    /\ request[c].phase = "reading" /\ DOMAIN request[c].values = Params
    /\ request'[c].phase = "answered" /\ request'[c].values = request[c].values
    /\ urls'[c] = [at |-> request[c].at, values |-> request[c].values]
Drops(c) == request'[c].phase = "idle" /\ (urls'[c] = urls[c] \/ urls'[c] = None)

LEMMA AsksChange ==
    ASSUME RequestShape, NEW c \in Containers, Asks(c)
    PROVE  /\ RequestShape' /\ Requests
           /\ \A d \in Containers \ {c} : request'[d] = request[d] /\ urls'[d] = urls[d]
           /\ Hits(c) \/ Begins(c) \/ Reads(c) \/ Remembers(c) \/ Drops(c)
<1>0. Requests
  BY DEF Asks, GetUrls, ReadPage, Remember, Unavailable, NewContainer
<1>1. CASE GetUrls(c) /\ UrlsHit(c)
  <2>. DEFINE q == [phase |-> "answered", at |-> clock, values |-> urls[c].values]
  <2>1. request' = [request EXCEPT ![c] = q] /\ urls' = urls
    BY <1>1 DEF GetUrls
  <2>2. /\ q = [phase |-> q.phase, at |-> q.at, values |-> q.values]
        /\ q.phase = "answered" /\ q.values = urls[c].values
    OBVIOUS
  <2>. HIDE DEF q
  <2>. QED  BY <1>0, <1>1, <2>1, <2>2, RequestChanges DEF Hits
<1>2. CASE GetUrls(c) /\ ~UrlsHit(c)
  <2>. DEFINE q == [phase |-> "reading", at |-> clock, values |-> <<>>]
  <2>1. request' = [request EXCEPT ![c] = q] /\ urls' = urls
    BY <1>2 DEF GetUrls
  <2>2. /\ q = [phase |-> q.phase, at |-> q.at, values |-> q.values]
        /\ q.phase = "reading" /\ q.at = clock /\ q.values = <<>>
    OBVIOUS
  <2>. HIDE DEF q
  <2>. QED  BY <1>0, <1>2, <2>1, <2>2, RequestChanges DEF Begins
<1>3. CASE ReadPage(c)
  <2>. DEFINE got == request[c].values
  <2>1. PICK page \in SUBSET Params :
           request' = [request EXCEPT ![c].values =
                          [p \in DOMAIN got \cup page |-> IF p \in page THEN stored[p] ELSE got[p]]]
    BY <1>3 DEF ReadPage
  <2>. DEFINE more == [p \in DOMAIN got \cup page |-> IF p \in page THEN stored[p] ELSE got[p]]
              q == [request[c] EXCEPT !.values = more]
  <2>2. request' = [request EXCEPT ![c] = q] /\ urls' = urls
    BY <1>3, <2>1 DEF ReadPage
  <2>3. /\ q = [phase |-> q.phase, at |-> q.at, values |-> q.values]
        /\ q.phase = request[c].phase /\ q.at = request[c].at /\ q.values = more
    BY DEF RequestShape
  <2>. HIDE DEF q
  <2>4. /\ RequestShape' /\ request'[c] = q
        /\ \A d \in Containers \ {c} : request'[d] = request[d] /\ urls'[d] = urls[d]
    BY <2>2, <2>3, RequestChanges
  <2>. QED  BY <1>3, <2>2, <2>3, <2>4 DEF Reads, ReadPage
<1>4. CASE Remember(c)
  <2>. DEFINE q == [request[c] EXCEPT !.phase = "answered"]
              entry == [at |-> request[c].at, values |-> request[c].values]
  <2>1. /\ request' = [request EXCEPT ![c] = q] /\ urls' = [urls EXCEPT ![c] = entry]
        /\ request[c].phase = "reading" /\ DOMAIN request[c].values = Params
    BY <1>4 DEF Remember
  <2>2. /\ q = [phase |-> q.phase, at |-> q.at, values |-> q.values]
        /\ q.phase = "answered" /\ q.values = request[c].values
    BY DEF RequestShape
  <2>. HIDE DEF q
  <2>3. /\ RequestShape' /\ request'[c] = q
        /\ \A d \in Containers \ {c} : request'[d] = request[d] /\ urls'[d] = urls[d]
    BY <2>1, <2>2, RequestChanges
  <2>4. urls'[c] = entry
    BY <2>1 DEF RequestShape
  <2>. QED  BY <1>0, <2>1, <2>2, <2>3, <2>4 DEF Remembers
<1>5. CASE Unavailable(c) \/ NewContainer(c)
  <2>1. /\ request' = [request EXCEPT ![c] = NoRequest]
        /\ urls' = urls \/ urls' = [urls EXCEPT ![c] = None]
    BY <1>5 DEF Unavailable, NewContainer
  <2>2. /\ NoRequest = [phase |-> NoRequest.phase, at |-> NoRequest.at, values |-> NoRequest.values]
        /\ NoRequest.phase = "idle"
    BY DEF NoRequest
  <2>3. /\ RequestShape' /\ request'[c] = NoRequest
        /\ \A d \in Containers \ {c} : request'[d] = request[d] /\ urls'[d] = urls[d]
    BY <2>1, <2>2, RequestChanges
  <2>4. urls'[c] = urls[c] \/ urls'[c] = None
    BY <2>1 DEF RequestShape
  <2>. QED  BY <1>0, <2>2, <2>3, <2>4 DEF Drops
<1>. QED  BY <1>0, <1>1, <1>2, <1>3, <1>4, <1>5 DEF Asks

LEMMA ShapeStep == RequestShape /\ [ConfigNext]_all => RequestShape'
<1>. SUFFICES ASSUME RequestShape, [ConfigNext]_all PROVE RequestShape'
  OBVIOUS
<1>1. ASSUME NEW c \in Containers, Asks(c) PROVE RequestShape'
  BY <1>1, AsksChange
<1>2. ASSUME UNCHANGED <<urls, request>> PROVE RequestShape'
  BY <1>2 DEF RequestShape
<1>. QED  BY <1>1, <1>2, ConfigSteps DEF config, all, PassTime, WriteParam

(* Values that were the latest stay so until a write, which comes now.     *)
LEMMA LatestKept ==
    ASSUME CacheTypes, RequestShape, UrlsInv, [ConfigNext]_all, NEW values, NEW t \in Nat, t <= clock,
           LatestSince(values, t)
    PROVE  StillLatest(values, t)
<1>1. ASSUME NEW p \in Params, WriteParam(p) PROVE StillLatest(values, t)
  BY <1>1 DEF WriteParam, StillLatest
<1>2. ASSUME UNCHANGED <<stored, changedAt>> PROVE StillLatest(values, t)
  BY <1>2 DEF LatestSince, StillLatest
<1>. QED  BY <1>1, <1>2, ConfigSteps, AsksChange DEF config, all, PassTime, Requests

(* UrlsInv, of one container's request and memory.                         *)
ReadingInv(c) ==
    request[c].phase = "reading"
        => /\ request[c].at \in Nat /\ request[c].at <= clock
           /\ clock <= request[c].at + ReadTime
           /\ LatestSince(request[c].values, request[c].at)
           /\ PartOf(request[c].values)
MemoryInv(c) ==
    urls[c] # None
        => /\ urls[c].at \in Nat /\ urls[c].at <= clock
           /\ LatestSince(urls[c].values, urls[c].at)
           /\ PartOf(urls[c].values) /\ DOMAIN urls[c].values = Params

LEMMA SameMemory ==
    ASSUME CacheTypes, RequestShape, UrlsInv, [ConfigNext]_all, NEW c \in Containers,
           urls'[c] = urls[c], clock <= clock', clock' \in Nat
    PROVE  MemoryInv(c)'
<1>. SUFFICES ASSUME urls[c] # None
              PROVE  /\ urls[c].at \in Nat /\ urls[c].at <= clock'
                     /\ StillLatest(urls[c].values, urls[c].at)
                     /\ PartOf(urls[c].values) /\ DOMAIN urls[c].values = Params
  BY DEF MemoryInv, LatestSince, StillLatest, PartOf
<1>1. /\ urls[c].at \in Nat /\ urls[c].at <= clock /\ LatestSince(urls[c].values, urls[c].at)
      /\ PartOf(urls[c].values) /\ DOMAIN urls[c].values = Params
  BY DEF UrlsInv
<1>2. clock \in Nat
  BY DEF CacheTypes, TypeOK
<1>. QED  BY <1>1, <1>2, LatestKept

LEMMA SameRequest ==
    ASSUME CacheTypes, RequestShape, UrlsInv, [ConfigNext]_all, NEW c \in Containers,
           request'[c] = request[c], clock <= clock', clock' \in Nat,
           request[c].phase = "reading" => clock' <= request[c].at + ReadTime
    PROVE  ReadingInv(c)'
<1>. SUFFICES ASSUME request[c].phase = "reading"
              PROVE  /\ request[c].at \in Nat /\ request[c].at <= clock'
                     /\ clock' <= request[c].at + ReadTime
                     /\ StillLatest(request[c].values, request[c].at)
                     /\ PartOf(request[c].values)
  BY DEF ReadingInv, LatestSince, StillLatest, PartOf
<1>1. /\ request[c].at \in Nat /\ request[c].at <= clock /\ LatestSince(request[c].values, request[c].at)
      /\ PartOf(request[c].values)
  BY DEF UrlsInv
<1>2. clock \in Nat
  BY DEF CacheTypes, TypeOK
<1>. QED  BY <1>1, <1>2, LatestKept

LEMMA AskedInv ==
    ASSUME CacheTypes, RequestShape, UrlsInv, [ConfigNext]_all, NEW c \in Containers, Asks(c)
    PROVE  ReadingInv(c)' /\ MemoryInv(c)'
<1>0. /\ clock' = clock /\ stored' = stored /\ changedAt' = changedAt
      /\ clock \in Nat /\ ReadTime \in Nat
  BY AsksChange, CacheAssumption DEF Requests, vars, CacheTypes, TypeOK
<1>1. CASE Hits(c) \/ Drops(c)
  <2>1. ReadingInv(c)'
    BY <1>1 DEF Hits, Drops, ReadingInv
  <2>2. CASE urls'[c] = urls[c]
    BY <1>0, <2>1, <2>2, SameMemory
  <2>3. CASE urls'[c] = None
    BY <2>1, <2>3 DEF MemoryInv
  <2>. QED  BY <1>1, <2>2, <2>3 DEF Hits, Drops
<1>2. CASE Begins(c)
  <2>1. DOMAIN request'[c].values = {} /\ request'[c].values = [p \in {} |-> p]
    BY <1>2 DEF Begins
  <2>2. LatestSince(request[c].values, request[c].at)' /\ PartOf(request[c].values)'
    BY <2>1 DEF LatestSince, PartOf
  <2>3. ReadingInv(c)'
    BY <1>0, <1>2, <2>2 DEF Begins, ReadingInv
  <2>. QED  BY <1>0, <1>2, <2>3, SameMemory DEF Begins
<1>3. CASE Reads(c)
  <2>. DEFINE got == request[c].values
  <2>1. PICK page \in SUBSET Params :
           request'[c].values = [p \in DOMAIN got \cup page |-> IF p \in page THEN stored[p] ELSE got[p]]
    BY <1>3 DEF Reads
  <2>2. /\ request[c].at \in Nat /\ request[c].at <= clock /\ clock <= request[c].at + ReadTime
        /\ LatestSince(got, request[c].at) /\ PartOf(got) /\ request'[c].at = request[c].at
    BY <1>3 DEF Reads, UrlsInv
  <2>3. LatestSince(request[c].values, request[c].at)' /\ PartOf(request[c].values)'
    BY <1>0, <2>1, <2>2 DEF LatestSince, PartOf
  <2>4. ReadingInv(c)'
    BY <1>0, <2>2, <2>3 DEF ReadingInv
  <2>. QED  BY <1>0, <1>3, <2>4, SameMemory DEF Reads
<1>4. CASE Remembers(c)
  <2>1. /\ urls'[c].at = request[c].at /\ urls'[c].values = request[c].values
        /\ DOMAIN request[c].values = Params
    BY <1>4 DEF Remembers
  <2>2. /\ request[c].at \in Nat /\ request[c].at <= clock
        /\ LatestSince(request[c].values, request[c].at) /\ PartOf(request[c].values)
    BY <1>4 DEF Remembers, UrlsInv
  <2>3. LatestSince(urls[c].values, urls[c].at)' /\ PartOf(urls[c].values)'
    BY <1>0, <2>1, <2>2 DEF LatestSince, PartOf
  <2>4. MemoryInv(c)'
    BY <1>0, <2>1, <2>2, <2>3 DEF MemoryInv
  <2>. QED  BY <1>4, <2>4 DEF Remembers, ReadingInv
<1>. QED  BY <1>1, <1>2, <1>3, <1>4, AsksChange

LEMMA UrlsStep ==
    OneCache /\ CacheTypes /\ CacheTypes' /\ RequestShape /\ UrlsInv /\ [ConfigNext]_all => UrlsInv'
<1>. SUFFICES ASSUME OneCache, CacheTypes, CacheTypes', RequestShape, UrlsInv, [ConfigNext]_all
              PROVE  UrlsInv'
  OBVIOUS
<1>0. clock \in Nat /\ clock' \in Nat /\ clock <= clock'
  BY ClockGoesOn DEF CacheTypes, TypeOK
<1>1. changedAt' \in Nat /\ stored' = [p \in Params |-> stored'[p]]
  <2>1. ASSUME NEW p \in Params, WriteParam(p) PROVE changedAt' \in Nat /\ stored' = [q \in Params |-> stored'[q]]
    BY <1>0, <2>1 DEF WriteParam, UrlsInv
  <2>2. ASSUME UNCHANGED <<stored, changedAt>>
        PROVE  changedAt' \in Nat /\ stored' = [q \in Params |-> stored'[q]]
    BY <2>2 DEF UrlsInv
  <2>. QED  BY <2>1, <2>2, ConfigSteps, AsksChange DEF config, all, PassTime, Requests
<1>2. ASSUME NEW c \in Containers PROVE ReadingInv(c)' /\ MemoryInv(c)'
  <2>1. ASSUME request'[c] = request[c], urls'[c] = urls[c],
               request[c].phase = "reading" => clock' = clock \/ clock' <= request[c].at + ReadTime
        PROVE  ReadingInv(c)' /\ MemoryInv(c)'
    <3>1. request[c].phase = "reading" => clock' <= request[c].at + ReadTime
      BY <2>1 DEF UrlsInv
    <3>. QED  BY <1>0, <2>1, <3>1, SameRequest, SameMemory
  <2>2. CASE UNCHANGED config /\ (watched = "clients" \/ UNCHANGED all)
    BY <2>1, <2>2 DEF config, all, vars, OneCache
  <2>3. CASE PassTime
    <3>1. request[c].phase = "reading" => clock' <= request[c].at + ReadTime
      <4>1. ASSUME request[c].phase = "reading"
            PROVE  clock < request[c].at + ReadTime /\ request[c].at \in Nat /\ ReadTime \in Nat
        BY <2>3, <4>1, CacheAssumption DEF PassTime, UrlsInv
      <4>2. clock' = clock + 1
        BY <2>3 DEF PassTime, Pass
      <4>. QED  BY <1>0, <4>1, <4>2
    <3>. QED  BY <2>1, <2>3, <3>1 DEF PassTime, config
  <2>4. ASSUME NEW p \in Params, WriteParam(p) PROVE ReadingInv(c)' /\ MemoryInv(c)'
    BY <2>1, <2>4 DEF WriteParam, vars
  <2>5. ASSUME NEW d \in Containers, Asks(d) PROVE ReadingInv(c)' /\ MemoryInv(c)'
    <3>1. CASE d = c
      BY <2>5, <3>1, AskedInv
    <3>2. CASE d # c
      BY <2>1, <2>5, <3>2, AsksChange DEF Requests, vars
    <3>. QED  BY <3>1, <3>2
  <2>. QED  BY <2>2, <2>3, <2>4, <2>5, ConfigSteps
<1>. QED  BY <1>1, <1>2 DEF UrlsInv, ReadingInv, MemoryInv

LEMMA UrlsInvariant == ConfigSpec => [](CacheTypes /\ RequestShape /\ UrlsInv)
<1>1. ConfigInit => RequestShape /\ UrlsInv
  BY DEF ConfigInit, RequestShape, UrlsInv, NoRequest
<1>. QED  BY <1>1, ShapeStep, UrlsStep, OneCacheInvariant, CacheTypesInvariant, PTL DEF ConfigSpec

(* A container that asks every time uses the URLs of one deployment, and   *)
(* of the latest, once its last write is older than the cache lifetime:    *)
(* not even a mixture read halfway through a deployment outlives that.     *)
THEOREM RuntimeConfigUrlsSettle == ConfigSpec => UrlsSettle
<1>. DEFINE Settles == \A c \in Containers \ once :
                          request'[c].phase = "answered" /\ request'[c] # request[c]
                              => request'[c].values = stored \/ clock - changedAt <= UrlsGrace
<1>1. CacheTypes /\ RequestShape /\ UrlsInv /\ [ConfigNext]_all => [Settles]_all
  <2>. SUFFICES ASSUME CacheTypes, RequestShape, UrlsInv, [ConfigNext]_all, NEW c \in Containers \ once,
                       request'[c].phase = "answered", request'[c] # request[c]
                PROVE  request'[c].values = stored \/ clock - changedAt <= UrlsGrace
    OBVIOUS
  <2>0. /\ clock \in Nat /\ ReadTime \in Nat /\ SsmTtl \in Nat /\ changedAt \in Nat
        /\ stored = [p \in Params |-> stored[p]]
    BY CacheAssumption, ConfigAssumption DEF CacheTypes, TypeOK, UrlsInv
  <2>1. ASSUME NEW values, NEW at \in Nat, LatestSince(values, at), PartOf(values), DOMAIN values = Params,
               clock - at <= UrlsGrace
        PROVE  values = stored \/ clock - changedAt <= UrlsGrace
    <3>1. CASE \A p \in DOMAIN values : values[p] = stored[p]
      BY <2>0, <2>1, <3>1 DEF PartOf
    <3>2. CASE changedAt >= at
      BY <2>0, <2>1, <3>2 DEF UrlsGrace
    <3>. QED  BY <2>1, <3>1, <3>2 DEF LatestSince
  <2>2. Asks(c)
    <3>1. ASSUME NEW d \in Containers, d # c, Asks(d) PROVE FALSE
      BY <3>1, AsksChange
    <3>. QED  BY <3>1, ConfigSteps DEF config, all, PassTime, WriteParam
  <2>3. CASE Hits(c)
    <3>1. urls[c] # None /\ clock - urls[c].at < SsmTtl /\ request'[c].values = urls[c].values
      BY <2>3 DEF Hits, UrlsHit
    <3>2. /\ urls[c].at \in Nat /\ urls[c].at <= clock /\ LatestSince(urls[c].values, urls[c].at)
          /\ PartOf(urls[c].values) /\ DOMAIN urls[c].values = Params
      BY <3>1 DEF UrlsInv
    <3>3. clock - urls[c].at <= UrlsGrace
      BY <2>0, <3>1, <3>2 DEF UrlsGrace
    <3>. QED  BY <2>1, <3>1, <3>2, <3>3
  <2>4. CASE Remembers(c)
    <3>1. /\ request'[c].values = request[c].values /\ DOMAIN request[c].values = Params
          /\ request[c].at \in Nat /\ clock <= request[c].at + ReadTime
          /\ LatestSince(request[c].values, request[c].at) /\ PartOf(request[c].values)
      BY <2>4 DEF Remembers, UrlsInv
    <3>2. clock - request[c].at <= UrlsGrace
      BY <2>0, <3>1 DEF UrlsGrace
    <3>. QED  BY <2>1, <3>1, <3>2
  <2>. QED  BY <2>2, <2>3, <2>4, AsksChange DEF Begins, Reads, Drops
<1>. QED  BY <1>1, UrlsInvariant, PTL DEF ConfigSpec, UrlsSettle
=============================================================================
