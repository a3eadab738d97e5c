---------------------------- MODULE RuntimeConfig ----------------------------
(***************************************************************************)
(* get_urls: the public URLs that RegistrationStack writes to SSM, one     *)
(* parameter after the other, and that each Lambda container remembers.    *)
(* The proxy asks for them with every request; the MCP server asks once,   *)
(* when its container starts, and keeps what it was told.                  *)
(*                                                                         *)
(* This cache and the one of ClientCache have nothing in common but the    *)
(* container and the clock, so a behaviour shows the work of one of them.  *)
(***************************************************************************)
EXTENDS ClientCache

CONSTANTS
    Params,       \* _PARAM_KEYS
    SsmTtl,       \* SSM_CACHE_SECONDS
    MaxVersion    \* bound: deployments that change the URLs

ASSUME ConfigAssumption ==
    {SsmTtl, MaxVersion} \subseteq Nat

VARIABLES
    watched,    \* the cache that this behaviour is about
    once,       \* the containers that ask once: those of the MCP server
    stored,     \* stored[p]: which deployment's value p has; 0 before the first
    changedAt,  \* when one of them was written last (history)
    urls,       \* urls[c]: _cache of container c, or None
    request     \* request[c]: c's call of get_urls

config == <<stored, changedAt, urls, request>>
all == <<vars, watched, once, config>>

NoRequest == [phase |-> "idle", at |-> 0, values |-> <<>>]

ConfigInit ==
    /\ Init
    /\ \/ watched = "clients" /\ once = {}
       \/ watched = "urls" /\ once \in SUBSET Containers
    /\ stored = [p \in Params |-> 0]
    /\ changedAt = 0
    /\ urls = [c \in Containers |-> None]
    /\ request = [c \in Containers |-> NoRequest]

PassTime ==
    /\ clock < MaxClock
    /\ \A c \in Containers : request[c].phase = "reading" => clock < request[c].at + ReadTime
    /\ Pass
    /\ UNCHANGED <<writes, cache, lookup, lostAt, gainedAt, config>>

(* A deployment writes every parameter, in any order, before the next.     *)
WriteParam(p) ==
    /\ stored[p] < MaxVersion
    /\ \A q \in Params : stored[p] <= stored[q]
    /\ stored' = [stored EXCEPT ![p] = @ + 1]
    /\ changedAt' = clock
    /\ UNCHANGED <<vars, urls, request>>

Requests == UNCHANGED <<vars, stored, changedAt>>

UrlsHit(c) == urls[c] # None /\ (c \in once \/ clock - urls[c].at < SsmTtl)

GetUrls(c) ==
    /\ request[c].phase # "reading"
    /\ request' = [request EXCEPT ![c] =
          IF UrlsHit(c) THEN [phase |-> "answered", at |-> clock, values |-> urls[c].values]
          ELSE [phase |-> "reading", at |-> clock, values |-> <<>>]]
    /\ UNCHANGED urls
    /\ Requests

(* One page of get_parameters_by_path.                                     *)
ReadPage(c) ==
    LET got == request[c].values
    IN  /\ request[c].phase = "reading"
        /\ \E page \in SUBSET (Params \ DOMAIN got) \ {{}} :
              request' = [request EXCEPT ![c].values =
                             [p \in DOMAIN got \cup page |-> IF p \in page THEN stored[p] ELSE got[p]]]
        /\ UNCHANGED urls
        /\ Requests

(* Mutant: the age is counted from the end of the read.                    *)
Remember_Late(c) ==
    LET got == request[c].values
    IN  /\ request[c].phase = "reading" /\ DOMAIN got = Params
        /\ \A p \in Params : got[p] > 0
        /\ urls' = [urls EXCEPT ![c] = [at |-> clock, values |-> got]]
        /\ request' = [request EXCEPT ![c].phase = "answered"]
        /\ Requests

(* The age is counted from before the read, so a change during it does not *)
(* live longer than one after it.                                          *)
Remember(c) ==
    LET got == request[c].values
    IN  /\ request[c].phase = "reading" /\ DOMAIN got = Params
        /\ \A p \in Params : got[p] > 0
        /\ urls' = [urls EXCEPT ![c] = [at |-> request[c].at, values |-> got]]
        /\ request' = [request EXCEPT ![c].phase = "answered"]
        /\ Requests

(* A parameter is missing, or SSM's call fails.                            *)
Unavailable(c) ==
    /\ request[c].phase = "reading"
    /\ request' = [request EXCEPT ![c] = NoRequest]
    /\ UNCHANGED urls
    /\ Requests

NewContainer(c) ==
    /\ request' = [request EXCEPT ![c] = NoRequest]
    /\ urls' = [urls EXCEPT ![c] = None]
    /\ Requests

UrlsNext ==
    \/ PassTime
    \/ \E p \in Params : WriteParam(p)
    \/ \E c \in Containers :
          GetUrls(c) \/ ReadPage(c) \/ Remember(c) \/ Unavailable(c) \/ NewContainer(c)

ConfigNext ==
    /\ \/ watched = "clients" /\ Next /\ UNCHANGED config
       \/ watched = "urls" /\ UrlsNext
    /\ UNCHANGED <<watched, once>>

ConfigSpec == ConfigInit /\ [][ConfigNext]_all

-----------------------------------------------------------------------------
UrlsGrace == IF SsmTtl > ReadTime THEN SsmTtl - 1 ELSE ReadTime

(* A container that asks every time uses the URLs of one deployment, and   *)
(* of the latest, once its last write is older than the cache lifetime: no *)
(* mixture that it has read halfway through a deployment outlives that.    *)
UrlsSettle ==
    [][\A c \in Containers \ once :
          request'[c].phase = "answered" /\ request'[c] # request[c]
              => request'[c].values = stored \/ clock - changedAt <= UrlsGrace]_all
=============================================================================
