---------------------------- MODULE Registration ----------------------------
(***************************************************************************)
(* What the registrar promises to those who read its table: the proxy,     *)
(* which finds a client by its URL, and the MCP server's verifier, which   *)
(* asks whether a Cognito client identifier is accepted.  Every change is  *)
(* one step; how the registrar arrives at it is Registrar's business.      *)
(***************************************************************************)
EXTENDS Integers

CONSTANTS
    None,
    Urls,
    ClientIds,  \* identifiers of Cognito clients
    CacheMax,   \* how long one fetch of a document may be relied on
    Lag         \* how old a fetch may be when its result is written

VARIABLES
    clock,
    mapping,    \* mapping[u]: the client of URL u, or None
    accepted,   \* the identifiers the verifier's lookup accepts
    spent,      \* the identifiers that no URL will ever have (again)
    deletedAt   \* deletedAt[u]: when the client of u was deleted last (history)

registration == <<mapping, accepted, spent, deletedAt>>

Known(u) == mapping[u] # None

RegistrationInit ==
    /\ clock = 0
    /\ mapping = [u \in Urls |-> None]
    /\ accepted = {}
    /\ spent = {}
    /\ deletedAt = [u \in Urls |-> 0]

(* The two lookups change together.                                        *)
Write(u, m) ==
    /\ mapping' = [mapping EXCEPT ![u] = m]
    /\ accepted' = (accepted \ {mapping[w].id : w \in {u} \cap {x \in Urls : Known(x)}})
                   \cup (IF m # None /\ m.enabled THEN {m.id} ELSE {})
    /\ UNCHANGED clock

(* The document was fetched a short while ago and says how long it holds.  *)
RecentlyFetched(m) ==
    /\ m.fetchedAt \in (clock - Lag) .. clock
    /\ m.cacheUntil \in m.fetchedAt .. (m.fetchedAt + CacheMax)

(* Mutant: a client given up may be taken up again.                        *)
New_Reused(m) == m.id \in ClientIds /\ \A u \in Urls : Known(u) => mapping[u].id # m.id

New(m) == m.id \in ClientIds \ spent /\ \A u \in Urls : Known(u) => mapping[u].id # m.id

(* A client is registered anew by an invocation that has begun after the   *)
(* one that deleted it had ended, and so by a later fetch.                 *)
Register(u, m) ==
    /\ ~Known(u)
    /\ m.enabled /\ RecentlyFetched(m) /\ m.fetchedAt >= deletedAt[u]
    /\ New(m)
    /\ Write(u, m)
    /\ UNCHANGED <<spent, deletedAt>>

(* A fetch confirms the client.  Only a whole new document enables one     *)
(* that was disabled; none disables it.                                    *)
Refresh(u, m) ==
    /\ Known(u)
    /\ m.id = mapping[u].id
    /\ mapping[u].enabled => m.enabled
    /\ RecentlyFetched(m) /\ m.fetchedAt >= mapping[u].fetchedAt
    /\ Write(u, m)
    /\ UNCHANGED <<spent, deletedAt>>

Rotate(u, m) ==
    /\ Known(u)
    /\ m.enabled /\ RecentlyFetched(m) /\ m.fetchedAt >= mapping[u].fetchedAt
    /\ New(m)
    /\ Write(u, m)
    /\ spent' = spent \cup {mapping[u].id}
    /\ UNCHANGED deletedAt

Confirm(u, m) == m # None /\ (Register(u, m) \/ Refresh(u, m) \/ Rotate(u, m))

Disable(u) ==
    /\ Known(u) /\ mapping[u].enabled
    /\ Write(u, [mapping[u] EXCEPT !.enabled = FALSE])
    /\ UNCHANGED <<spent, deletedAt>>

Delete(u) ==
    /\ Known(u) /\ ~mapping[u].enabled
    /\ Write(u, None)
    /\ spent' = spent \cup {mapping[u].id}
    /\ deletedAt' = [deletedAt EXCEPT ![u] = clock]

(* A client was created in Cognito and no row will ever name it.           *)
Waste ==
    /\ spent \subseteq spent'
    /\ \A u \in Urls : Known(u) => mapping[u].id \notin spent'
    /\ UNCHANGED <<clock, mapping, accepted, deletedAt>>

Pass ==
    /\ clock' = clock + 1
    /\ UNCHANGED registration

RegistrationNext ==
    \/ Pass \/ Waste
    \/ \E u \in Urls : Confirm(u, mapping'[u]) \/ Disable(u) \/ Delete(u)

RegistrationSpec == RegistrationInit /\ [][RegistrationNext]_<<clock, registration>>
=============================================================================
