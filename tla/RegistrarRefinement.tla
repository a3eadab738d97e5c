------------------------ MODULE RegistrarRefinement ------------------------
(***************************************************************************)
(* The registrar, as those who read its table see it, is Registration.     *)
(***************************************************************************)
EXTENDS RegistrarProperties

(* What the proxy reads of a row.                                          *)
ReadableSet ==
    [id : Ids, enabled : BOOLEAN, fetchedAt : Nat, cacheUntil : Nat, uris : UriLists \cup {None}]

ASSUME ReadableAssumption == None \notin ReadableSet

Readable(row) == [id |-> row.id, enabled |-> row.enabled, fetchedAt |-> row.fetchedAt,
                  cacheUntil |-> row.cacheUntil, uris |-> row.uris]

Mapping == [u \in Urls |-> IF Stored(u) THEN Readable(rows[u]) ELSE None]

(* The verifier accepts the identifiers with an enabled INDEX# row.        *)
Accepted == {i \in Ids : index[i] # None /\ index[i].enabled}

(* A created client is spent when no URL has it and the invocation that    *)
(* created it will not give it to one.                                     *)
Spent ==
    {i \in Ids : /\ i < nextId
                 /\ \A u \in Urls : Stored(u) => rows[u].id # i
                 /\ ~(run.phase \in {"brand", "put"} /\ run.target.id = i)}

Readers == INSTANCE Registration WITH
    ClientIds <- Ids, Lag <- RunLimit,
    mapping <- Mapping, accepted <- Accepted, spent <- Spent

(* Whatever the registrar does, its readers see the steps of Registration: *)
(* both lookups change at once, an identifier given up never comes back,   *)
(* no client is deleted while it is enabled, an entry is never relied on   *)
(* for longer than its document allows, its age never grows by a write,    *)
(* and a client that was deleted comes back by a later fetch only.         *)
KeepsPromises == Readers!RegistrationSpec
=============================================================================
