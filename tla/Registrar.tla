------------------------------ MODULE Registrar ------------------------------
(***************************************************************************)
(* The registrar Lambda: it keeps one Cognito app client per allow-listed  *)
(* CIMD URL, and the DynamoDB rows through which the proxy (CLIENT# rows)  *)
(* and the MCP server's verifier (INDEX# rows) see those clients.          *)
(*                                                                         *)
(* The registrar lock admits one invocation at a time (RegistrarLock), so  *)
(* there is one variable `run'.  Every call that reads the outside world   *)
(* or writes Cognito or DynamoDB is a step of its own: between two of them *)
(* the call may raise, Lambda may kill the invocation, time may pass, and  *)
(* a client's publisher or the operator may change what they publish.      *)
(***************************************************************************)
EXTENDS Integers, FiniteSets

CONSTANTS
    None,            \* an absent row, document, time or identifier
    Urls,            \* the CIMD URLs that may be put on the allow-list
    Documents,       \* what may be published: [uris, key, jwksUri, cache, tagged]
    Keys,            \* what may be published behind a document's jwks_uri
    Down,            \* published instead of either: the fetch ends in a FetchError
    Broken,          \* published instead of either: the fetch raises something else
    Outages,         \* the kinds of outage considered, among these two
    AcceptedUris,    \* the redirect-URI lists every build accepts
    LegacyUris,      \* the lists accepted only until a stricter build is deployed
    AccessLifetime,  \* access_minutes, in clock units, like the next three
    MaxStale,        \* max_stale_seconds
    CacheMin,        \* cache_min_seconds
    CacheMax,        \* cache_max_seconds
    RunLimit,        \* how much of the clock one invocation can see pass
    StaleScans,      \* may a Scan miss the run's own recent writes?
    Kinds,           \* the invocations considered, among AllKinds
    MaxIds,          \* bound: Cognito clients ever created
    MaxClock,        \* bound: the clock
    MaxChanges,      \* bound: changes of the environment
    MaxFaults        \* bound: calls that raise, replies that are lost, and kills

AllKinds == {"deploy", "schedule", "revalidate", "delete"}

(* An origin that does not answer, or a refused answer, is a FetchError.   *)
(* A host name that no longer resolves, or an answer that is not HTTP,     *)
(* leaves fetch_document as the exception that the library raised.         *)
NotFetched == {Down, Broken}

ASSUME ConstantsAssumption ==
    /\ {AccessLifetime, MaxStale, CacheMin, CacheMax, RunLimit} \subseteq Nat
    /\ {MaxIds, MaxClock, MaxChanges, MaxFaults} \subseteq Nat
    /\ CacheMin < CacheMax /\ CacheMax < MaxStale
    /\ Kinds \subseteq AllKinds
    /\ StaleScans \in BOOLEAN
    /\ Urls \cap Nat = {}
    /\ None \notin Urls \cup Nat \cup Documents \cup Keys \cup NotFetched
    /\ NotFetched \cap (Documents \cup Keys) = {}
    /\ Outages \subseteq NotFetched /\ Down # Broken

VARIABLES
    clock,
    allowed,    \* ALLOWED_CLIENTS of the deployed configuration
    strict,     \* has the build with the stricter redirect-URI rules been deployed?
    web,        \* web[u]: the document published at u, or an outage
    keys,       \* keys[u]: the content behind u's jwks_uri, or an outage
    rows,       \* rows[k]: the row CLIENT#k, or None
    index,      \* index[i]: the row INDEX#COGNITO#i, or None
    cognito,    \* cognito[i]: the app client i in the user pool, or None
    nextId,     \* Cognito never gives an identifier twice
    run,        \* the invocation that holds the lock
    tokenLife,  \* tokenLife[i]: how long an access token of i may still live (history)
    deletedAt,  \* deletedAt[u]: when the row of URL u was deleted last (history)
    changes,
    faults

environment == <<allowed, strict, web, keys, changes>>
tables == <<rows, index, tokenLife, deletedAt>>
userPool == <<cognito, nextId>>
vars == <<clock, environment, tables, userPool, run, faults>>

Ids == 1 .. MaxIds

(* The row CLIENT#retired://<id> of a retired client has the key id.       *)
RowKeys == Urls \cup Ids

-----------------------------------------------------------------------------
(* Documents, rows and the invocation's own state.                         *)

Acceptable(uris, rules) == uris \in AcceptedUris \/ (~rules /\ uris \in LegacyUris)

(* Mutant: the configured maximum does not bound max-age.                  *)
CacheSeconds_Unbounded(doc) ==
    CASE doc.cache \in {"no-store", "no-cache"} -> 0
      [] doc.cache = "max-age" -> CacheMax + 1
      [] OTHER -> CacheMin

CacheSeconds(doc) ==
    CASE doc.cache \in {"no-store", "no-cache"} -> 0
      [] doc.cache = "max-age" -> CacheMax
      [] OTHER -> CacheMin

(* A document that may be stored and is served with an ETag has a          *)
(* validator: the document itself.                                         *)
ETag(doc) == IF doc.tagged /\ doc.cache # "no-store" THEN doc ELSE None

JwksFingerprint(doc, content) ==
    [inline |-> doc.key, uri |-> doc.jwksUri, content |-> content]

(* Mutant: the lifetime of a cache entry is subtracted.                    *)
NewRow_TtlSubtracted(doc, fp, now, ttl, jwksAt) ==
    [id |-> None, enabled |-> TRUE, deleteAfter |-> None, cacheUntil |-> now - ttl,
     fetchedAt |-> now, etag |-> ETag(doc), uris |-> doc.uris, fp |-> fp, jwksAt |-> jwksAt]

NewRow(doc, fp, now, ttl, jwksAt) ==
    [id |-> None, enabled |-> TRUE, deleteAfter |-> None, cacheUntil |-> now + ttl,
     fetchedAt |-> now, etag |-> ETag(doc), uris |-> doc.uris, fp |-> fp, jwksAt |-> jwksAt]

RetiredRow(id, when) ==
    [id |-> id, enabled |-> FALSE, deleteAfter |-> when, cacheUntil |-> 0,
     fetchedAt |-> 0, etag |-> None, uris |-> None, fp |-> None, jwksAt |-> None]

Disabled(row, when) == [row EXCEPT !.enabled = FALSE, !.deleteAfter = when]

(* Mutant: the bound on staleness is one unit too wide.                    *)
OlderThanMaxStale_OffByOne(since, now) == since # None => now - since > MaxStale + 1

(* Mutant: no bound on staleness.                                          *)
OlderThanMaxStale_Never(since, now) == since = None

(* jwks_fetched_at and fetched_at are epoch seconds, read as 0 when absent: *)
(* an absent one is older than any bound.                                   *)
OlderThanMaxStale(since, now) == since # None => now - since > MaxStale

Idle == [kind |-> "idle", phase |-> "idle", allow |-> {}, strict |-> FALSE, started |-> 0,
         before |-> None, todo |-> {}, url |-> None, now |-> 0, doc |-> None,
         target |-> None, retire |-> None, after |-> "next", verdict |-> FALSE,
         errors |-> FALSE, scan |-> {}]

Init ==
    /\ clock = 0
    /\ allowed \in SUBSET Urls
    /\ strict = FALSE
    /\ web \in [Urls -> Documents]
    /\ keys \in [Urls -> Keys]
    /\ rows = [k \in RowKeys |-> None]
    /\ index = [i \in Ids |-> None]
    /\ cognito = [i \in Ids |-> None]
    /\ nextId = 1
    /\ run = Idle
    /\ tokenLife = [i \in Ids |-> 0]
    /\ deletedAt = [u \in Urls |-> 0]
    /\ changes = 0
    /\ faults = 0

-----------------------------------------------------------------------------
(* The environment: time, publishers and operator.                         *)

(* Lambda ends an invocation at its timeout, so only RunLimit of the clock *)
(* passes while one runs.                                                  *)
Tick ==
    /\ clock < MaxClock
    /\ run.phase = "idle" \/ clock < run.started + RunLimit
    /\ clock' = clock + 1
    /\ tokenLife' = [i \in Ids |->
          IF tokenLife[i] = 0 \/ (index[i] # None /\ index[i].enabled)
          THEN tokenLife[i] ELSE tokenLife[i] - 1]
    /\ UNCHANGED <<environment, rows, index, deletedAt, userPool, run, faults>>

Change ==
    /\ changes < MaxChanges
    /\ changes' = changes + 1
    /\ UNCHANGED <<clock, tables, userPool, faults>>

Publish(u, d) ==
    /\ Change
    /\ web[u] # d
    /\ web' = [web EXCEPT ![u] = d]
    /\ UNCHANGED <<allowed, strict, keys, run>>

PublishKeys(u, k) ==
    /\ Change
    /\ keys[u] # k
    /\ keys' = [keys EXCEPT ![u] = k]
    /\ UNCHANGED <<allowed, strict, web, run>>

EditAllowList(u) ==
    /\ Change
    /\ allowed' = IF u \in allowed THEN allowed \ {u} ELSE allowed \cup {u}
    /\ UNCHANGED <<strict, web, keys, run>>

DeployStricterRules ==
    /\ Change
    /\ ~strict
    /\ strict' = TRUE
    /\ UNCHANGED <<allowed, web, keys, run>>

-----------------------------------------------------------------------------
(* The shape shared by the steps of an invocation.                         *)

Stored(u) == rows[u] # None
Enabled(u) == Stored(u) /\ rows[u].enabled

Forced == run.kind \in {"deploy", "revalidate"}

(* _reconcile_url returns: run goes on to its next URL, revalidate_one     *)
(* reads the row again and answers.                                        *)
Return(verdict) ==
    LET back == [run EXCEPT !.target = None, !.retire = None, !.after = "next", !.verdict = verdict]
    IN  IF run.kind = "revalidate" THEN [back EXCEPT !.phase = "answer"]
        ELSE [back EXCEPT !.phase = "next", !.url = None, !.doc = None]

Raise == [Return(FALSE) EXCEPT !.errors = TRUE]

(* A transaction is the plan's next step: write `row', then do `after'.    *)
PlanPut(u, row, after, verdict) ==
    [run EXCEPT !.phase = "put", !.url = u, !.todo = @ \ {u}, !.now = clock,
                !.target = row, !.after = after, !.verdict = verdict]

Consider(u) ==
    /\ run.phase = "next"
    /\ u \in run.todo
    /\ UNCHANGED <<clock, environment, tables, userPool, faults>>

Skippable(u) == Enabled(u) /\ ~Forced /\ clock < rows[u].cacheUntil

(* The origin answers 304: it still publishes what the stored ETag names.  *)
Unchanged(u) == Stored(u) /\ rows[u].etag # None /\ rows[u].etag = web[u]

FetchedUris(u) == IF Unchanged(u) THEN rows[u].uris ELSE web[u].uris

-----------------------------------------------------------------------------
(* handler: the lock is taken and the invocation starts.                   *)

Begin(kind) ==
    /\ run.phase = "idle"
    /\ kind \in Kinds
    /\ UNCHANGED <<clock, environment, tables, userPool, faults>>

Started(kind, phase, todo) ==
    [Idle EXCEPT !.kind = kind, !.phase = phase, !.allow = allowed, !.strict = strict,
                 !.started = clock, !.todo = todo,
                 !.before = IF StaleScans THEN rows ELSE None]

BeginRun(kind) ==
    /\ kind \in {"deploy", "schedule"}
    /\ Begin(kind)
    /\ run' = Started(kind, "next", allowed)

(* A URL that is not allow-listed is answered not_allowed: nothing changes. *)
BeginRevalidate(u) ==
    /\ u \in allowed
    /\ Begin("revalidate")
    /\ run' = [Started("revalidate", "next", {u}) EXCEPT !.url = u]

KeyIds(ks) == {[key |-> k, id |-> rows[k].id] : k \in {j \in ks : rows[j] # None}}

(* The operator destroys the stack: one of the bounded changes.            *)
BeginDelete ==
    /\ run.phase = "idle"
    /\ "delete" \in Kinds
    /\ Change
    /\ UNCHANGED <<allowed, strict, web, keys>>
    /\ run' = [Started("delete", "purge", {}) EXCEPT !.scan = KeyIds(RowKeys)]

-----------------------------------------------------------------------------
(* _reconcile_url up to the fetch of the document.                         *)

SkipCached(u) ==
    /\ Consider(u)
    /\ Skippable(u)
    /\ run' = [run EXCEPT !.phase = "ensure", !.url = u, !.todo = @ \ {u}, !.verdict = FALSE]

(* Mutant: a failed fetch of an enabled client counts as confirmation.     *)
FetchFailed_Confirms(u) ==
    /\ Consider(u)
    /\ ~Skippable(u)
    /\ web[u] = Down
    /\ run' = [Return(Enabled(u)) EXCEPT !.todo = @ \ {u}]

FetchFailed(u) ==
    /\ Consider(u)
    /\ ~Skippable(u)
    /\ web[u] = Down
    /\ run' = IF Enabled(u) /\ OlderThanMaxStale(rows[u].fetchedAt, clock)
              THEN [PlanPut(u, Disabled(rows[u], None), "next", FALSE) EXCEPT !.errors = TRUE]
              ELSE [Raise EXCEPT !.todo = @ \ {u}]

(* Not a FetchError: _reconcile_url does not catch it.                     *)
FetchRaises(u) ==
    /\ Consider(u)
    /\ ~Skippable(u)
    /\ web[u] = Broken
    /\ run' = [Raise EXCEPT !.todo = @ \ {u}]

NotModified(u) ==
    /\ Consider(u)
    /\ ~Skippable(u)
    /\ Unchanged(u)
    /\ Acceptable(FetchedUris(u), run.strict)
    /\ run' = [PlanPut(u, [rows[u] EXCEPT !.cacheUntil = clock + CacheSeconds(web[u]),
                                          !.fetchedAt = clock],
                       "ensure", rows[u].enabled) EXCEPT !.doc = web[u]]

(* A 200 that does not validate, or a 304 whose stored redirect URIs are   *)
(* no longer acceptable.                                                   *)
FetchedUnacceptable(u) ==
    /\ Consider(u)
    /\ ~Skippable(u)
    /\ web[u] \notin NotFetched
    /\ ~Acceptable(FetchedUris(u), run.strict)
    /\ run' = IF Enabled(u) THEN PlanPut(u, Disabled(rows[u], None), "next", FALSE)
              ELSE [Return(FALSE) EXCEPT !.todo = @ \ {u}]

Modified(u) ==
    /\ Consider(u)
    /\ ~Skippable(u)
    /\ web[u] \notin NotFetched
    /\ ~Unchanged(u)
    /\ Acceptable(FetchedUris(u), run.strict)
    /\ run' = [run EXCEPT !.phase = "jwks", !.url = u, !.todo = @ \ {u},
                          !.now = clock, !.doc = web[u]]

-----------------------------------------------------------------------------
(* _reconcile_url after a 200: the keys, then the reaction.                *)

SameClient(u, row, validated) ==
    [run EXCEPT !.phase = IF rows[u].uris # row.uris THEN "update" ELSE "put",
                !.target = [row EXCEPT !.id = rows[u].id],
                !.after = "ensure", !.verdict = validated]

(* Mutant: the fingerprint is stored and never compared.                   *)
React_NoRotation(u, row, validated) ==
    LET plan == [run EXCEPT !.phase = "create", !.target = row, !.verdict = validated]
    IN  \/ /\ ~Stored(u)
           /\ run' = plan
        \/ /\ Stored(u) /\ cognito[rows[u].id] = None
           /\ run' = [plan EXCEPT !.retire = rows[u].id, !.after = "ensure"]
        \/ /\ Stored(u) /\ cognito[rows[u].id] # None
           /\ run' = SameClient(u, row, validated)

(* Mutant: the stored client is taken to exist in Cognito.                 *)
React_NoDescribe(u, row, validated) ==
    LET plan == [run EXCEPT !.phase = "create", !.target = row, !.verdict = validated]
    IN  \/ /\ ~Stored(u)
           /\ run' = plan
        \/ /\ Stored(u) /\ rows[u].fp # row.fp
           /\ run' = [plan EXCEPT !.retire = rows[u].id, !.verdict = TRUE]
        \/ /\ Stored(u) /\ rows[u].fp = row.fp
           /\ run' = [SameClient(u, row, validated) EXCEPT !.phase = "put"]

(* Mutant: changed redirect URIs are stored but not sent to Cognito.       *)
React_NoUpdate(u, row, validated) ==
    LET plan == [run EXCEPT !.phase = "create", !.target = row, !.verdict = validated]
    IN  \/ /\ ~Stored(u)
           /\ run' = plan
        \/ /\ Stored(u) /\ rows[u].fp # row.fp
           /\ run' = [plan EXCEPT !.retire = rows[u].id, !.verdict = TRUE]
        \/ /\ Stored(u) /\ rows[u].fp = row.fp
           /\ run' = IF cognito[rows[u].id] = None
                     THEN [plan EXCEPT !.retire = rows[u].id, !.after = "ensure"]
                     ELSE [SameClient(u, row, validated) EXCEPT !.phase = "put"]

(* The reaction to a valid document: first sight, rotation, a client lost  *)
(* in Cognito, or a refresh.  Of the new row only the identifier is open.  *)
React(u, row, validated) ==
    LET plan == [run EXCEPT !.phase = "create", !.target = row, !.verdict = validated]
    IN  \/ /\ ~Stored(u)
           /\ run' = plan
        \/ /\ Stored(u) /\ rows[u].fp # row.fp
           /\ run' = [plan EXCEPT !.retire = rows[u].id, !.verdict = TRUE]
        \/ /\ Stored(u) /\ rows[u].fp = row.fp /\ cognito[rows[u].id] = None
           /\ run' = [plan EXCEPT !.retire = rows[u].id, !.after = "ensure"]
        \/ /\ Stored(u) /\ rows[u].fp = row.fp /\ cognito[rows[u].id] # None
           /\ run' = SameClient(u, row, validated)

KeysValidated ==
    LET u == run.url
        content == IF run.doc.jwksUri THEN keys[u] ELSE None
        jwksAt == IF run.doc.jwksUri THEN run.now ELSE None
    IN  /\ run.phase = "jwks"
        /\ content \notin NotFetched
        /\ React(u, NewRow(run.doc, JwksFingerprint(run.doc, content), run.now,
                           CacheSeconds(run.doc), jwksAt), TRUE)
        /\ UNCHANGED <<clock, environment, tables, userPool, faults>>

KeysUnavailable ==
    LET u == run.url
        old == rows[u]
        tooOld == Enabled(u) /\ OlderThanMaxStale(old.jwksAt, run.now)
    IN  /\ run.phase = "jwks"
        /\ run.doc.jwksUri /\ keys[u] = Down
        /\ \/ /\ ~Stored(u)
              /\ run' = Raise
           \/ /\ tooOld
              /\ run' = [run EXCEPT !.phase = "put", !.target = Disabled(old, None)]
           \/ /\ Stored(u) /\ ~tooOld
              /\ React(u, NewRow(run.doc, old.fp, run.now, 0, old.jwksAt), FALSE)
        /\ UNCHANGED <<clock, environment, tables, userPool, faults>>

KeysRaise ==
    /\ run.phase = "jwks"
    /\ run.doc.jwksUri /\ keys[run.url] = Broken
    /\ run' = Raise
    /\ UNCHANGED <<clock, environment, tables, userPool, faults>>

CreateClient ==
    /\ run.phase = "create"
    /\ nextId \in Ids
    /\ cognito' = [cognito EXCEPT ![nextId] = [uris |-> run.target.uris, branded |-> FALSE]]
    /\ nextId' = nextId + 1
    /\ run' = [run EXCEPT !.phase = "brand", !.target = [@ EXCEPT !.id = nextId]]
    /\ UNCHANGED <<clock, environment, tables, faults>>

BrandClient ==
    /\ run.phase = "brand"
    /\ cognito' = [cognito EXCEPT ![run.target.id] = [@ EXCEPT !.branded = TRUE]]
    /\ run' = [run EXCEPT !.phase = "put"]
    /\ UNCHANGED <<clock, environment, tables, nextId, faults>>

UpdateCallbacks ==
    /\ run.phase = "update"
    /\ cognito' = [cognito EXCEPT ![run.target.id] = [@ EXCEPT !.uris = run.target.uris]]
    /\ run' = [run EXCEPT !.phase = "put"]
    /\ UNCHANGED <<clock, environment, tables, nextId, faults>>

(* Mutant: the retired client's bookkeeping row is not written.            *)
PutClient_RetiredRowMissing(u, row, retire, when) ==
    /\ rows' = [rows EXCEPT ![u] = row]
    /\ index' = [i \in Ids |->
          IF i = row.id THEN [key |-> u, enabled |-> row.enabled]
          ELSE IF i = retire THEN [key |-> retire, enabled |-> FALSE] ELSE index[i]]
    /\ tokenLife' = IF row.enabled THEN [tokenLife EXCEPT ![row.id] = AccessLifetime]
                    ELSE tokenLife

(* Mutant: the retired client's INDEX# row stays as it was.                *)
PutClient_RetiredStillIndexed(u, row, retire, when) ==
    /\ rows' = [k \in RowKeys |->
          IF k = u THEN row ELSE IF k = retire THEN RetiredRow(retire, when) ELSE rows[k]]
    /\ index' = [index EXCEPT ![row.id] = [key |-> u, enabled |-> row.enabled]]
    /\ tokenLife' = IF row.enabled THEN [tokenLife EXCEPT ![row.id] = AccessLifetime]
                    ELSE tokenLife

(* Mutant: the retired client's row gets the identifier of the new one.    *)
PutClient_RetiredNamesNew(u, row, retire, when) ==
    /\ rows' = [k \in RowKeys |->
          IF k = u THEN row ELSE IF k = retire THEN RetiredRow(row.id, when) ELSE rows[k]]
    /\ index' = [i \in Ids |->
          IF i = row.id THEN [key |-> u, enabled |-> row.enabled]
          ELSE IF i = retire THEN [key |-> retire, enabled |-> FALSE] ELSE index[i]]
    /\ tokenLife' = IF row.enabled THEN [tokenLife EXCEPT ![row.id] = AccessLifetime]
                    ELSE tokenLife

(* put_client: one transaction writes the row, its INDEX# row and, when a  *)
(* client is retired, the two rows of the retired one.                     *)
PutClient(u, row, retire, when) ==
    /\ rows' = [k \in RowKeys |->
          IF k = u THEN row ELSE IF k = retire THEN RetiredRow(retire, when) ELSE rows[k]]
    /\ index' = [i \in Ids |->
          IF i = row.id THEN [key |-> u, enabled |-> row.enabled]
          ELSE IF i = retire THEN [key |-> retire, enabled |-> FALSE] ELSE index[i]]
    /\ tokenLife' = IF row.enabled THEN [tokenLife EXCEPT ![row.id] = AccessLifetime]
                    ELSE tokenLife

Put ==
    /\ run.phase = "put"
    /\ PutClient(run.url, run.target, run.retire, run.now + AccessLifetime)
    /\ run' = IF run.after = "ensure"
              THEN [run EXCEPT !.phase = "ensure", !.target = None, !.retire = None]
              ELSE Return(run.verdict)
    /\ UNCHANGED <<clock, environment, deletedAt, userPool, faults>>

(* Mutant: a client that exists is taken to have its login page.           *)
EnsureBranding_ExistenceOnly ==
    /\ run.phase = "ensure"
    /\ run' = IF cognito[rows[run.url].id] = None THEN Raise ELSE Return(run.verdict)
    /\ UNCHANGED <<clock, environment, tables, userPool, faults>>

(* Branding cannot be created for a client that no longer exists.          *)
EnsureBranding ==
    LET id == rows[run.url].id
    IN  /\ run.phase = "ensure"
        /\ run' = IF cognito[id] = None THEN Raise ELSE Return(run.verdict)
        /\ cognito' = IF cognito[id] = None THEN cognito
                      ELSE [cognito EXCEPT ![id] = [@ EXCEPT !.branded = TRUE]]
        /\ UNCHANGED <<clock, environment, tables, nextId, faults>>

Answer ==
    /\ run.phase = "answer"
    /\ run' = Idle
    /\ UNCHANGED <<clock, environment, tables, userPool, faults>>

-----------------------------------------------------------------------------
(* _retire_removed, _purge_expired and _hard_delete.                       *)

(* Mutant: the allow-list is read again while the run is under way.        *)
ScanRemoved_CurrentList ==
    /\ run.phase = "next" /\ run.todo = {}
    /\ run' = [run EXCEPT !.phase = "retire", !.now = clock,
                          !.scan = KeyIds({u \in Urls \ allowed : Enabled(u)})]
    /\ UNCHANGED <<clock, environment, tables, userPool, faults>>

(* This scan is eventually consistent too (see ScanExpired).  A run writes  *)
(* no row off its list before it, so its own writes are not at stake here. *)
ScanRemoved ==
    /\ run.phase = "next" /\ run.todo = {}
    /\ run' = [run EXCEPT !.phase = "retire", !.now = clock,
                          !.scan = KeyIds({u \in Urls \ run.allow : Enabled(u)})]
    /\ UNCHANGED <<clock, environment, tables, userPool, faults>>

RetireRemoved(c) ==
    /\ run.phase = "retire"
    /\ c \in run.scan
    /\ PutClient(c.key, Disabled(rows[c.key], run.now + AccessLifetime), None, None)
    /\ run' = [run EXCEPT !.scan = @ \ {c}]
    /\ UNCHANGED <<clock, environment, deletedAt, userPool, faults>>

(* Mutant: a row is purged as soon as it has a deletion time.              *)
Expired_AtOnce(row) == row # None /\ ~row.enabled /\ row.deleteAfter # None

(* The scan is eventually consistent: a row it returns may be the one the  *)
(* run found when it started.                                              *)
Expired(row) ==
    row # None /\ ~row.enabled /\ row.deleteAfter # None /\ row.deleteAfter <= clock

(* Mutant: retired:// rows are skipped, as _retire_removed does.           *)
Scanned_SkipsRetired(view) ==
    {[key |-> k, id |-> view[k].id] : k \in {j \in Urls : Expired(view[j])}}

Scanned(view) ==
    {[key |-> k, id |-> view[k].id] : k \in {j \in RowKeys : Expired(view[j])}}

ScanExpired ==
    /\ run.phase = "retire" /\ run.scan = {}
    /\ \E view \in {rows} \cup (IF StaleScans THEN {run.before} ELSE {}) :
          run' = [run EXCEPT !.phase = "purge", !.now = clock, !.scan = Scanned(view)]
    /\ UNCHANGED <<clock, environment, tables, userPool, faults>>

DeleteBranding(c) ==
    /\ run.phase = "purge"
    /\ c \in run.scan
    /\ cognito' = IF cognito[c.id] = None THEN cognito
                  ELSE [cognito EXCEPT ![c.id] = [@ EXCEPT !.branded = FALSE]]
    /\ run' = [run EXCEPT !.phase = "deleteClient", !.url = c.key, !.retire = c.id]
    /\ UNCHANGED <<clock, environment, tables, nextId, faults>>

DeleteClient ==
    /\ run.phase = "deleteClient"
    /\ cognito' = [cognito EXCEPT ![run.retire] = None]
    /\ run' = [run EXCEPT !.phase = "deleteRows"]
    /\ UNCHANGED <<clock, environment, tables, nextId, faults>>

DeleteClientRows ==
    /\ run.phase = "deleteRows"
    /\ rows' = [rows EXCEPT ![run.url] = None]
    /\ index' = [index EXCEPT ![run.retire] = None]
    /\ deletedAt' = [u \in Urls |-> IF u = run.url THEN clock ELSE deletedAt[u]]
    /\ run' = [run EXCEPT !.phase = "purge", !.url = None, !.retire = None,
                          !.scan = @ \ {[key |-> run.url, id |-> run.retire]}]
    /\ UNCHANGED <<clock, environment, userPool, tokenLife, faults>>

Finish ==
    /\ run.phase = "purge" /\ run.scan = {}
    /\ run' = Idle
    /\ UNCHANGED <<clock, environment, tables, userPool, faults>>

-----------------------------------------------------------------------------
(* Faults.                                                                 *)

Fault ==
    /\ faults < MaxFaults
    /\ faults' = faults + 1
    /\ UNCHANGED <<clock, environment, tables>>

(* A call of _reconcile_url raises, the first of which reads the row: the  *)
(* URL counts as an error, the invocation goes on.                         *)
CallRaises ==
    /\ \/ /\ run.phase = "next"
          /\ \E u \in run.todo : run' = [Raise EXCEPT !.todo = @ \ {u}]
       \/ /\ run.phase \in {"jwks", "create", "brand", "update", "put", "ensure"}
          /\ run' = Raise
    /\ UNCHANGED userPool
    /\ Fault

(* The reply of create_user_pool_client is lost, and the client library    *)
(* makes the call again: the first client stays, and no call has raised.   *)
CreateReplyLost ==
    /\ run.phase = "create"
    /\ nextId \in Ids
    /\ cognito' = [cognito EXCEPT ![nextId] = [uris |-> run.target.uris, branded |-> FALSE]]
    /\ nextId' = nextId + 1
    /\ run' = run
    /\ Fault

(* Lambda kills the invocation, or a call outside _reconcile_url raises:   *)
(* nothing more of it happens.                                             *)
Killed ==
    /\ run.phase # "idle"
    /\ run' = Idle
    /\ UNCHANGED userPool
    /\ Fault

-----------------------------------------------------------------------------
Reconcile(u) ==
    \/ SkipCached(u) \/ FetchFailed(u) \/ FetchRaises(u) \/ NotModified(u)
    \/ FetchedUnacceptable(u) \/ Modified(u)

RunStep ==
    \/ \E u \in Urls : Reconcile(u)
    \/ KeysValidated \/ KeysUnavailable \/ KeysRaise
    \/ CreateClient \/ BrandClient \/ UpdateCallbacks \/ Put \/ EnsureBranding \/ Answer
    \/ ScanRemoved
    \/ \E c \in run.scan : RetireRemoved(c) \/ DeleteBranding(c)
    \/ ScanExpired \/ DeleteClient \/ DeleteClientRows \/ Finish

Environment ==
    \/ \E u \in Urls, d \in Documents \cup Outages : Publish(u, d)
    \/ \E u \in Urls, k \in Keys \cup Outages : PublishKeys(u, k)
    \/ \E u \in Urls : EditAllowList(u)
    \/ DeployStricterRules

Next ==
    \/ Tick \/ Environment
    \/ \E kind \in Kinds : BeginRun(kind)
    \/ \E u \in Urls : BeginRevalidate(u)
    \/ BeginDelete
    \/ RunStep
    \/ CallRaises \/ CreateReplyLost \/ Killed

Spec == Init /\ [][Next]_vars

(* The invocation's own steps happen (it is running code), time passes,    *)
(* and the hourly rule does not find the lock held every single time.      *)
Fairness == WF_vars(RunStep) /\ WF_vars(Tick) /\ SF_vars(BeginRun("schedule"))

FairSpec == Spec /\ Fairness
=============================================================================
