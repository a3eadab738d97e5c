# Verification of the CIMD-with-Cognito registration stack

TLA+ models of the parts of this repository that keep state and interleave: the
registrar Lambda, which turns an allow-list of CIMD URLs (URLs that are OAuth client
identifiers, each serving a client-metadata document) into Cognito app clients, the
lock that admits one registrar invocation at a time, and the two readers of what the
registrar writes, the authorization proxy and the MCP server's token verifier; and of three
things these rest on: the guarded fetch of a document, the rules for client_id URLs, and the
URLs that a deployment hands to the Lambdas. TLC checks small instances,
TLAPS proves the safety properties for every value of the constants.

Paths below are relative to the repository; `reconcile.py`, `store.py` and `handler.py`
are those of `lambdas/registrar/`.

## 1. The system

| Part | State | Operations | Talks to |
| --- | --- | --- | --- |
| Registrar (`reconcile.py`, `cognito_ops.py`, `validate.py`, `fetcher.py`) | none of its own between invocations | `run` (deploy, schedule), `revalidate_one` (asked for by the proxy), `delete_all` (stack destroyed) | origins of the documents and JWKS, Cognito, the table |
| Mapping table (`store.py`, `lib/data-stack.ts`) | `CLIENT#<url>`, `CLIENT#retired://<id>`, `INDEX#COGNITO#<id>`, `LOCK#registrar` | transactional writes, eventually consistent scan, conditional writes, TTL deletion | |
| Registrar entry (`handler.py`) | owner id, deadline, backoff | `handler`, `_with_lock` | CloudFormation, EventBridge, the proxy |
| Cognito user pool | app clients, login-page branding | create, describe, update callbacks, delete, branding | |
| Mapping store (`shared/mapping_store.py`) | the verifier's cache of client ids | `by_cimd_url`, `is_registered_cognito_client` | the table |
| Proxy (`cimd_proxy/`) | none between requests (CSRF cookie in the browser) | authorize, consent, token, revoke; `fresh_mapping` asks the registrar when an entry is stale | mapping store, registrar, Cognito |
| MCP server (`mcp_server/`) | JWKS cache | token verification | mapping store |
| Guarded fetch (`fetcher.py`) | per fetch: budget, transport handle, up to four threads | `fetch_document` | DNS, the origin |
| client_id URL rules (`shared/cimd_url.py`, `lib/derive.ts`) | none | `validate_client_id_url`, `validateCimdUrl` | registrar and proxy; `cdk synth` |
| Runtime configuration (`shared/runtime_config.py`) | the container's `_cache` | `get_urls` | SSM, written by `lib/registration-stack.ts` |
| Infrastructure (`lib/`, `config.ts`) | | the hourly rule, the custom resource, timeouts, `validateConfig` | |

A document is fetched, validated and answered with a Cognito client. A change of its
redirect URIs updates that client; a change of its key material *rotates* it (a new client,
the old one disabled and retired, to be deleted one access-token lifetime later, so that its
refresh tokens stop working at once). Removal from the allow-list disables, then deletes.

What is hard here:

* one invocation makes many calls that cannot be undone together (create a client, brand it,
  write the table). Any may raise, and Lambda may kill the invocation between two of them;
* two readers find a client along different rows: the proxy by `CLIENT#`, the verifier by
  `INDEX#`;
* three kinds of invocations compete for a lock that is a row with a time to live, on hosts
  whose clocks differ, in front of a client library that repeats calls;
* the proxy reads a row, asks the registrar, reads again and forwards, and the row may change
  at each point; the verifier goes by what its container remembers;
* three clocks bound each other: cache lifetime, bound on staleness, access-token lifetime;
* publishers and operator change what the code decides on while it is deciding;
* conditional fetches (304) confirm a client from what is stored, not from what was looked at;
* a scan may return a row as it was before this very invocation rewrote it;
* an invocation works by the allow-list of its start, however long it waits for the lock;
* a fetch blocks in calls nothing can interrupt, so it runs on threads that are left behind;
* one set of URL rules is written twice, for two URL parsers.

What makes each part correct:

* registrar: readers agree; nothing is left behind in Cognito unless a call failed; what is
  served exists; a rotation is complete in one step; no token outlives its client's deletion
  by accident; nothing unreachable is served longer than the bound; scheduled deletions happen;
* lock: mutual exclusion under skew, kills and lost replies; a waiter answers in time;
* proxy: what is forwarded names a client and a redirect URI that belonged together, was fresh,
  and had not been given up before; `invalid_client` only when the client is gone; a redirect
  only to a registered URI;
* verifier: a disabled client's tokens are refused after the cache lifetime, a newly enabled
  one's accepted after it;
* invocations together: a finished run leaves nobody served off its list, and a removed client
  does not come back;
* fetch: the caller is back when its budget is used up, an abandoned exchange ends and sends
  nothing more, what is accepted was read whole;
* URL rules: both implementations decide alike, and an accepted path stays where it is however
  often it is decoded on its way;
* configuration: no container that asks every time uses old or mixed URLs beyond the cache lifetime.

## 2. Modules

| Module | What it is |
| --- | --- |
| `Registrar` | state, one action per call of the outside world, environment, faults, fairness |
| `RegistrarProperties` | type invariant, safety, action and liveness properties that hold |
| `Registration` | what the registrar promises its readers: the abstract specification |
| `RegistrarRefinement` | `Registrar` under a refinement mapping to `Registration` |
| `RegistrarClaims` | what documents and comments say and the code does not do |
| `MCRegistrar` | documents, keys and symmetry for TLC |
| `Registrar_proofs` | inductive invariant; typing and agreement of the readers |
| `RegistrarRefinement_proofs` | proof that `Registrar` implements `Registration` |
| `RegistrarSafety_proofs` | the shapes of the registrar's steps; its ten other safety properties |
| `RegistrarLock` | the lock and its waiting loop, with its properties |
| `RegistrarLock_proofs` | typing, mutual exclusion, ownership of the row, waking by the deadline |
| `RegistrarSystem` | the invocations together: lock, allow-list and work, with the properties that need all three |
| `MCRegistrarSystem` | an instance with a deployment, a revalidation and one URL |
| `RegistrarSystem_proofs` | the system takes only the lock's steps; its two properties |
| `Proxy` | the proxy's requests in steps, in front of a `Registration` |
| `Proxy_proofs` | its invariant; typing and the five safety properties |
| `MCProxy` | an instance with one client and two redirect URIs |
| `ClientCache` | the verifier's cache, in front of a `Registration` |
| `RuntimeConfig` | `get_urls` and its cache, beside `ClientCache` |
| `RuntimeConfig_proofs` | what a container remembers of clients and of URLs: typing and the three action properties |
| `MCClientCache` | an instance of both with one container |
| `ClientIdUrl` | the two implementations of the client_id URL rules, and the way of an entry through both |
| `GuardedFetch` | one fetch of an accepted URL, on its threads |
| `GuardedFetch_proofs` | the invariant of the threads; what is accepted, sent late, left open; agreement of the URL rules, and that paths stay in place |
| `MCGuardedFetch` | an instance: the entries, two public addresses and a private one |

How they compose: `Proxy` and `ClientCache` EXTEND `Registration` and take its actions as what
the registrar may do at any moment; `RegistrarRefinement` shows that everything `Registrar` does
is one of those. `RegistrarSystem` EXTENDS `RegistrarLock` and conjoins its actions with what an
invocation does under the lock; `RegistrarSystem_proofs` shows that this changes nothing for the lock.
`GuardedFetch` EXTENDS `ClientIdUrl`: only an entry that has passed both gates is fetched.
`RuntimeConfig` EXTENDS `ClientCache`: two caches of one container. `Proxy`'s registrar answers a revalidation only as `FreshMeansSeenNow`, a property
of `Registrar`, allows. So what holds of the readers in front of `Registration` holds of them in
front of the registrar, without the states of both multiplied.

### Registrar and the code

State. `rows[k]` is the item `CLIENT#k` (`k` a URL, or the identifier of a retired client,
whose key in the table is `retired://<id>`), `index[i]` the item `INDEX#COGNITO#i`,
`cognito[i]` the app client, `web[u]`/`keys[u]` what is published, `allowed` the operator's
`ALLOWED_CLIENTS`. `run` is the one invocation that holds the lock: its phase is where it is
in the code, `todo` the URLs it has left, `now` the `now` the code read before a fetch,
`target` the row it is about to write, `scan` what a scan returned and is left to handle.
`tokenLife[i]` is a history variable: how long an access token of client `i` may still live.

Actions. `BeginRun`, `BeginRevalidate` and `BeginDelete` are `handler`. For each URL exactly
one of `SkipCached`, `FetchFailed`, `FetchRaises`, `NotModified`, `FetchedUnacceptable`,
`Modified` (the branches of `_reconcile_url` up to the fetch) is enabled; after a 200,
`KeysValidated`, `KeysUnavailable` or `KeysRaise` and then `React`: first sight, rotation, client lost in Cognito, or refresh.
`CreateClient`, `BrandClient`, `UpdateCallbacks`, `Put`, `EnsureBranding` are the writes that
follow. `ScanRemoved`, `RetireRemoved`, `ScanExpired`, `DeleteBranding`, `DeleteClient`,
`DeleteClientRows` are the two sweeps. `CallRaises` is the `except` in `run`, for any call from the
reading of the row on; `Killed` is the end of the invocation at any point. `CreateReplyLost` is a
`create_user_pool_client` whose reply is lost: boto3 makes the call again by default, which creates a
second client while no call raises. `Tick`, `Publish`, `PublishKeys`, `EditAllowList`,
`DeployStricterRules` are the world.

Abstractions. A redirect-URI list is a value that is accepted always, until a stricter build
is deployed, or never; a document's ETag is the document, or absent for
`no-store` and for a document served without one (not `tagged`); key
material is the triple the code hashes. An origin may publish nothing in two ways: `Down`, which
the fetcher reports as a `FetchError`, and `Broken`, where another exception leaves
`fetch_document` (a name that does not resolve, an answer that is no HTTP); `Outages` says which
of the two an instance considers. The clock counts units in which the code's limits
keep their order (cache minimum < cache maximum < bound on staleness, access-token lifetime
at least one unit). One invocation sees at most `RunLimit` of the clock pass: Lambda's timeout
is 300 s, access tokens live at least 5 minutes. With `StaleScans`, the scan of `_purge_expired`
may return the table as it was when the invocation started. The scans of `_retire_removed` and
`delete_all` are eventually consistent as well; they read the rows as they are here. What an invocation has
written itself cannot make the first one wrong, as it writes no row off its list before, and the second comes before
any write; that either may miss what a previous invocation wrote a moment earlier is not modelled.

### RegistrarLock and the code

`lock` is the row `LOCK#registrar`. An invocation is `trying` (about to call `acquire_lock`),
`sleeping` (in `time.sleep`), `holding` (in `fn()`), or over. `AcquireReplyLost` is the write
whose reply is lost and whose repetition is refused by the invocation's own row. `MinPause` is the
shortest sleep (0.1 s, `handler.py:57`), which may end that much after the deadline. `Deadline` counts from
Lambda's start of the invocation; the code computes it after it has read its settings (`handler.py:48`), a time
taken to be zero. `ExpireItem` is
DynamoDB's TTL deletion, which may come at any time after the ttl, or never. `Kill` covers
Lambda's timeout and a failing `release_lock`.

### RegistrarSystem and the code

`allowed` is the function's environment as it is deployed, `env[i]` the list that `_settings` gave
invocation `i` when it started, before it asked for the lock; an empty list for `delete_all`, which
asks nobody. `job[i]` is what `i` does under the lock: `reconciling` the URLs it has left, `retiring`
the rows its scan found off its list. What an invocation does to one client is reduced to whether
the client is served afterwards, and each of the three outcomes is possible at any time: `Registrar`
says which, this module only who may act, when, and by which list. `CompleteRun` is a run that comes
to its end, `Raise` one that leaves through `finally`. Scans are taken to be consistent
(`stale_scan` shows what happens otherwise). `offSince[u]` is a history variable.

The time an invocation may bring a removed client back is bounded by Lambda's timeout, not by zero:
`EditAllowList` may come while a run that has read the older list is waiting or working. In that case
the client stays served until the next scheduled run, which retires it.

### Registration and the code

`mapping[u]` is the part of `CLIENT#u` the proxy reads, `accepted` the set of identifiers whose
`INDEX#` row is enabled, `spent` the identifiers that will not come back. `Register`, `Refresh`,
`Rotate`, `Disable` and `Delete` are the changes `_reconcile_url` and the sweeps can make;
`Waste` is a client created in Cognito that no row will name. The mapping from `Registrar` reads
them off its rows; a retired client's row is invisible, being under a key no reader asks for.

`deletedAt[u]` is a history variable: a client that was deleted comes back only by a fetch made after
the deletion, since the lock keeps the invocation that deletes apart from the one that registers. Without
this promise a reader could meet, between the registrar's answer and its second read, a deletion and a new
registration from a fetch older than its question, and `SentFresh` would be lost. `Registrar`
notes the same history in `DeleteClientRows`.

### Proxy and the code

A request `req[r]` is at `load` (about to call `enabled_mapping`), `ask` (in `_revalidate`),
`reload` (the second `enabled_mapping`), `check` (what is left of `_validated_authorize`, `consent` or
`token`), `forward`, or `done` with an `outcome`, the OAuth error code or `cognito` / `page`, and the
URI it redirects to. One clock serves the proxy and the registrar: `freshness.py:38` compares the
proxy's time with a `cache_until` the registrar computed, so between real hosts the skew adds to what
`SentFresh` says (skew is modelled for the lock, whose safety depends on it). `LoadBrowser` is `_validated_authorize` up to the freshness check, with
`resolve_redirect_uri` as `Resolved`; the tests `validate_authorize` makes of the other parameters, which
read no shared state, are one Boolean, `valid`; the CSRF check and a missing token are `Malformed`.
`Answered` is the registrar's answer: any failure, timeout or malformed payload is `error`.
`Die` is the catch-all of `App.handle` and Lambda's timeout. `during[r]` is a history variable: the
client and redirect URIs that the URL's row has offered since `r` began.

### ClientCache and the code

`lookup[c]` is the one lookup a Lambda container is busy with; `Ask` is `verify_token` reaching the
store, with a hit decided at once; `Read` is the strongly consistent `get_item`; `Store` stamps the
result with the time after the read. `lostAt` and `gainedAt` are history variables.

### RuntimeConfig and the code

`stored[p]` is the deployment whose value the SSM parameter `p` has; a deployment writes all of them, in
any order. `request[c]` is container `c`'s call of `get_urls`: `GetUrls` (hit, or start of a read),
`ReadPage` (one page of `get_parameters_by_path`), `Remember`, `Unavailable` (a parameter missing, or
SSM failing). The containers in `once` ask a single time: `mcp_server/app.py:23` calls `get_urls` when the
module is imported. The registrar runs with `SSM_CACHE_SECONDS=0` and so reads each time. Because the two
caches of a container share nothing but the clock, `watched` fixes for a behaviour which of them is at work.

### ClientIdUrl and the code

A URL is a record of what the rules look at: control characters, backslash, scheme, userinfo, host,
port, path, query, fragment, each with the values that some rule or some parser tells apart, and one path
segment as a sequence of characters over the alphabet the escapes of dot, slash and percent need.
`SegmentAccepted` is the loop of `segment_error`/`segmentError`, told on whose side it runs:
`decodeURIComponent` refuses malformed escapes and bytes that are no UTF-8, `unquote(errors="strict")`
only the latter. `SynthAccepts` and `RuntimeAccepts` are the two validators, rule by rule, with what
`new URL` and `urlsplit` do themselves. `Synth`, `Check` and `Decode` take one entry from the configuration
to its origin; `Decode` lets whatever stands in front of the origin decode any of the escapes, again and again.

A text keeps its places: decoding an escape leaves its character in the place of the percent sign and
`Nothing` in those of its two digits, and what stands next behind a place (`Follows`) passes over these. So the
texts of all rounds are functions on the same places, and two decodings can be compared place by place,
which the proof below needs. `Rounds` is the segment's loop as a function over rounds, without RECURSIVE.

### GuardedFetch and the code

`main` is where the main thread is in `fetch_document`, `resolver` the thread in `getaddrinfo`, `worker`
the one in `exchange()`, `closer` the one that calls `conn.close()`. A wait is `joinBy`; the clock passes
only while the main thread waits in `join`, its own steps being instantaneous. `socket[k]` is connection
`k`, `connSock` is `conn.sock`, `adopted` and `cancelled` are the fields of `TransportHandle`, whose two
critical sections are one step each. `hard_close` comes after the critical section, as in the code:
`Cancel`, then `CloseAdopted`, then `CloseConn`, then `Closer` on its own thread, each of which may come
before or after any step of the worker. The peer may answer, stall, drip, reset, cut a body short or send
something that is no HTTP (`Response`, `Chunk`, `BodyEnds`, `Broken`). The fetcher does not compare a body's
length with what was announced (`fetcher.py:285-309`); a body that was cut short is refused because a JSON
object without its closing brace is none. `Succeed` has this as its guard, and `AcceptedIsWhole` rests on it. Connection 2 is the one
`http.client` opens by itself when `request()` finds no socket.

## 3. Runs

| Run | Question | Result |
| --- | --- | --- |
| `registrar_safety` | do deployments, scheduled runs and revalidations keep rows, index and user pool together under one fault, two changes of the world and four units of time? do their readers see only steps of `Registration`? | holds |
| `registrar_liveness` | do hourly runs finish scheduled deletions and disable unreachable clients, one fault or destroyed stack in between? | holds |
| `registrar_lock` | do lock and list keep a deployment and a revalidation apart, with every clock offset, kills, lost replies, TTL deletion and a change of the allow-list at any moment? what do they leave behind? | holds |
| `proxy` | what may a request be answered when its client changes between any two of its steps? | holds |
| `client_cache` | for how long does a warm container go by a registration, or by public URLs, that have changed? | holds |
| `guarded_fetch` | do both URL rules agree and keep a path in place? is a fetch bounded in time and size, and does an abandoned one end in silence? | holds |
| `removed_scheduled` | is a removed client always scheduled for deletion? | no: not if it was disabled before |
| `jwks_fail_closed` | does a mapping whose keys could not be validated stay stale until they are? | no: a 304 makes it fresh |
| `deploy_loud` | does a deployment with an invalid document fail? | no: `invalid` is not an error |
| `readded` | does a deployment that confirms a re-added client enable it? | no: a 304 leaves it disabled |
| `unresolvable` | is a client that cannot be fetched disabled after the bound, whatever the reason? | no: only a `FetchError` counts |
| `stale_scan` | do the readers still agree if a scan misses the invocation's own writes? | no |

The six violations each check one sentence of the documentation or of a comment, quoted with
its line under `findings` in `PROJECT.json`; each is reached without any precondition the code
excludes (`removed_scheduled`, `deploy_loud`, `readded`, `jwks_fail_closed` and `unresolvable`
with no call failing unexpectedly).

Six more things met while modelling, of which no run is made:

* `fetcher.py:147-148` says a worker "always learns it was abandoned before it can send anything".
  If the closer's `conn.close()` comes between the worker's `adopt()` and its `conn.request()`,
  `http.client` finds no socket, opens a new connection outside the handle, and sends the request.
  `LateRequestsReconnect` and `AbandonedEnds` except exactly this case, and no other is reachable.
* The MCP server keeps the URLs of its container's start (`mcp_server/app.py:23`), perhaps a mixture
  read halfway through a deployment, for as long as the container lives; `runtime_config.py:3-5` says they
  are cached for `SSM_CACHE_SECONDS`. `UrlsSettle` holds of all other containers.
* A host like `1.2.3.256`, or bad punycode, is refused by `new URL` and accepted by `urlsplit`;
  `cimd_url.py:3` says the two implementations must agree on every input. No harm follows: synth is the
  stricter one, and the name does not resolve. `GatesAgree` excepts such hosts.
* Keys rotated behind an unchanged `jwks_uri` go unnoticed while the document's origin answers 304
  (`reconcile.py:112`), contrary to README.md:351. It has the cause of `jwks_fail_closed`.
* `update_callbacks` succeeds, the write of the row after it fails (`reconcile.py:194`), and the publisher takes
  the change back: a 304, or a 200 with the URIs the row has, never asks Cognito what it has, so the client keeps
  the URIs of the failed update until the next change. `CallbacksMatchRow` excepts runs with a failed call for this
  reason. (Cognito then accepts a URI the proxy does not offer; the proxy still resolves by the row.)
* A rotation in which the call after `create_client` fails leaves the *new* client without a row
  (`reconcile.py:177`); `store.py:66-68` speaks of the old one only. `OrphansCostFaults` says that nothing
  else does.

`ServedClientsExist` promises a login page only while no call has failed; `CleanRunRepairs` takes up from there:
whatever failed before, a run that went through its list without an error leaves every client it serves
whole (with a login page, in Cognito).

Bounds. One URL is enough for every per-URL behaviour, since `_reconcile_url` of one URL reads
and writes no row of another. (The invariant of the proofs was also checked with two URLs.) The three
documents of `registrar_safety` have the cache classes `max-age`, `no-cache` and the default one, two lists of
redirect URIs, are with and without `jwks_uri`, and one of them is served without an ETag; `no-store` is in
`registrar_liveness`. The list `b`, which the stricter build refuses, stands there for what is never acceptable;
`x`, refused from the start, is in the runs that refute claims. The proofs are about any documents. Of keys,
two key contents give a rotation; three Cognito identifiers give a first client, its
replacement, and a replacement of that, or an orphan. A clock of 4 passes every limit once
(access lifetime 2, bound on staleness 3, cache 1 and 2). Two changes give a change and its
reversal (`stale_scan` needs a third). `registrar_liveness` makes do with one change (a rotation,
a removal, an outage or a destroyed stack, followed by one fault), so that three identifiers
always suffice and no invocation waits for one for ever. One fault (a call that raises, a lost reply, a kill) leaves each half-done sequence once, and a later
run to repair it. The content of published keys matters only for equality, hence the symmetry.
In `registrar_lock`, waits of 2 and 1 stand for the deployment and the revalidation; both kinds of
work appear, a run through the list with its scan and a look-up of one URL. The clock of 7 lets the second
invocation start while the first is alive, and take over after the first has been killed and its ttl has
passed on either clock. A unit is less than the shortest pause (`MinPause` is 2, the first delay 3), so that the
floor of `handler.py:57` takes effect and sleeping past the deadline by a part of it can be told from sleeping past it by
all of it; one edit is a removal at any moment of both. More invocations, URLs and edits are
covered by the proofs. (A scheduled run is a deployment's with a wait of 0.)

In `proxy` one request and one URL suffice: requests share nothing but the rows they read, and rows
of different URLs are independent. Three writes give a client, its rotation and its deletion, or any
two changes during the request; three identifiers are one for each. (A fourth write, which lets a client
be deleted and registered again while one request waits, was checked once, in 5.8 million states; the
theorems of `Proxy_proofs` cover any number.) The clock of 2 lets an entry
expire before, during or not at all. In `client_cache` one container suffices for the same
reason; three writes are enabling, disabling and enabling again, or a rotation; the clock of 5 lets an
entry of lifetime 2 expire and be made again. Two parameters and two deployments give a mixture; an
entry of URLs has lifetime 3, longer than the time of one read.

In `guarded_fetch` the entries are every combination of the values of a URL's parts, and every segment of
up to 7 characters over those that escapes of escapes need, up to 5 over all, and dots, slashes and a digit escaped up
to six times over, one more than is needed to pass the bound of 4. One entry is fetched, all being alike to
the fetcher. A budget of 3 leaves time for both waits, a limit of 3 bytes has bodies below, at and above it
(by one and by two), and three addresses give an empty, a public, a mixed and a private resolution.

`DisablementBites` allows the cache lifetime plus the time of one read. The comment in
`shared/mapping_store.py:3-6` and README.md:374 call the cache lifetime the upper bound; the entry is
stamped after the read returns, so a disablement that lands between the read and the stamp is honoured
for the time that read took in addition. With reads of milliseconds this is of no consequence, and the
property says what the code gives.

`CHECK_DEADLOCK FALSE`: the models stop when the clock, the identifiers, the invocations or the requests
are used up.

Fairness. `WF(RunStep)`: an invocation is running code, unless it is killed. `WF(Tick)`: time
passes. `SF(BeginRun("schedule"))`: the hourly rule is repeatedly able to start a run, and does not
find the lock taken each and every time; weak fairness would not do, because invocations of other
kinds disable it. In
`RegistrarSystem`, `WF(PassTime)` and `WF(Proceed(i))`: the code of an invocation goes on, whatever
it waits for, until it ends or is killed. In `GuardedFetch` the main thread, the closer and the worker's
own steps run and time passes; connecting and the handshake have a timeout, so they end. Nothing is
assumed of the resolver or of the peer: the two may block for ever, and `CallerReturns` holds all the same. No fairness is assumed of faults,
of publishers, of the TTL deletion, or of the operator. `ScheduledDeletionHappens` and
`UnreachableIsDisabled` speak of moments the bounded clock reaches.

## 4. Proofs

`RegistrarReadersAgree`: `ScansAreConsistent => (Spec => []ReadersAgree)`, for any URLs, documents,
keys, limits and any number of faults. `ReadersAgree` is not inductive: a step writes the row
an earlier step planned, or deletes the rows a scan found. The invariant `Inv` adds

* `TypeOK`;
* `PlanInv`: what `run.target`, `run.retire` and `run.url` are in each phase: the client to be
  retired is the one the row has now, the client just created is in no row;
* `ScanInv`: what the two sweeps carry is what the rows said;
* `IdsInv`: every identifier in a row is below `nextId`, so a created client is new;
* `PurgeInv`: between scan and deletion the row scanned still has the identifier scanned. This is
  where consistent scans are needed, and `stale_scan` shows that it fails without them.

`Inv` was checked by TLC on instances with one and two URLs before it was proved, action by action.
`RegistrarTyping` needs no assumption on scans. `LockMutualExclusion`, `LockOwned` and
`LockTyping` hold for any number of invocations, under `LockTtl >= Timeout + 2 * Skew`. This is
weaker than what `validateConfig` demands (`LockTtl > 1.5 * Timeout`) as long as clocks differ by
less than a quarter of the timeout; the bound on skew itself is an assumption about the hosts.

`SystemKeepsLock` is a refinement: `SystemSpec => Spec` of the lock, so that `LockMutualExclusion` and
the others hold of the invocations at work. On it rest `SystemRunDecides` and `SystemRemovedStaysOut`,
by an invariant of three parts beside the types and the lock's invariant: a client served while
somebody is retiring is on that invocation's list or among the rows it still has to retire
(`RetiringCovers`, which needs mutual exclusion: nobody else may serve a client in between); a client
on a live invocation's list is still allowed, or was removed after the invocation started
(`ListIsRecent`); only who holds the lock works (`OnlyHoldersWork`).

`RegistrarKeepsPromises`: `ScansAreConsistent /\ StackIsKept => (Spec => KeepsPromises)`, the refinement
of section 3 for every value of the constants. With a stack deletion the registrar deletes enabled
clients, which `Registration` forbids; that is what `StackIsKept` (`"delete"` is none of the `Kinds`)
excludes. `Inv` is not enough for it, and `ReaderInv`, checked by TLC before it was proved, adds

* `TimesInv`: what an invocation works with was fetched after it started and not before any row of its
  table (`Seen`), so that no write makes an entry older;
* `TargetInv`: a planned row is the stored one disabled, or rests on the fetch of this very round
  (`Confirms`) and does not take away what the URL's client is allowed;
* `CleanInv`: what `_retire_removed` found is still enabled and what a purge found is still disabled
  until their turn comes.

Steps that leave the tables alone stutter, or are `Waste` (an identifier becomes spent when its
invocation fails before the transaction); the proof of that is `TablesKeptRefines`, and asks of a step
only that it takes no spent identifier up again (`ClaimsNothing`). `Put` is the case that matters:
`PutRefines` shows it to be `Disable`, `Refresh`, `Register` or `Rotate`. `DeleteClientRows` is `Delete`
for a URL and a stutter for the bookkeeping row of a retired client.

All safety properties of `Proxy` are proved, for any number of requests, URLs, identifiers and writes.
The assumptions of `Proxy` say that `None` is no value of the other sets, and nothing of the limits but
that they are numbers. `ProxyInv` adds to the types

* `TableInv`: an identifier belongs to one URL, and none that was given up is in a row;
* `Served`: what a request holds in each phase, in five parts. Its row is one it has seen enabled, of a client
  not given up before it began (`Backed`); the URI it will forward is of that row (`Paired`), the URI it
  would redirect to is of a row it has seen (`Listed`); a refusal has a reason (`Refusable`); the row was
  fresh or was confirmed (`Current`). None of this depends on the table, so other actors' writes keep it;
* `Watching`: what a waiting request has seen includes the row as it is now, and between the registrar's
  answer and the second read every row its URL has, or will have, rests on a fetch since the question
  (`Since`, which needs `deletedAt`).

`FetchAcceptsWhole` and `FetchSendsNothingLate` hold of `GuardedFetch` for any budget, limit and
addresses, in every interleaving of the four threads. `FetchInv` says where the threads are together
(`Together`), what the worker has read (`Reading`), what the handle knows of the connection
(`Handled`), and, decisive for the second, that once the mark of `cancel` is set the connection a worker
is sending on is closed before the main thread goes on (`Closed`). `FetchGatesAgree` is about the two
implementations of the URL rules, with segments of any length: the two decoders differ only on texts
that the rules refuse before either is called, so both loops take the same rounds.

`FetchCleansUp` needs `Tracked` beside `FetchInv`: an open connection 1 is known to the worker about to hand it
over, or to the handle; once the mark is set, that worker asks for it or the main thread is about to shut it.
It is the safety part of `AbandonedEnds`: a worker still reading from connection 1 when `fetch_document` is over
finds it shut and wakes, so what is left to fairness is that threads run.
`FetchInTime` is the half of `CallerReturns` that is no liveness.

`FetchPathStaysPut`: whatever is on the allow-list, segments of any length, escapes nested to any depth. The
loop decodes all escapes in each round, what stands in front of an origin decodes some, in any order;
the loop says nothing of the texts in between. What connects the two is confluence:

* `EscapesApart`, `DecodedTogether`: the escapes of a text do not touch each other, so decoding some and then
  others is the same as decoding them at once;
* `Diamond`: two ways to decode a text can be brought together;
* `LeadsOn`: if decoding can lead from a text to one without escapes, it still can after any decoding. `Leads`
  is reflexive-transitive closure, defined as membership in every set of texts that contains the
  end and all texts that become one of its own, so that no steps need be counted;
* `DotsAndSlashesStay`, `LeadsToClean`: a dot segment or a separator is never decoded away, so what leads to a
  text that is neither was neither;
* `AcceptedLeads`: the last round of an accepted segment is such a text, has no escape left (another
  decoding changed nothing), and the segment leads to it.

The invariant, `OnTheWay`, is that an accepted entry still leads to such a text. The rounds are a recursive
function; that its definition defines it, and what holds of every round, is proved by a least
counterexample: `LeastOf`, from the library's facts that `<` is well-founded on Nat (`NatLessThanWellFounded`,
`WFMin`), which take no operator as a parameter. `UrlAssumption` says that entries are URLs (`Urls`) and that
`MaxDecodes` is positive.

The other safety properties of `Registrar` are in `RegistrarSafety_proofs`. A step of `Registrar` says all of
what the code does; each property looks at little of it. So every step is first shown to be of one of
some twenty shapes (`Moved`: `Skips`, `Passes`, `DraftsNew`, `Puts`, `Retires`, `DeletesRows`, `Fails`, ...),
and what follows speaks of shapes only. All share `SafeInv`, which adds to `Inv`

* `RoundInv`: how the clock, the list and the phase of a run go together (`run.started <= run.now <= clock
  <= run.started + RunLimit` while it works; what is left to do is on the list; a sweep has nothing left to do);
* `RowInv`: a row's entry in the proxy's eyes does not outlive `CacheMax`, its ETag is of the document whose
  redirect URIs it holds, and an enabled row is not scheduled for deletion;
* `DraftInv`: the row an invocation is about to write is such a row, and either rests on a document
  this round has seen and accepted, or keeps the client and leaves it disabled.

`RegistrarFreshMeansSeenNow` and `RegistrarRotationIsComplete` follow from it. The others need one invariant more:

| Theorem | Invariant beside `SafeInv`, and why |
| --- | --- |
| `RegistrarStalenessBounded` | `PassedInv`: the bound holds already of each URL the run has gone through, while it works on the next |
| `RegistrarRemovedIsDisabled` | `RemovedInv`: whoever is enabled off the list is among the rows the scan left to retire |
| `RegistrarServedClientsKept` | `Leading`: the `INDEX#` row of a stored client leads back to its row, so two rows never share a client; `PurgedInv`: the rows being purged are disabled and due |
| `RegistrarTokensOutlived` | the same, and `TokenInv`: a row scheduled for deletion is due no earlier than its client's tokens expire, less the duration of one run |
| `RegistrarOrphansCostFaults` | `OrphanInv`: the client of a row that is about to be deleted is already gone; finiteness, for the count: a step adds one orphan only when it fails, or when the reply of a create is lost |
| `RegistrarServedClientsExist` | `Leading`, `PurgedInv`, and `ExistInv`: also of a disabled row's client, except between `delete_branding` and the row's deletion, since a later run may enable it again |
| `RegistrarCleanRunRepairs` | `RepairInv`: in a run without an error, the enabled clients of the URLs it has gone through exist and have their login page, and so does that of an enabled row it is about to write, unless its login page is looked after next (`EnsureBranding`) |
| `RegistrarCallbacksMatchRow` | `CallbackInv`: also of disabled rows and of the client just created; `UniqueInv`, which takes the place of `Leading` where scans are stale |

`ScansAreConsistent` is a hypothesis of those about what a purge deletes, and is needed: with `StaleScans`, TLC finds
`OrphansCostFaults` and `ServedClientsExist` violated on the instance of `stale_scan`. The run
`registrar_safety` has it too. `FreshMeansSeenNow`, `RotationIsComplete`, `RemovedIsDisabled`,
`CleanRunRepairs` and `CallbacksMatchRow` hold without it. `RegistrarStalenessBounded` assumes that every outage is a `FetchError`
(`OutagesAreFetchErrors`); the run `unresolvable` shows what another exception does. `ServedClientsExist` says itself
that it is about a stack that is kept.

`LockWakesByDeadline` follows from the arithmetic of the backoff, `min(backoff, max(0.1, deadline - now))`, and the
typing of the timers: an invocation sleeps past its deadline by less than the shortest pause.

`RuntimeConfig_proofs` is about the two caches of a container, for any number of containers, clients and
parameters and any lifetimes. For the clients, `RememberInv` says of every entry, and of every lookup between
its read and its stamp, that it was right when it was read, or that the client has changed sides no longer
ago than the entry is old (plus one read): `lostAt` and `gainedAt` are written by every step of
`Registration` that changes `accepted`. For the URLs, `UrlsInv` says the same of each page read, one by one:
what was read is what is stored now, or a deployment has written since the read began, which is the moment the
entry is dated from. So a mixture of two deployments lives no longer than an entry, or than its own read if that
takes longer. It does not hold of containers that ask once (`once`), and the property leaves them out.

What stays with TLC. Liveness, fairness and ENABLED being out of the prover's reach: `ScheduledDeletionHappens`,
`UnreachableIsDisabled`, `InvocationsEnd`, `CallerReturns`, `AbandonedEnds`. And the six claims that TLC refutes.
Every other property of a passing run, invariant or action property, is a theorem. The library's induction
theorems themselves take an operator as a parameter and cannot be used; where data are of any length
(`Rounds`), the least counterexample takes their place.

## 5. Not modelled, and why

Which addresses are globally routable, TLS and certificates, and HTTP's syntax: `GuardedFetch` has a set of
public addresses and a peer that may do anything. The rest of `derive.ts` (names, domains, throttles);
the rules of `validate_document` and the order of `validate_authorize`'s checks, which are pure and read
no state. A deployment that changes only the public URL does not re-run the registrar
(`registration-stack.ts:130-133` hashes no URL): client scopes are constants of the models, so this
is not seen. `fixture://` rows of pre-registered development clients (the registrar skips them); log lines and
their redaction; the static test client; the resources the CDK stacks declare apart from the
schedule, timeouts and limits; OAuth payload formats; client settings that are constants of the
code (scopes, auth flows, token validity).

## 6. Plan

Done, in this order: the lock; the registrar with its properties and claims; their proofs; the abstract
specification, the refinement and its proof; the readers in front of it, with proofs about the proxy;
the invocations together, with proofs; the guarded fetch and the URL rules, with proofs; the runtime
configuration; proofs of the registrar's other safety properties, of the lock's waking and of a container's
two caches; of what a fetch leaves open, and that accepted paths stay in place. What is left, most important first:

1. Pure functions against reference definitions: `cache_seconds`, the rules for redirect URIs, the order
   of checks in `validate_authorize`.
2. Time within a run: many slow origins of one allow-list against Lambda's timeout, and a revalidation
   (lock wait and two fetch deadlines) against the proxy's.
