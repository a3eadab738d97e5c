------------------------- MODULE RegistrarProperties -------------------------
(* What the registrar is for, stated about Registrar.                      *)
EXTENDS Registrar

-----------------------------------------------------------------------------
(* Types.                                                                  *)

Time == Nat \cup {None}
UriLists == {d.uris : d \in Documents}
Fingerprints == {JwksFingerprint(d, c) : d \in Documents, c \in Keys \cup {None}}

RowSet ==
    [id : Ids, enabled : BOOLEAN, deleteAfter : Time, cacheUntil : Nat, fetchedAt : Nat,
     etag : Documents \cup {None}, uris : UriLists \cup {None},
     fp : Fingerprints \cup {None}, jwksAt : Time]
IndexSet == [key : RowKeys, enabled : BOOLEAN]
ClientSet == [uris : UriLists \cup {None}, branded : BOOLEAN]

(* A row about to be written; its client may not exist yet.                *)
PlanSet ==
    [id : Ids \cup {None}, enabled : BOOLEAN, deleteAfter : Time, cacheUntil : Nat,
     fetchedAt : Nat, etag : Documents \cup {None}, uris : UriLists \cup {None},
     fp : Fingerprints \cup {None}, jwksAt : Time]

ASSUME NoneAssumption == None \notin RowSet \cup IndexSet \cup ClientSet \cup PlanSet

Phases == {"idle", "next", "jwks", "create", "brand", "update", "put", "ensure",
           "answer", "retire", "purge", "deleteClient", "deleteRows"}

UrlSets == SUBSET Urls
Snapshots == [RowKeys -> RowSet \cup {None}] \cup {None}
Plans == PlanSet \cup {None}
Scans == SUBSET [key : RowKeys, id : Ids]

ASSUME SnapshotAssumption == None \notin [RowKeys -> RowSet \cup {None}]

RunSet ==
    [kind : Kinds \cup {"idle"}, phase : Phases, allow : UrlSets, strict : BOOLEAN,
     started : Nat, before : Snapshots, todo : UrlSets, url : RowKeys \cup {None},
     now : Nat, doc : Documents \cup {None}, target : Plans, retire : Ids \cup {None},
     after : {"next", "ensure"}, verdict : BOOLEAN, errors : BOOLEAN, scan : Scans]

(* Every table, client, published item and piece of the invocation's own   *)
(* state has the shape the code gives it.                                  *)
TypeOK ==
    /\ clock \in Nat /\ changes \in Nat /\ faults \in Nat
    /\ allowed \subseteq Urls
    /\ strict \in BOOLEAN
    /\ web \in [Urls -> Documents \cup NotFetched]
    /\ keys \in [Urls -> Keys \cup NotFetched]
    /\ rows \in [RowKeys -> RowSet \cup {None}]
    /\ index \in [Ids -> IndexSet \cup {None}]
    /\ cognito \in [Ids -> ClientSet \cup {None}]
    /\ nextId \in Nat \ {0}
    /\ tokenLife \in [Ids -> 0 .. AccessLifetime]
    /\ deletedAt \in [Urls -> Nat]
    /\ run \in RunSet

-----------------------------------------------------------------------------
(* Safety.                                                                 *)

(* The proxy finds a client by its CLIENT# row, the verifier by its INDEX# *)
(* row.  The two never disagree on which client a URL has or on whether it *)
(* is enabled, at any moment of a first registration, a rotation, a        *)
(* disabling or a deletion: store.py's "never see a half-state".           *)
ReadersAgree ==
    /\ \A k \in RowKeys :
          rows[k] # None => index[rows[k].id] = [key |-> k, enabled |-> rows[k].enabled]
    /\ \A i \in Ids :
          index[i] # None => rows[index[i].key] # None /\ rows[index[i].key].id = i

(* A Cognito client that no row leads to.                                  *)
Orphans ==
    {i \in Ids : /\ cognito[i] # None
                 /\ \A k \in RowKeys : rows[k] # None => rows[k].id # i
                 /\ ~(run.phase \in {"brand", "put"} /\ run.target.id = i)}

(* As long as every call succeeds nothing is left behind in the user pool; *)
(* each call that raises or whose reply is lost, and each kill, costs at   *)
(* most one client.                                                        *)
OrphansCostFaults == Cardinality(Orphans) <= faults

(* A client the verifier accepts exists in the user pool, whatever fails   *)
(* (no stack deletion is considered), and if nothing failed its login page *)
(* exists too: a deletion cut short after delete_branding, or after        *)
(* delete_client, is repaired before the client is enabled again.          *)
ServedClientsExist ==
    "delete" \notin Kinds =>
        \A i \in Ids :
            index[i] # None /\ index[i].enabled
                => cognito[i] # None /\ (cognito[i].branded \/ faults > 0)

(* Whatever was left half done before it, by a deletion cut short or by a  *)
(* call that failed: of a run that went through its list and noted no      *)
(* error, every client it leaves enabled exists and has its login page.    *)
CleanRunRepairs ==
    run.phase = "retire" /\ ~run.errors
        => \A u \in run.allow :
              Enabled(u) => cognito[rows[u].id] # None /\ cognito[rows[u].id].branded

(* Cognito accepts exactly the redirect URIs the proxy resolves against,   *)
(* except between the two writes of an update, and after a fault there.    *)
CallbacksMatchRow ==
    \A u \in Urls :
        Enabled(u) /\ cognito[rows[u].id] # None
            => \/ cognito[rows[u].id].uris = rows[u].uris
               \/ run.phase = "put" /\ run.url = u
               \/ faults > 0

(* An invocation that answers fresh has itself, since it started, seen the *)
(* document whose redirect URIs it leaves enabled, under its own rules.    *)
FreshMeansSeenNow ==
    run.phase = "answer" /\ run.verdict /\ Enabled(run.url)
        => LET row == rows[run.url]
           IN  /\ run.url \in run.allow
               /\ row.fetchedAt >= run.started
               /\ run.doc # None /\ row.uris = run.doc.uris
               /\ Acceptable(row.uris, run.strict)

(* When a run has gone through its allow-list without a fault, no client   *)
(* it leaves enabled was last confirmed more than MaxStale before: a       *)
(* cached entry never outlives the bound on staleness (README section 8:   *)
(* "After cimd.maxStaleHours the client is disabled").  It holds as long   *)
(* as every outage ends in a FetchError; the run unresolvable is about one *)
(* that does not.                                                          *)
StalenessBounded ==
    run.phase \in {"retire", "purge"} /\ run.kind # "delete" /\ faults = 0
        => \A u \in run.allow : Enabled(u) => run.started - rows[u].fetchedAt <= MaxStale

(* When a run starts to purge, nothing outside its allow-list is enabled.  *)
RemovedIsDisabled ==
    run.phase = "purge" /\ run.kind # "delete"
        => \A u \in Urls \ run.allow : ~Enabled(u)

-----------------------------------------------------------------------------
(* What one step may do.                                                   *)

(* Key material that changed never keeps its client, and a client is never *)
(* replaced without a cause: new key material, or one lost in Cognito.     *)
(* Either way the old client is disabled and put up for deletion in the    *)
(* very same step, so its refresh tokens die with it.                      *)
RotationStep ==
    \A u \in Urls :
        Stored(u) /\ rows'[u] # None
            => LET old == rows[u] new == rows'[u]
               IN  /\ new.id = old.id => new.fp = old.fp
                   /\ new.id # old.id
                         => /\ new.fp # old.fp \/ cognito[old.id] = None
                            /\ index'[old.id] = [key |-> old.id, enabled |-> FALSE]
                            /\ rows'[old.id] # None /\ rows'[old.id].deleteAfter # None
RotationIsComplete == [][RotationStep]_vars

(* A purge never takes down the client an allow-listed URL is served by,   *)
(* not even one whose deletion was pending when the run re-enabled it.     *)
ServedClientsKept ==
    [][\A u \in run.allow, i \in Ids :
          Enabled(u) /\ rows[u].id = i /\ cognito[i] # None /\ cognito'[i] = None
              => run.kind = "delete"]_vars

(* Outside a stack deletion a client is deleted only when the access       *)
(* tokens issued for it have expired, up to the time one run takes between *)
(* reading the clock and disabling the client.                             *)
TokensOutlived ==
    [][\A i \in Ids : cognito[i] # None /\ cognito'[i] = None
          => run.kind = "delete" \/ tokenLife[i] <= RunLimit]_vars

-----------------------------------------------------------------------------
(* Liveness.                                                               *)

(* A client scheduled for deletion is deleted, its row with it, unless it  *)
(* is registered again; the clock must get far enough.                     *)
ScheduledDeletionHappens ==
    \A k \in RowKeys :
        (rows[k] # None /\ rows[k].deleteAfter # None /\ rows[k].deleteAfter <= MaxClock)
            ~> (rows[k] = None \/ rows[k].deleteAfter = None)

(* A client whose document stays unreachable is disabled; the clock must   *)
(* get past the bound on staleness.                                        *)
PastStale(u) == rows[u].fetchedAt + MaxStale < MaxClock
UnreachableIsDisabled ==
    \A u \in Urls :
        (Enabled(u) /\ web[u] = Down /\ PastStale(u))
            ~> (Enabled(u) => web[u] # Down \/ ~PastStale(u))
=============================================================================
