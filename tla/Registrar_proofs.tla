--------------------------- MODULE Registrar_proofs ---------------------------
(* Theorems about Registrar, for any URLs, documents, identifiers, bounds  *)
(* and faults.                                                             *)
EXTENDS RegistrarProperties, TLAPS

(* Readers agree as long as a purge acts on rows as they are: with the     *)
(* eventually consistent scans of the code it may act on a row that is no  *)
(* longer there (the run stale_scan).                                      *)
ScansAreConsistent == StaleScans = FALSE

-----------------------------------------------------------------------------
(* The inductive invariant.                                                *)

(* The planned row is for a new client, which nothing refers to yet, and   *)
(* takes over from the client stored at the URL, if there is one.          *)
RetiresStored == run.retire = IF rows[run.url] = None THEN None ELSE rows[run.url].id

PlansNewClient ==
    /\ run.target # None
    /\ run.target.id \in Ids /\ run.target.id < nextId
    /\ index[run.target.id] = None
    /\ RetiresStored

(* The planned row is for the client stored at the URL.                    *)
PlansSameClient ==
    /\ run.target # None
    /\ rows[run.url] # None /\ run.target.id = rows[run.url].id
    /\ run.retire = None

PlanInv ==
    /\ run.phase \in {"jwks", "create", "brand", "update", "put", "ensure"} => run.url \in Urls
    /\ run.phase \in {"next", "jwks"} => run.retire = None
    /\ run.phase = "jwks" => run.doc # None
    /\ run.phase = "create" => run.target # None /\ RetiresStored
    /\ run.phase = "brand" => PlansNewClient /\ cognito[run.target.id] # None
    /\ run.phase = "update" => PlansSameClient /\ cognito[run.target.id] # None
    /\ run.phase = "put" => PlansNewClient \/ PlansSameClient
    /\ run.phase = "ensure" => rows[run.url] # None

(* What a clean-up has scanned.                                            *)
ScanInv ==
    /\ run.phase = "retire"
          => \A c \in run.scan : c.key \in Urls /\ rows[c.key] # None /\ rows[c.key].id = c.id
    /\ run.phase \in {"deleteClient", "deleteRows"} => run.url \in RowKeys /\ run.retire \in Ids
    /\ StaleScans /\ run.phase # "idle" => run.before # None

PurgeInv ==
    /\ run.phase \in {"purge", "deleteClient", "deleteRows"}
          => \A c \in run.scan : rows[c.key] # None /\ rows[c.key].id = c.id
    /\ run.phase \in {"deleteClient", "deleteRows"}
          => [key |-> run.url, id |-> run.retire] \in run.scan

(* Identifiers are given out in order, and a retired client's bookkeeping  *)
(* row is its own.                                                         *)
IdsInv ==
    /\ \A i \in Ids : index[i] # None \/ cognito[i] # None => i < nextId
    /\ \A k \in RowKeys : rows[k] # None => rows[k].id < nextId
    /\ \A i \in Ids : rows[i] # None => rows[i].id = i

Inv ==
    /\ TypeOK /\ PlanInv /\ ScanInv /\ IdsInv
    /\ ScansAreConsistent => PurgeInv /\ ReadersAgree

-----------------------------------------------------------------------------
(* What the steps share.                                                   *)

LEMMA IdsFacts ==
    /\ Ids \subseteq Nat \ {0}
    /\ Ids \cap Urls = {}
    /\ None \notin Ids /\ None \notin Urls /\ None \notin RowKeys
    /\ Ids \subseteq RowKeys /\ Urls \subseteq RowKeys
  BY ConstantsAssumption DEF Ids, RowKeys

LEMMA IdleType == Idle \in RunSet
  BY DEF Idle, RunSet, Phases, UrlSets, Snapshots, Plans, Scans

LEMMA ReturnShape ==
    ASSUME run \in RunSet, NEW v \in BOOLEAN
    PROVE  /\ Return(v) \in RunSet
           /\ Return(v).phase \in {"next", "answer"} /\ Return(v).retire = None
           /\ Return(v).before = run.before
<1>. DEFINE back == [run EXCEPT !.target = None, !.retire = None, !.after = "next", !.verdict = v]
<1>1. back \in RunSet /\ back.retire = None /\ back.before = run.before
  BY ZenonT(60) DEF RunSet, Plans
<1>. HIDE DEF back
<1>2. CASE run.kind = "revalidate"
  BY ZenonT(60), <1>1, <1>2 DEF Return, back, RunSet, Phases
<1>3. CASE run.kind # "revalidate"
  BY ZenonT(60), <1>1, <1>3 DEF Return, back, RunSet, Phases
<1>. QED  BY <1>2, <1>3

LEMMA RaiseShape ==
    ASSUME run \in RunSet
    PROVE  /\ Raise \in RunSet
           /\ Raise.phase \in {"next", "answer"} /\ Raise.retire = None
           /\ Raise.before = run.before
<1>1. /\ Return(FALSE) \in RunSet
      /\ Return(FALSE).phase \in {"next", "answer"} /\ Return(FALSE).retire = None
      /\ Return(FALSE).before = run.before
  BY ReturnShape
<1>. QED  BY ZenonT(60), <1>1 DEF Raise, RunSet

LEMMA TodoShape ==
    ASSUME NEW r \in RunSet, NEW u
    PROVE  LET s == [r EXCEPT !.todo = @ \ {u}]
           IN  s \in RunSet /\ s.phase = r.phase /\ s.retire = r.retire /\ s.before = r.before
  BY DEF RunSet, UrlSets

LEMMA PlanPutShape ==
    ASSUME run \in RunSet, clock \in Nat, NEW u \in Urls, NEW row \in PlanSet,
           NEW after \in {"next", "ensure"}, NEW v \in BOOLEAN
    PROVE  LET s == PlanPut(u, row, after, v)
           IN  /\ s \in RunSet
               /\ s.phase = "put" /\ s.url = u /\ s.target = row
               /\ s.retire = run.retire /\ s.before = run.before
<1>1. u \in RowKeys \cup {None} /\ row \in Plans
  BY IdsFacts DEF Plans
<1>2. PlanPut(u, row, after, v) \in RunSet
  BY ZenonT(60), <1>1 DEF PlanPut, RunSet, Phases, UrlSets
<1>. QED  BY <1>2 DEF PlanPut, RunSet

LEMMA RowIsPlan == RowSet \subseteq PlanSet
  BY DEF RowSet, PlanSet

LEMMA DisabledType ==
    ASSUME NEW row \in RowSet, NEW when \in Time
    PROVE  /\ Disabled(row, when) \in RowSet
           /\ Disabled(row, when).id = row.id /\ Disabled(row, when).enabled = FALSE
  BY DEF Disabled, RowSet

LEMMA NewRowType ==
    ASSUME NEW doc \in Documents, NEW fp \in Fingerprints \cup {None}, NEW now \in Nat,
           NEW ttl \in Nat, NEW jwksAt \in Time
    PROVE  NewRow(doc, fp, now, ttl, jwksAt) \in PlanSet
<1>1. doc.uris \in UriLists \cup {None} /\ ETag(doc) \in Documents \cup {None}
  BY DEF UriLists, ETag
<1>2. now + ttl \in Nat /\ now \in Nat /\ None \in Time
  BY DEF Time
<1>. QED  BY <1>1, <1>2 DEF NewRow, PlanSet

LEMMA CacheSecondsType ==
    ASSUME NEW doc
    PROVE  CacheSeconds(doc) \in Nat
  BY ConstantsAssumption DEF CacheSeconds

-----------------------------------------------------------------------------
(* Steps that change neither the tables nor the user pool.                 *)

StateKept ==
    /\ UNCHANGED <<environment, rows, index, tokenLife, deletedAt, cognito, nextId>>
    /\ clock' = clock /\ faults' \in Nat

LEMMA RunStepInv ==
    ASSUME Inv, StateKept, run' \in RunSet, PlanInv', ScanInv', ScansAreConsistent => PurgeInv'
    PROVE  Inv'
<1>1. TypeOK'
  BY DEF Inv, TypeOK, StateKept, environment
<1>2. IdsInv'
  BY DEF Inv, IdsInv, StateKept
<1>3. ReadersAgree => ReadersAgree'
  BY DEF ReadersAgree, StateKept
<1>. QED  BY <1>1, <1>2, <1>3 DEF Inv

(* Nothing is planned and nothing scanned.                                 *)
LEMMA QuietStep ==
    ASSUME Inv, StateKept, run' \in RunSet,
           run'.phase \in {"idle", "next", "answer"}, run'.retire = None,
           run'.phase # "idle" => run'.before = run.before /\ run.phase # "idle"
    PROVE  Inv'
<1>1. PlanInv' /\ PurgeInv'
  BY DEF PlanInv, PurgeInv
<1>2. ScanInv'
  BY DEF ScanInv, Inv
<1>. QED  BY <1>1, <1>2, RunStepInv

(* A row is planned for the client the URL already has.                    *)
LEMMA PlanStep ==
    ASSUME Inv, StateKept, run' \in RunSet, run'.phase = "put", run'.url \in Urls,
           run'.target # None, rows[run'.url] # None, run'.target.id = rows[run'.url].id,
           run'.retire = None, run'.before = run.before, run.phase # "idle"
    PROVE  Inv'
<1>1. PlanInv' /\ PurgeInv'
  BY DEF PlanInv, PurgeInv, PlansSameClient, StateKept
<1>2. ScanInv'
  BY DEF ScanInv, Inv
<1>. QED  BY <1>1, <1>2, RunStepInv

LEMMA CreateShape ==
    ASSUME run \in RunSet, NEW row \in PlanSet, NEW v \in BOOLEAN
    PROVE  LET s == [run EXCEPT !.phase = "create", !.target = row, !.verdict = v]
           IN  /\ s \in RunSet
               /\ s.phase = "create" /\ s.target = row /\ s.url = run.url
               /\ s.retire = run.retire /\ s.before = run.before
<1>1. row \in Plans
  BY DEF Plans
<1>. QED  BY ZenonT(60), <1>1 DEF RunSet, Phases

LEMMA ReactStep ==
    ASSUME Inv, run.phase = "jwks", NEW row \in PlanSet, NEW v \in BOOLEAN,
           React(run.url, row, v), StateKept
    PROVE  Inv'
<1>. DEFINE u == run.url
            plan == [run EXCEPT !.phase = "create", !.target = row, !.verdict = v]
<1>0. run \in RunSet
  BY DEF Inv, TypeOK
<1>1. /\ u \in Urls /\ run.retire = None /\ None \notin PlanSet
      /\ rows \in [RowKeys -> RowSet \cup {None}] /\ u \in RowKeys
      /\ cognito \in [Ids -> ClientSet \cup {None}]
  BY IdsFacts, NoneAssumption DEF Inv, TypeOK, PlanInv
<1>2. /\ plan \in RunSet /\ plan.phase = "create" /\ plan.target = row /\ plan.url = u
      /\ plan.retire = None /\ plan.before = run.before
  <2>1. run.retire = None
    BY <1>1
  <2>. QED  BY ZenonT(60), <1>0, <2>1, CreateShape
<1>3. ASSUME run'.phase = "create", run' \in RunSet, run'.url = u, run'.target = row,
             run'.before = run.before,
             run'.retire = IF rows[u] = None THEN None ELSE rows[u].id
      PROVE  Inv'
  <2>1. PlanInv' /\ PurgeInv'
    BY <1>1, <1>3 DEF PlanInv, PurgeInv, RetiresStored, StateKept
  <2>2. ScanInv'
    BY <1>3 DEF ScanInv, Inv
  <2>. QED  BY <1>3, <2>1, <2>2, RunStepInv
<1>4. CASE ~Stored(u) /\ run' = plan
  BY <1>2, <1>3, <1>4 DEF Stored
<1>5. CASE Stored(u) /\ run' = [plan EXCEPT !.retire = rows[u].id, !.verdict = TRUE]
  <2>. HIDE DEF plan
  <2>1. rows[u].id \in Ids
    BY <1>1, <1>5 DEF RowSet, Stored
  <2>. QED  BY ZenonT(60), <1>2, <1>3, <1>5, <2>1 DEF Stored, RunSet
<1>6. CASE Stored(u) /\ run' = [plan EXCEPT !.retire = rows[u].id, !.after = "ensure"]
  <2>. HIDE DEF plan
  <2>1. rows[u].id \in Ids
    BY <1>1, <1>6 DEF RowSet, Stored
  <2>. QED  BY ZenonT(60), <1>2, <1>3, <1>6, <2>1 DEF Stored, RunSet
<1>7. CASE Stored(u) /\ cognito[rows[u].id] # None /\ run' = SameClient(u, row, v)
  <2>. DEFINE r == [row EXCEPT !.id = rows[u].id]
  <2>1. rows[u].id \in Ids
    BY <1>1, <1>7 DEF RowSet, Stored
  <2>2. r \in PlanSet /\ r.id = rows[u].id
    BY <2>1 DEF PlanSet
  <2>. HIDE DEF r
  <2>3. /\ run' \in RunSet /\ run'.phase \in {"put", "update"} /\ run'.url = u
        /\ run'.target = r /\ run'.retire = None /\ run'.before = run.before
    <3>1. PICK p \in {"update", "put"} :
             run' = [run EXCEPT !.phase = p, !.target = r, !.after = "ensure", !.verdict = v]
      BY <1>7 DEF SameClient, r
    <3>2. run.retire = None /\ p \in {"update", "put"}
      BY <1>1, <3>1
    <3>. DEFINE q == [run EXCEPT !.phase = p, !.target = r, !.after = "ensure", !.verdict = v]
    <3>3. /\ q \in RunSet /\ q.phase = p /\ q.target = r /\ q.url = run.url
          /\ q.retire = run.retire /\ q.before = run.before
      <4>1. r \in Plans
        BY <2>2 DEF Plans
      <4>. QED  BY ZenonT(60), <1>0, <3>2, <4>1 DEF RunSet, Phases
    <3>. HIDE DEF q
    <3>4. run' = q
      BY <3>1 DEF q
    <3>. QED  BY <3>2, <3>3, <3>4
  <2>4. PlanInv' /\ PurgeInv'
    BY <1>1, <1>7, <2>2, <2>3 DEF PlanInv, PurgeInv, PlansSameClient, StateKept, Stored
  <2>5. ScanInv'
    BY <2>3 DEF ScanInv, Inv
  <2>. QED  BY <2>3, <2>4, <2>5, RunStepInv
<1>. QED  BY <1>4, <1>5, <1>6, <1>7 DEF React

-----------------------------------------------------------------------------
(* The environment, and the start of an invocation.                        *)

LEMMA EnvironmentStep ==
    ASSUME Inv, run' = run, UNCHANGED <<rows, index, deletedAt, cognito, nextId, faults>>,
           clock' \in Nat, changes' \in Nat, allowed' \subseteq Urls, strict' \in BOOLEAN,
           web' \in [Urls -> Documents \cup NotFetched], keys' \in [Urls -> Keys \cup NotFetched],
           tokenLife' \in [Ids -> 0 .. AccessLifetime]
    PROVE  Inv'
<1>1. TypeOK'
  BY DEF Inv, TypeOK
<1>2. PlanInv'
  BY DEF Inv, PlanInv, PlansNewClient, PlansSameClient, RetiresStored
<1>3. ScanInv' /\ IdsInv'
  BY DEF Inv, ScanInv, IdsInv
<1>4. ScansAreConsistent => PurgeInv' /\ ReadersAgree'
  BY DEF Inv, PurgeInv, ReadersAgree
<1>. QED  BY <1>1, <1>2, <1>3, <1>4 DEF Inv

LEMMA TickStep == Inv /\ Tick => Inv'
<1>. SUFFICES ASSUME Inv, Tick PROVE Inv'
  OBVIOUS
<1>1. tokenLife' \in [Ids -> 0 .. AccessLifetime]
  <2>1. tokenLife \in [Ids -> 0 .. AccessLifetime] /\ AccessLifetime \in Nat
    BY ConstantsAssumption DEF Inv, TypeOK
  <2>2. \A i \in Ids : tokenLife[i] # 0 => tokenLife[i] - 1 \in 0 .. AccessLifetime
    BY <2>1
  <2>3. tokenLife' = [i \in Ids |->
          IF tokenLife[i] = 0 \/ (index[i] # None /\ index[i].enabled)
          THEN tokenLife[i] ELSE tokenLife[i] - 1]
    BY DEF Tick
  <2>. QED  BY <2>1, <2>2, <2>3
<1>2. clock' \in Nat
  BY DEF Tick, Inv, TypeOK
<1>. QED  BY <1>1, <1>2, EnvironmentStep DEF Tick, environment, userPool, Inv, TypeOK

LEMMA ChangeStep == Inv /\ Environment => Inv'
<1>. SUFFICES ASSUME Inv, Environment PROVE Inv'
  OBVIOUS
<1>1. /\ run' = run /\ UNCHANGED <<clock, rows, index, tokenLife, deletedAt, cognito, nextId, faults>>
      /\ changes' \in Nat
  BY DEF Environment, Publish, PublishKeys, EditAllowList, DeployStricterRules, Change,
         tables, userPool, Inv, TypeOK
<1>2. /\ allowed' \subseteq Urls /\ strict' \in BOOLEAN
      /\ web' \in [Urls -> Documents \cup NotFetched] /\ keys' \in [Urls -> Keys \cup NotFetched]
  <2>1. /\ Documents \cup Outages \subseteq Documents \cup NotFetched
        /\ Keys \cup Outages \subseteq Keys \cup NotFetched
    BY ConstantsAssumption
  <2>2. /\ allowed \subseteq Urls /\ strict \in BOOLEAN
        /\ web \in [Urls -> Documents \cup NotFetched] /\ keys \in [Urls -> Keys \cup NotFetched]
    BY DEF Inv, TypeOK
  <2>3. CASE \E u \in Urls, d \in Documents \cup Outages : Publish(u, d)
    BY <2>1, <2>2, <2>3 DEF Publish
  <2>4. CASE \E u \in Urls, k \in Keys \cup Outages : PublishKeys(u, k)
    BY <2>1, <2>2, <2>4 DEF PublishKeys
  <2>5. CASE \E u \in Urls : EditAllowList(u)
    BY <2>2, <2>5 DEF EditAllowList
  <2>6. CASE DeployStricterRules
    BY <2>2, <2>6 DEF DeployStricterRules
  <2>. QED  BY <2>3, <2>4, <2>5, <2>6 DEF Environment
<1>. QED  BY <1>1, <1>2, EnvironmentStep DEF Inv, TypeOK

LEMMA StartedShape ==
    ASSUME Inv, NEW kind \in Kinds, NEW phase \in Phases, NEW todo \in UrlSets
    PROVE  LET s == Started(kind, phase, todo)
           IN  /\ s \in RunSet
               /\ s.phase = phase /\ s.retire = None /\ s.target = None /\ s.scan = {}
               /\ StaleScans => s.before # None
<1>. DEFINE before == IF StaleScans THEN rows ELSE None
<1>1. before \in Snapshots /\ (StaleScans => before # None)
  <2>1. rows \in [RowKeys -> RowSet \cup {None}] /\ \A k \in RowKeys : TRUE
    BY DEF Inv, TypeOK
  <2>. QED  BY <2>1, SnapshotAssumption DEF Snapshots
<1>2. allowed \in UrlSets /\ strict \in BOOLEAN /\ clock \in Nat
  BY DEF Inv, TypeOK, UrlSets
<1>. HIDE DEF before
<1>3. Started(kind, phase, todo) =
        [Idle EXCEPT !.kind = kind, !.phase = phase, !.allow = allowed, !.strict = strict,
                     !.started = clock, !.todo = todo, !.before = before]
  BY DEF Started, before
<1>4. /\ Idle \in RunSet /\ Idle.retire = None /\ Idle.target = None /\ Idle.scan = {}
  BY IdleType DEF Idle
<1>. DEFINE r == [Idle EXCEPT !.kind = kind, !.phase = phase, !.allow = allowed]
<1>5. /\ r \in RunSet /\ r.phase = phase
      /\ r.retire = None /\ r.target = None /\ r.scan = {}
  BY <1>2, <1>4 DEF RunSet
<1>6. Started(kind, phase, todo) =
        [r EXCEPT !.strict = strict, !.started = clock, !.todo = todo, !.before = before]
  BY <1>3, Zenon
<1>. HIDE DEF r
<1>. QED  BY ZenonT(60), <1>1, <1>2, <1>5, <1>6 DEF RunSet

LEMMA BeginStep ==
    ASSUME Inv, StateKept, NEW kind \in Kinds, NEW todo \in UrlSets,
           run' = Started(kind, "next", todo)
    PROVE  Inv'
<1>1. /\ run' \in RunSet /\ run'.phase = "next" /\ run'.retire = None
      /\ StaleScans => run'.before # None
  <2>1. "next" \in Phases
    BY DEF Phases
  <2>. QED  BY <2>1, StartedShape
<1>2. PlanInv' /\ PurgeInv' /\ ScanInv'
  BY <1>1 DEF PlanInv, PurgeInv, ScanInv
<1>. QED  BY <1>1, <1>2, RunStepInv

LEMMA BeginRunStep == ASSUME NEW kind \in Kinds PROVE Inv /\ BeginRun(kind) => Inv'
<1>1. Inv /\ BeginRun(kind) => StateKept /\ allowed \in UrlSets
  BY DEF BeginRun, Begin, StateKept, environment, tables, userPool, Inv, TypeOK, UrlSets
<1>2. BeginRun(kind) => run' = Started(kind, "next", allowed)
  BY DEF BeginRun
<1>. QED  BY <1>1, <1>2, BeginStep

LEMMA BeginRevalidateStep == ASSUME NEW u \in Urls PROVE Inv /\ BeginRevalidate(u) => Inv'
<1>. SUFFICES ASSUME Inv, BeginRevalidate(u) PROVE Inv'
  OBVIOUS
<1>1. StateKept /\ "revalidate" \in Kinds /\ {u} \in UrlSets /\ u \in RowKeys
  BY IdsFacts DEF BeginRevalidate, Begin, StateKept, environment, tables, userPool, Inv, TypeOK, UrlSets
<1>. DEFINE s == Started("revalidate", "next", {u})
<1>2. s \in RunSet /\ s.phase = "next" /\ s.retire = None /\ (StaleScans => s.before # None)
  <2>1. "next" \in Phases
    BY DEF Phases
  <2>. QED  BY <1>1, <2>1, StartedShape
<1>3. run' = [s EXCEPT !.url = u]
  BY DEF BeginRevalidate
<1>. HIDE DEF s
<1>4. /\ run' \in RunSet /\ run'.phase = "next" /\ run'.retire = None
      /\ StaleScans => run'.before # None
  BY <1>1, <1>2, <1>3 DEF RunSet
<1>5. PlanInv' /\ PurgeInv' /\ ScanInv'
  BY <1>4 DEF PlanInv, PurgeInv, ScanInv
<1>. QED  BY <1>1, <1>4, <1>5, RunStepInv

(* A scan names rows that are there, with their identifiers.               *)
LEMMA KeyIdsFacts ==
    ASSUME TypeOK, NEW ks \in SUBSET RowKeys
    PROVE  /\ KeyIds(ks) \in Scans
           /\ \A c \in KeyIds(ks) : c.key \in ks /\ rows[c.key] # None /\ rows[c.key].id = c.id
<1>1. \A k \in ks : rows[k] # None => rows[k].id \in Ids
  BY DEF TypeOK, RowSet
<1>2. KeyIds(ks) \subseteq [key : RowKeys, id : Ids]
  BY <1>1 DEF KeyIds
<1>3. \A c \in KeyIds(ks) : c.key \in ks /\ rows[c.key] # None /\ rows[c.key].id = c.id
  BY DEF KeyIds
<1>. QED  BY <1>2, <1>3 DEF Scans

LEMMA BeginDeleteStep == Inv /\ BeginDelete => Inv'
<1>. SUFFICES ASSUME Inv, BeginDelete PROVE Inv'
  OBVIOUS
<1>. DEFINE s == Started("delete", "purge", {})
            scan == KeyIds(RowKeys)
<1>1. /\ UNCHANGED <<clock, allowed, strict, web, keys, rows, index, tokenLife, deletedAt, cognito, nextId, faults>>
      /\ changes' \in Nat /\ "delete" \in Kinds /\ {} \in UrlSets /\ TypeOK
  BY DEF BeginDelete, Change, tables, userPool, Inv, TypeOK, UrlSets
<1>2. s \in RunSet /\ s.phase = "purge" /\ (StaleScans => s.before # None)
  <2>1. "purge" \in Phases
    BY DEF Phases
  <2>. QED  BY <1>1, <2>1, StartedShape
<1>3. scan \in Scans /\ \A c \in scan : rows[c.key] # None /\ rows[c.key].id = c.id
  BY <1>1, KeyIdsFacts
<1>4. run' = [s EXCEPT !.scan = scan]
  BY DEF BeginDelete
<1>. HIDE DEF s, scan
<1>5. /\ run' \in RunSet /\ run'.phase = "purge" /\ run'.scan = scan
      /\ StaleScans => run'.before # None
  BY <1>2, <1>3, <1>4 DEF RunSet
<1>6. PlanInv' /\ PurgeInv' /\ ScanInv'
  BY <1>1, <1>3, <1>5 DEF PlanInv, PurgeInv, ScanInv
<1>7. TypeOK' /\ IdsInv' /\ (ReadersAgree => ReadersAgree')
  BY <1>1, <1>5 DEF Inv, TypeOK, IdsInv, ReadersAgree
<1>. QED  BY <1>6, <1>7 DEF Inv

-----------------------------------------------------------------------------
(* _reconcile_url, as far as the fetch of the document.                    *)

LEMMA ConsiderFacts ==
    ASSUME Inv, NEW u, Consider(u)
    PROVE  /\ StateKept /\ u \in Urls /\ u \in RowKeys
           /\ run \in RunSet /\ run.phase = "next" /\ run.retire = None
           /\ rows[u] # None => rows[u] \in RowSet /\ rows[u].id \in Ids
<1>1. /\ StateKept /\ run \in RunSet /\ run.phase = "next" /\ run.retire = None
      /\ rows \in [RowKeys -> RowSet \cup {None}]
  BY DEF Consider, StateKept, environment, tables, userPool, Inv, TypeOK, PlanInv
<1>2. u \in Urls
  BY <1>1 DEF Consider, RunSet, UrlSets
<1>. QED  BY <1>1, <1>2, IdsFacts DEF RowSet

LEMMA SkipCachedStep == ASSUME NEW u \in Urls PROVE Inv /\ SkipCached(u) => Inv'
<1>. SUFFICES ASSUME Inv, SkipCached(u) PROVE Inv'
  OBVIOUS
<1>1. /\ StateKept /\ u \in RowKeys /\ rows[u] # None
      /\ run \in RunSet /\ run.phase = "next" /\ run.retire = None
  BY ConsiderFacts DEF SkipCached, Skippable, Enabled, Stored
<1>2. run' = [run EXCEPT !.phase = "ensure", !.url = u, !.todo = @ \ {u}, !.verdict = FALSE]
  BY DEF SkipCached
<1>3. /\ run' \in RunSet /\ run'.phase = "ensure" /\ run'.url = u /\ run'.retire = None
      /\ run'.before = run.before
  BY ZenonT(60), <1>1, <1>2 DEF RunSet, Phases, UrlSets
<1>4. PlanInv' /\ PurgeInv'
  BY <1>1, <1>3 DEF PlanInv, PurgeInv, StateKept
<1>5. ScanInv'
  BY <1>1, <1>3 DEF ScanInv, Inv
<1>. QED  BY <1>1, <1>3, <1>4, <1>5, RunStepInv

(* The URL is done with: nothing is planned.                               *)
LEMMA GivenUp ==
    ASSUME Inv, StateKept, run.phase # "idle", NEW r, NEW u,
           r = Raise \/ r = Return(FALSE), run' = r \/ run' = [r EXCEPT !.todo = @ \ {u}]
    PROVE  Inv'
<1>1. /\ r \in RunSet /\ r.phase \in {"next", "answer"} /\ r.retire = None
      /\ r.before = run.before
  BY ReturnShape, RaiseShape DEF Inv, TypeOK
<1>2. /\ run' \in RunSet /\ run'.phase \in {"next", "answer"} /\ run'.retire = None
      /\ run'.before = run.before
  BY ZenonT(60), <1>1, TodoShape
<1>. QED  BY <1>2, QuietStep

(* The stored row is written back with other values.                       *)
LEMMA PlanPutStep ==
    ASSUME Inv, StateKept, NEW u \in Urls, run.phase = "next", NEW row \in RowSet,
           NEW after \in {"next", "ensure"}, NEW v \in BOOLEAN,
           rows[u] # None, row.id = rows[u].id,
           run' \in RunSet, run'.before = PlanPut(u, row, after, v).before,
           run'.phase = PlanPut(u, row, after, v).phase,
           run'.url = PlanPut(u, row, after, v).url,
           run'.target = PlanPut(u, row, after, v).target,
           run'.retire = PlanPut(u, row, after, v).retire
    PROVE  Inv'
<1>1. run \in RunSet /\ clock \in Nat /\ run.retire = None /\ row \in PlanSet /\ row # None
  BY RowIsPlan, NoneAssumption DEF Inv, TypeOK, PlanInv
<1>2. /\ run'.phase = "put" /\ run'.url = u /\ run'.target = row
      /\ run'.retire = run.retire /\ run'.before = run.before
  BY <1>1, PlanPutShape
<1>. QED  BY <1>1, <1>2, PlanStep

LEMMA FetchFailedStep == ASSUME NEW u \in Urls PROVE Inv /\ FetchFailed(u) => Inv'
<1>. SUFFICES ASSUME Inv, FetchFailed(u) PROVE Inv'
  OBVIOUS
<1>1. /\ StateKept /\ run \in RunSet /\ run.phase = "next" /\ clock \in Nat
      /\ rows[u] # None => rows[u] \in RowSet
  BY ConsiderFacts DEF FetchFailed, Inv, TypeOK
<1>2. CASE Enabled(u) /\ run' = [PlanPut(u, Disabled(rows[u], None), "next", FALSE) EXCEPT !.errors = TRUE]
  <2>. DEFINE row == Disabled(rows[u], None)
              p == PlanPut(u, row, "next", FALSE)
  <2>1. rows[u] # None /\ row \in RowSet /\ row \in PlanSet /\ row.id = rows[u].id
    BY <1>1, <1>2, DisabledType, RowIsPlan DEF Enabled, Stored, Time
  <2>. HIDE DEF row
  <2>2. p \in RunSet
    BY <1>1, <2>1, PlanPutShape
  <2>3. run' = [p EXCEPT !.errors = TRUE]
    BY <1>2 DEF row
  <2>. HIDE DEF p
  <2>4. /\ run' \in RunSet /\ run'.before = p.before /\ run'.phase = p.phase
        /\ run'.url = p.url /\ run'.target = p.target /\ run'.retire = p.retire
    BY <2>2, <2>3 DEF RunSet
  <2>. QED  BY <1>1, <2>1, <2>4, PlanPutStep DEF p
<1>3. CASE run' = [Raise EXCEPT !.todo = @ \ {u}]
  BY <1>1, <1>3, GivenUp
<1>. QED  BY <1>2, <1>3 DEF FetchFailed

LEMMA FetchRaisesStep == ASSUME NEW u \in Urls PROVE Inv /\ FetchRaises(u) => Inv'
<1>. SUFFICES ASSUME Inv, FetchRaises(u) PROVE Inv'
  OBVIOUS
<1>1. StateKept /\ run.phase = "next"
  BY ConsiderFacts DEF FetchRaises
<1>2. run' = [Raise EXCEPT !.todo = @ \ {u}]
  BY DEF FetchRaises
<1>. QED  BY <1>1, <1>2, GivenUp

LEMMA NotModifiedStep == ASSUME NEW u \in Urls PROVE Inv /\ NotModified(u) => Inv'
<1>. SUFFICES ASSUME Inv, NotModified(u) PROVE Inv'
  OBVIOUS
<1>1. /\ StateKept /\ run \in RunSet /\ run.phase = "next" /\ clock \in Nat
      /\ rows[u] # None /\ rows[u] \in RowSet /\ rows[u].enabled \in BOOLEAN
  BY ConsiderFacts DEF NotModified, Unchanged, Stored, Inv, TypeOK, RowSet
<1>. DEFINE row == [rows[u] EXCEPT !.cacheUntil = clock + CacheSeconds(web[u]), !.fetchedAt = clock]
            p == PlanPut(u, row, "ensure", rows[u].enabled)
<1>2. row \in RowSet /\ row.id = rows[u].id
  <2>1. clock + CacheSeconds(web[u]) \in Nat
    BY <1>1, CacheSecondsType
  <2>. QED  BY <1>1, <2>1 DEF RowSet
<1>3. run' = [p EXCEPT !.doc = web[u]] /\ web[u] \in Documents \cup {None}
  <2>1. web[u] \in Documents \cup NotFetched /\ rows[u].etag \in Documents \cup {None}
    BY <1>1 DEF Inv, TypeOK, RowSet
  <2>2. rows[u].etag # None /\ rows[u].etag = web[u]
    BY DEF NotModified, Unchanged
  <2>. QED  BY <2>1, <2>2 DEF NotModified
<1>. HIDE DEF row
<1>4. p \in RunSet
  BY <1>1, <1>2, RowIsPlan, PlanPutShape
<1>. HIDE DEF p
<1>5. /\ run' \in RunSet /\ run'.before = p.before /\ run'.phase = p.phase
      /\ run'.url = p.url /\ run'.target = p.target /\ run'.retire = p.retire
  BY <1>3, <1>4 DEF RunSet
<1>. QED  BY <1>1, <1>2, <1>5, PlanPutStep DEF p

LEMMA FetchedUnacceptableStep == ASSUME NEW u \in Urls PROVE Inv /\ FetchedUnacceptable(u) => Inv'
<1>. SUFFICES ASSUME Inv, FetchedUnacceptable(u) PROVE Inv'
  OBVIOUS
<1>1. /\ StateKept /\ run \in RunSet /\ run.phase = "next" /\ clock \in Nat
      /\ rows[u] # None => rows[u] \in RowSet
  BY ConsiderFacts DEF FetchedUnacceptable, Inv, TypeOK
<1>2. CASE Enabled(u) /\ run' = PlanPut(u, Disabled(rows[u], None), "next", FALSE)
  <2>. DEFINE row == Disabled(rows[u], None)
              p == PlanPut(u, row, "next", FALSE)
  <2>1. rows[u] # None /\ row \in RowSet /\ row \in PlanSet /\ row.id = rows[u].id
    BY <1>1, <1>2, DisabledType, RowIsPlan DEF Enabled, Stored, Time
  <2>. HIDE DEF row
  <2>2. p \in RunSet
    BY <1>1, <2>1, PlanPutShape
  <2>3. run' = p
    BY <1>2 DEF row
  <2>. HIDE DEF p
  <2>. QED  BY <1>1, <2>1, <2>2, <2>3, PlanPutStep DEF p
<1>3. CASE run' = [Return(FALSE) EXCEPT !.todo = @ \ {u}]
  BY <1>1, <1>3, GivenUp
<1>. QED  BY <1>2, <1>3 DEF FetchedUnacceptable

LEMMA ModifiedStep == ASSUME NEW u \in Urls PROVE Inv /\ Modified(u) => Inv'
<1>. SUFFICES ASSUME Inv, Modified(u) PROVE Inv'
  OBVIOUS
<1>1. /\ StateKept /\ u \in RowKeys /\ clock \in Nat
      /\ run \in RunSet /\ run.phase = "next" /\ run.retire = None
  BY ConsiderFacts DEF Modified, Inv, TypeOK
<1>2. web[u] \in Documents /\ web[u] # None
  BY ConstantsAssumption DEF Modified, NotFetched, Inv, TypeOK
<1>3. run' = [run EXCEPT !.phase = "jwks", !.url = u, !.todo = @ \ {u}, !.now = clock, !.doc = web[u]]
  BY DEF Modified
<1>4. /\ run' \in RunSet /\ run'.phase = "jwks" /\ run'.url = u /\ run'.retire = None
      /\ run'.doc = web[u] /\ run'.before = run.before
  BY ZenonT(60), <1>1, <1>2, <1>3 DEF RunSet, Phases, UrlSets
<1>5. PlanInv' /\ PurgeInv'
  BY <1>1, <1>2, <1>4 DEF PlanInv, PurgeInv, StateKept
<1>6. ScanInv'
  BY <1>1, <1>4 DEF ScanInv, Inv
<1>. QED  BY <1>1, <1>4, <1>5, <1>6, RunStepInv

-----------------------------------------------------------------------------
(* _reconcile_url after a 200.                                             *)

LEMMA JwksFacts ==
    ASSUME Inv, run.phase = "jwks"
    PROVE  /\ run \in RunSet /\ run.url \in Urls /\ run.retire = None
           /\ run.doc \in Documents /\ run.now \in Nat
           /\ rows[run.url] # None => rows[run.url] \in RowSet
           /\ keys[run.url] \in Keys \cup NotFetched
<1>1. run \in RunSet /\ run.url \in Urls /\ run.retire = None /\ run.doc # None
  BY DEF Inv, TypeOK, PlanInv
<1>2. run.doc \in Documents /\ run.now \in Nat
  BY <1>1 DEF RunSet
<1>. QED  BY <1>1, <1>2, IdsFacts DEF Inv, TypeOK

LEMMA KeysValidatedStep == Inv /\ KeysValidated => Inv'
<1>. SUFFICES ASSUME Inv, KeysValidated PROVE Inv'
  OBVIOUS
<1>. DEFINE u == run.url
            content == IF run.doc.jwksUri THEN keys[u] ELSE None
            jwksAt == IF run.doc.jwksUri THEN run.now ELSE None
            row == NewRow(run.doc, JwksFingerprint(run.doc, content), run.now,
                          CacheSeconds(run.doc), jwksAt)
<1>1. StateKept /\ run.phase = "jwks" /\ content \notin NotFetched /\ React(u, row, TRUE)
  BY DEF KeysValidated, StateKept, environment, tables, userPool, Inv, TypeOK
<1>2. run.doc \in Documents /\ run.now \in Nat /\ keys[u] \in Keys \cup NotFetched
  BY <1>1, JwksFacts
<1>3. JwksFingerprint(run.doc, content) \in Fingerprints \cup {None} /\ jwksAt \in Time
  <2>1. content \in Keys \cup {None}
    BY <1>1, <1>2
  <2>. QED  BY <1>2, <2>1 DEF Fingerprints, Time
<1>4. row \in PlanSet
  BY <1>2, <1>3, CacheSecondsType, NewRowType
<1>. HIDE DEF row
<1>. QED  BY <1>1, <1>4, ReactStep

LEMMA KeysUnavailableStep == Inv /\ KeysUnavailable => Inv'
<1>. SUFFICES ASSUME Inv, KeysUnavailable PROVE Inv'
  OBVIOUS
<1>. DEFINE u == run.url
            old == rows[u]
            row == NewRow(run.doc, old.fp, run.now, 0, old.jwksAt)
<1>1. StateKept /\ run.phase = "jwks"
  BY DEF KeysUnavailable, StateKept, environment, tables, userPool, Inv, TypeOK
<1>2. /\ run \in RunSet /\ run.doc \in Documents /\ run.now \in Nat
      /\ u \in Urls /\ run.retire = None /\ (old # None => old \in RowSet)
  BY <1>1, JwksFacts
<1>3. CASE run' = Raise
  BY <1>1, <1>3, GivenUp
<1>4. CASE Enabled(u) /\ run' = [run EXCEPT !.phase = "put", !.target = Disabled(old, None)]
  <2>. DEFINE target == Disabled(old, None)
  <2>1. old # None /\ target \in Plans /\ target # None /\ target.id = old.id
    BY <1>2, <1>4, DisabledType, RowIsPlan, NoneAssumption DEF Enabled, Stored, Time, Plans
  <2>. HIDE DEF target
  <2>2. run' = [run EXCEPT !.phase = "put", !.target = target]
    BY <1>4 DEF target
  <2>3. /\ run' \in RunSet /\ run'.phase = "put" /\ run'.url = u /\ run'.target = target
        /\ run'.retire = run.retire /\ run'.before = run.before
    BY ZenonT(60), <1>2, <2>1, <2>2 DEF RunSet, Phases
  <2>. QED  BY <1>1, <1>2, <2>1, <2>3, PlanStep
<1>5. CASE Stored(u) /\ React(u, row, FALSE)
  <2>1. old.fp \in Fingerprints \cup {None} /\ old.jwksAt \in Time
    BY <1>2, <1>5 DEF Stored, RowSet
  <2>2. row \in PlanSet
    BY <1>2, <2>1, NewRowType
  <2>. HIDE DEF row
  <2>. QED  BY <1>1, <1>5, <2>2, ReactStep
<1>. QED  BY <1>3, <1>4, <1>5 DEF KeysUnavailable

LEMMA KeysRaiseStep == Inv /\ KeysRaise => Inv'
<1>. SUFFICES ASSUME Inv, KeysRaise PROVE Inv'
  OBVIOUS
<1>1. StateKept /\ run.phase = "jwks" /\ run' = Raise
  BY DEF KeysRaise, StateKept, environment, tables, userPool, Inv, TypeOK
<1>. QED  BY <1>1, GivenUp

(* What the steps between a plan and its transaction rely on.              *)
LEMMA TargetFacts ==
    ASSUME Inv, run.phase \in {"create", "brand", "update", "put"}
    PROVE  /\ run \in RunSet /\ run.url \in Urls /\ run.url \in RowKeys
           /\ run.target # None /\ run.target \in PlanSet
           /\ run.target.uris \in UriLists \cup {None}
           /\ rows[run.url] # None => rows[run.url] \in RowSet /\ rows[run.url].id \in Ids
           /\ cognito \in [Ids -> ClientSet \cup {None}] /\ nextId \in Nat
<1>1. /\ run \in RunSet /\ run.url \in Urls /\ run.target # None
      /\ rows \in [RowKeys -> RowSet \cup {None}]
      /\ cognito \in [Ids -> ClientSet \cup {None}] /\ nextId \in Nat
  BY DEF Inv, TypeOK, PlanInv, PlansNewClient, PlansSameClient
<1>2. run.target \in PlanSet
  BY <1>1 DEF RunSet, Plans
<1>. QED  BY <1>1, <1>2, IdsFacts DEF PlanSet, RowSet

(* The user pool changed, the tables did not.                              *)
LEMMA PoolStepInv ==
    ASSUME Inv, UNCHANGED <<clock, environment, rows, index, tokenLife, deletedAt>>,
           faults' = faults \/ faults' = faults + 1,
           cognito' \in [Ids -> ClientSet \cup {None}], nextId' \in Nat \ {0}, nextId <= nextId',
           \A i \in Ids : cognito'[i] # None => i < nextId',
           run' \in RunSet, PlanInv', ScanInv', ScansAreConsistent => PurgeInv'
    PROVE  Inv'
<1>1. TypeOK'
  BY DEF Inv, TypeOK, environment
<1>2. IdsInv'
  <2>1. \A k \in RowKeys : rows[k] # None => rows[k].id \in Nat
    BY IdsFacts DEF Inv, TypeOK, RowSet
  <2>2. nextId \in Nat /\ IdsInv
    BY DEF Inv, TypeOK
  <2>3. \A i \in Ids : index'[i] # None => i < nextId'
    BY <2>2, IdsFacts DEF IdsInv
  <2>4. \A k \in RowKeys : rows'[k] # None => rows'[k].id < nextId'
    BY <2>1, <2>2 DEF IdsInv
  <2>. QED  BY <2>2, <2>3, <2>4 DEF IdsInv
<1>3. ReadersAgree => ReadersAgree'
  BY DEF ReadersAgree
<1>. QED  BY <1>1, <1>2, <1>3 DEF Inv

LEMMA CreateClientStep == Inv /\ CreateClient => Inv'
<1>. SUFFICES ASSUME Inv, CreateClient PROVE Inv'
  OBVIOUS
<1>. DEFINE new == [uris |-> run.target.uris, branded |-> FALSE]
            target == [run.target EXCEPT !.id = nextId]
<1>1. /\ run.phase = "create" /\ nextId \in Ids /\ nextId \in Nat \ {0}
      /\ cognito' = [cognito EXCEPT ![nextId] = new] /\ nextId' = nextId + 1
      /\ UNCHANGED <<clock, environment, rows, index, tokenLife, deletedAt, faults>>
      /\ RetiresStored
  BY DEF CreateClient, tables, Inv, TypeOK, PlanInv
<1>2. run' = [run EXCEPT !.phase = "brand", !.target = target]
  BY DEF CreateClient
<1>3. /\ run \in RunSet /\ run.url \in Urls /\ new \in ClientSet
      /\ target \in PlanSet /\ target \in Plans /\ target # None /\ target.id = nextId
      /\ cognito \in [Ids -> ClientSet \cup {None}]
  <2>1. /\ run \in RunSet /\ run.url \in Urls /\ run.target \in PlanSet
        /\ run.target.uris \in UriLists \cup {None} /\ cognito \in [Ids -> ClientSet \cup {None}]
    BY <1>1, TargetFacts
  <2>2. target \in PlanSet /\ target.id = nextId
    BY <1>1, <2>1 DEF PlanSet
  <2>. QED  BY <2>1, <2>2, NoneAssumption DEF ClientSet, Plans
<1>. HIDE DEF target, new
<1>4. /\ run' \in RunSet /\ run'.phase = "brand" /\ run'.url = run.url
      /\ run'.target = target /\ run'.retire = run.retire /\ run'.before = run.before
  BY <1>2, <1>3 DEF RunSet, Phases
<1>5. /\ cognito' \in [Ids -> ClientSet \cup {None}] /\ cognito'[nextId] # None
      /\ \A i \in Ids : cognito'[i] # None => i < nextId'
  BY <1>1, <1>3, IdsFacts, NoneAssumption DEF Inv, IdsInv
<1>6. index[nextId] = None
  BY <1>1 DEF Inv, IdsInv
<1>7. PlanInv' /\ PurgeInv'
  BY <1>1, <1>3, <1>4, <1>5, <1>6 DEF PlanInv, PurgeInv, PlansNewClient, RetiresStored
<1>8. ScanInv'
  BY <1>1, <1>4 DEF ScanInv, Inv
<1>. QED  BY <1>1, <1>4, <1>5, <1>7, <1>8, PoolStepInv

(* An existing client is changed.                                          *)
LEMMA ClientChanged ==
    ASSUME Inv, NEW i \in Ids, cognito[i] # None, NEW client \in ClientSet,
           cognito' = [cognito EXCEPT ![i] = client], nextId' = nextId
    PROVE  /\ cognito' \in [Ids -> ClientSet \cup {None}] /\ nextId' \in Nat \ {0}
           /\ nextId <= nextId' /\ \A j \in Ids : cognito'[j] # None => j < nextId'
           /\ cognito'[i] # None
  BY NoneAssumption DEF Inv, TypeOK, IdsInv

LEMMA BrandClientStep == Inv /\ BrandClient => Inv'
<1>. SUFFICES ASSUME Inv, BrandClient PROVE Inv'
  OBVIOUS
<1>. DEFINE i == run.target.id
            client == [cognito[i] EXCEPT !.branded = TRUE]
<1>1. /\ run.phase = "brand" /\ PlansNewClient /\ cognito[i] # None
      /\ UNCHANGED <<clock, environment, rows, index, tokenLife, deletedAt, nextId, faults>>
      /\ cognito' = [cognito EXCEPT ![i] = client] /\ run' = [run EXCEPT !.phase = "put"]
  BY DEF BrandClient, tables, Inv, PlanInv
<1>2. run \in RunSet /\ run.url \in Urls /\ i \in Ids /\ client \in ClientSet
  BY <1>1, TargetFacts DEF PlansNewClient, ClientSet
<1>3. /\ run' \in RunSet /\ run'.phase = "put" /\ run'.url = run.url
      /\ run'.target = run.target /\ run'.retire = run.retire /\ run'.before = run.before
  BY <1>1, <1>2 DEF RunSet, Phases
<1>4. PlanInv' /\ PurgeInv'
  BY <1>1, <1>2, <1>3 DEF PlanInv, PurgeInv, PlansNewClient, RetiresStored
<1>5. ScanInv'
  BY <1>1, <1>3 DEF ScanInv, Inv
<1>. HIDE DEF i, client
<1>. QED  BY <1>1, <1>2, <1>3, <1>4, <1>5, ClientChanged, PoolStepInv

LEMMA UpdateCallbacksStep == Inv /\ UpdateCallbacks => Inv'
<1>. SUFFICES ASSUME Inv, UpdateCallbacks PROVE Inv'
  OBVIOUS
<1>. DEFINE i == run.target.id
            client == [cognito[i] EXCEPT !.uris = run.target.uris]
<1>1. /\ run.phase = "update" /\ PlansSameClient /\ cognito[i] # None
      /\ UNCHANGED <<clock, environment, rows, index, tokenLife, deletedAt, nextId, faults>>
      /\ cognito' = [cognito EXCEPT ![i] = client] /\ run' = [run EXCEPT !.phase = "put"]
  BY DEF UpdateCallbacks, tables, Inv, PlanInv
<1>2. run \in RunSet /\ run.url \in Urls /\ i \in Ids /\ client \in ClientSet
  BY <1>1, TargetFacts DEF PlansSameClient, ClientSet
<1>3. /\ run' \in RunSet /\ run'.phase = "put" /\ run'.url = run.url
      /\ run'.target = run.target /\ run'.retire = run.retire /\ run'.before = run.before
  BY <1>1, <1>2 DEF RunSet, Phases
<1>4. PlanInv' /\ PurgeInv'
  BY <1>1, <1>2, <1>3 DEF PlanInv, PurgeInv, PlansSameClient
<1>5. ScanInv'
  BY <1>1, <1>3 DEF ScanInv, Inv
<1>. HIDE DEF i, client
<1>. QED  BY <1>1, <1>2, <1>3, <1>4, <1>5, ClientChanged, PoolStepInv

-----------------------------------------------------------------------------
(* The transaction of put_client.                                          *)

LEMMA RetiredRowType ==
    ASSUME NEW i \in Ids, NEW when \in Time
    PROVE  RetiredRow(i, when) \in RowSet /\ RetiredRow(i, when).id = i
           /\ RetiredRow(i, when).enabled = FALSE
  BY DEF RetiredRow, RowSet, Time

LEMMA PutClientTyping ==
    ASSUME TypeOK, IdsInv, NEW u \in Urls, NEW row \in RowSet, row.id < nextId,
           NEW retire \in Ids \cup {None}, retire # None => retire < nextId,
           NEW when \in Time, PutClient(u, row, retire, when)
    PROVE  /\ rows' \in [RowKeys -> RowSet \cup {None}]
           /\ index' \in [Ids -> IndexSet \cup {None}]
           /\ tokenLife' \in [Ids -> 0 .. AccessLifetime]
           /\ \A i \in Ids : index'[i] # None => i < nextId
           /\ \A i \in Ids : rows'[i] # None => rows'[i].id = i
           /\ \A k \in RowKeys : rows'[k] # None => rows'[k].id < nextId
           /\ rows'[u] = row
<1>. USE IdsFacts
<1>1. row.id \in Ids /\ row.enabled \in BOOLEAN
  BY DEF RowSet
<1>2. retire \in Ids => RetiredRow(retire, when) \in RowSet /\ RetiredRow(retire, when).id = retire
  BY RetiredRowType
<1>3. rows' = [k \in RowKeys |->
          IF k = u THEN row ELSE IF k = retire THEN RetiredRow(retire, when) ELSE rows[k]]
  BY DEF PutClient
<1>4. rows' \in [RowKeys -> RowSet \cup {None}] /\ rows'[u] = row
  BY <1>2, <1>3 DEF TypeOK
<1>5. /\ \A i \in Ids : rows'[i] # None => rows'[i].id = i
      /\ \A k \in RowKeys : rows'[k] # None => rows'[k].id < nextId
  BY <1>2, <1>3 DEF IdsInv
<1>6. index' = [i \in Ids |->
          IF i = row.id THEN [key |-> u, enabled |-> row.enabled]
          ELSE IF i = retire THEN [key |-> retire, enabled |-> FALSE] ELSE index[i]]
  BY DEF PutClient
<1>7. index' \in [Ids -> IndexSet \cup {None}]
  BY <1>1, <1>6 DEF IndexSet, TypeOK
<1>8. \A i \in Ids : index'[i] # None => i < nextId
  BY <1>6 DEF IdsInv
<1>9. tokenLife' \in [Ids -> 0 .. AccessLifetime]
  BY <1>1, ConstantsAssumption DEF PutClient, TypeOK
<1>. QED  BY <1>4, <1>5, <1>7, <1>8, <1>9

(* Whether the row is for the client the URL has or for a new one that     *)
(* takes over, the two tables agree again after the transaction.           *)
LEMMA PutClientAgrees ==
    ASSUME TypeOK, IdsInv, ReadersAgree, NEW u \in Urls, NEW row \in RowSet,
           NEW retire, NEW when \in Time, PutClient(u, row, retire, when),
           \/ rows[u] # None /\ row.id = rows[u].id /\ retire = None
           \/ index[row.id] = None /\ retire = IF rows[u] = None THEN None ELSE rows[u].id
    PROVE  ReadersAgree'
<1>. USE IdsFacts
<1>1. row.id \in Ids
  BY DEF RowSet
<1>2. /\ rows' = [k \in RowKeys |->
            IF k = u THEN row ELSE IF k = retire THEN RetiredRow(retire, when) ELSE rows[k]]
      /\ index' = [i \in Ids |->
            IF i = row.id THEN [key |-> u, enabled |-> row.enabled]
            ELSE IF i = retire THEN [key |-> retire, enabled |-> FALSE] ELSE index[i]]
  BY DEF PutClient
<1>3. \A k \in RowKeys : rows[k] # None => rows[k].id \in Ids
  BY DEF TypeOK, RowSet
<1>4. row # None
  BY NoneAssumption
<1>r. ASSUME NEW k \in RowKeys, rows[k] # None
      PROVE  index[rows[k].id] # None /\ index[rows[k].id].key = k
  <2>1. rows[k].id \in Ids /\ rows[k].enabled \in BOOLEAN
    BY <1>r DEF TypeOK, RowSet
  <2>2. index[rows[k].id] = [key |-> k, enabled |-> rows[k].enabled]
    BY <1>r DEF ReadersAgree
  <2>3. [key |-> k, enabled |-> rows[k].enabled] \in IndexSet
    BY <2>1 DEF IndexSet
  <2>. QED  BY <2>2, <2>3, NoneAssumption
<1>5. CASE rows[u] # None /\ row.id = rows[u].id /\ retire = None
  <2>1. rows' = [rows EXCEPT ![u] = row]
    BY ZenonT(60), <1>2, <1>5 DEF TypeOK
  <2>2. index' = [index EXCEPT ![row.id] = [key |-> u, enabled |-> row.enabled]]
    BY <1>2, <1>5 DEF TypeOK
  <2>3. \A k \in RowKeys : k # u /\ rows[k] # None => rows[k].id # row.id
    BY <1>r, <1>5
  <2>. QED  BY <1>1, <1>3, <1>4, <1>5, <2>1, <2>2, <2>3 DEF ReadersAgree, TypeOK
<1>6. CASE index[row.id] = None /\ rows[u] = None /\ retire = None
  <2>1. rows' = [rows EXCEPT ![u] = row]
    BY ZenonT(60), <1>2, <1>6 DEF TypeOK
  <2>2. index' = [index EXCEPT ![row.id] = [key |-> u, enabled |-> row.enabled]]
    BY ZenonT(60), <1>2, <1>6 DEF TypeOK
  <2>3. \A k \in RowKeys : rows[k] # None => rows[k].id # row.id
    BY <1>r, <1>6
  <2>. QED  BY <1>1, <1>3, <1>4, <1>6, <2>1, <2>2, <2>3 DEF ReadersAgree, TypeOK
<1>7. CASE index[row.id] = None /\ rows[u] # None /\ retire = rows[u].id
  <2>1. retire \in Ids /\ index[retire] # None /\ index[retire].key = u /\ retire # row.id
    BY <1>r, <1>3, <1>7
  <2>2. rows[retire] = None
    <3>1. rows[retire] # None => rows[retire].id = retire
      BY <2>1 DEF IdsInv
    <3>2. u # retire
      BY <2>1
    <3>. QED  BY <1>r, <2>1, <3>1, <3>2
  <2>3. \A k \in RowKeys : k # u /\ rows[k] # None => rows[k].id # row.id /\ rows[k].id # retire
    BY <1>r, <1>7, <2>1
  <2>4. RetiredRow(retire, when).id = retire /\ RetiredRow(retire, when).enabled = FALSE
        /\ RetiredRow(retire, when) # None
    BY ZenonT(60), <2>1, RetiredRowType, NoneAssumption
  <2>5. ASSUME NEW k \in RowKeys, rows'[k] # None
        PROVE  index'[rows'[k].id] = [key |-> k, enabled |-> rows'[k].enabled]
    BY ZenonT(60), <1>1, <1>2, <1>3, <2>1, <2>3, <2>4, <2>5 DEF ReadersAgree
  <2>6. ASSUME NEW i \in Ids, index'[i] # None
        PROVE  rows'[index'[i].key] # None /\ rows'[index'[i].key].id = i
    <3>1. CASE i = row.id
      BY <1>2, <1>4, <3>1
    <3>2. CASE i = retire
      BY <1>2, <2>1, <2>4, <3>2
    <3>3. CASE i # row.id /\ i # retire
      <4>1. index'[i] = index[i] /\ index[i] # None
        BY <1>2, <2>6, <3>3
      <4>2. rows[index[i].key] # None /\ rows[index[i].key].id = i /\ index[i].key \in RowKeys
        BY ZenonT(60), <4>1 DEF ReadersAgree, TypeOK, IndexSet
      <4>3. index[i].key # u /\ index[i].key # retire
        BY <1>7, <2>2, <3>3, <4>2
      <4>. QED  BY <1>2, <4>1, <4>2, <4>3
    <3>. QED  BY <3>1, <3>2, <3>3
  <2>. QED  BY <2>5, <2>6 DEF ReadersAgree
<1>. QED  BY <1>5, <1>6, <1>7

LEMMA PutStep == Inv /\ Put => Inv'
<1>. SUFFICES ASSUME Inv, Put PROVE Inv'
  OBVIOUS
<1>. DEFINE u == run.url
            row == run.target
            when == run.now + AccessLifetime
<1>1. /\ run.phase = "put" /\ PutClient(u, row, run.retire, when)
      /\ UNCHANGED <<clock, environment, deletedAt, cognito, nextId, faults>>
      /\ PlansNewClient \/ PlansSameClient
      /\ TypeOK /\ IdsInv /\ (ScansAreConsistent => ReadersAgree)
  BY DEF Put, userPool, Inv, PlanInv
<1>2. /\ run \in RunSet /\ u \in Urls /\ u \in RowKeys /\ row # None /\ row \in PlanSet
      /\ rows[u] # None => rows[u] \in RowSet /\ rows[u].id \in Ids
  BY <1>1, TargetFacts
<1>3. row.id \in Ids /\ row.id < nextId
  <2>1. CASE PlansNewClient
    BY <2>1 DEF PlansNewClient
  <2>2. CASE PlansSameClient
    <3>1. rows[u] # None /\ row.id = rows[u].id
      BY <2>2 DEF PlansSameClient
    <3>. QED  BY <1>1, <1>2, <3>1 DEF IdsInv
  <2>. QED  BY <1>1, <2>1, <2>2
<1>4. row \in RowSet
  BY <1>2, <1>3 DEF PlanSet, RowSet
<1>5. run.retire \in Ids \cup {None} /\ (run.retire # None => run.retire < nextId)
  <2>1. run.retire = None \/ (rows[u] # None /\ run.retire = rows[u].id)
    BY <1>1 DEF PlansNewClient, PlansSameClient, RetiresStored
  <2>. QED  BY <1>1, <1>2, <2>1 DEF IdsInv
<1>6. when \in Time
  BY <1>2, ConstantsAssumption DEF RunSet, Time
<1>7. /\ rows' \in [RowKeys -> RowSet \cup {None}] /\ index' \in [Ids -> IndexSet \cup {None}]
      /\ tokenLife' \in [Ids -> 0 .. AccessLifetime]
      /\ \A i \in Ids : index'[i] # None => i < nextId
      /\ \A i \in Ids : rows'[i] # None => rows'[i].id = i
      /\ \A k \in RowKeys : rows'[k] # None => rows'[k].id < nextId
      /\ rows'[u] = row
  BY <1>1, <1>2, <1>3, <1>4, <1>5, <1>6, PutClientTyping
<1>8. ScansAreConsistent => ReadersAgree'
  <2>1. \/ rows[u] # None /\ row.id = rows[u].id /\ run.retire = None
        \/ /\ index[row.id] = None
           /\ run.retire = IF rows[u] = None THEN None ELSE rows[u].id
    BY <1>1 DEF PlansNewClient, PlansSameClient, RetiresStored
  <2>. QED  BY <1>1, <1>2, <1>4, <1>6, <2>1, PutClientAgrees
<1>9. /\ run' \in RunSet /\ run'.phase \in {"ensure", "next", "answer"} /\ run'.retire = None
      /\ run'.phase = "ensure" => run'.url = u
      /\ run'.before = run.before
  <2>1. CASE run' = [run EXCEPT !.phase = "ensure", !.target = None, !.retire = None]
    <3>1. None \in Plans
      BY DEF Plans
    <3>. QED  BY <1>2, <2>1, <3>1 DEF RunSet, Phases
  <2>2. CASE run' = Return(run.verdict)
    <3>1. run.verdict \in BOOLEAN
      BY <1>2 DEF RunSet
    <3>2. /\ Return(run.verdict) \in RunSet /\ Return(run.verdict).phase \in {"next", "answer"}
          /\ Return(run.verdict).retire = None /\ Return(run.verdict).before = run.before
      BY <1>2, <3>1, ReturnShape
    <3>. QED  BY <2>2, <3>2
  <2>. QED  BY <2>1, <2>2 DEF Put
<1>10. PlanInv' /\ PurgeInv'
  BY <1>2, <1>7, <1>9 DEF PlanInv, PurgeInv
<1>11. ScanInv'
  BY <1>1, <1>9 DEF ScanInv, Inv
<1>12. TypeOK'
  BY <1>1, <1>7, <1>9 DEF TypeOK, environment
<1>13. IdsInv'
  BY <1>1, <1>7 DEF IdsInv
<1>. QED  BY <1>8, <1>10, <1>11, <1>12, <1>13 DEF Inv

LEMMA EnsureBrandingStep == Inv /\ EnsureBranding => Inv'
<1>. SUFFICES ASSUME Inv, EnsureBranding PROVE Inv'
  OBVIOUS
<1>. DEFINE i == rows[run.url].id
            client == [cognito[i] EXCEPT !.branded = TRUE]
<1>1. /\ run \in RunSet /\ run.phase = "ensure"
      /\ UNCHANGED <<clock, environment, rows, index, tokenLife, deletedAt, nextId, faults>>
      /\ cognito' = IF cognito[i] = None THEN cognito ELSE [cognito EXCEPT ![i] = client]
      /\ nextId \in Nat \ {0} /\ cognito \in [Ids -> ClientSet \cup {None}]
      /\ IdsInv
  BY DEF EnsureBranding, tables, Inv, TypeOK
<1>2. /\ run' \in RunSet /\ run'.phase \in {"next", "answer"} /\ run'.retire = None
      /\ run'.before = run.before
  <2>1. run.verdict \in BOOLEAN
    BY <1>1 DEF RunSet
  <2>2. run' = Raise \/ run' = Return(run.verdict)
    BY DEF EnsureBranding
  <2>. QED  BY <1>1, <2>1, <2>2, ReturnShape, RaiseShape
<1>3. PlanInv' /\ PurgeInv'
  BY <1>2 DEF PlanInv, PurgeInv
<1>4. ScanInv'
  BY <1>1, <1>2 DEF ScanInv, Inv
<1>5. i \in Ids
  BY <1>1, IdsFacts DEF Inv, TypeOK, PlanInv, RowSet
<1>6. /\ cognito' \in [Ids -> ClientSet \cup {None}]
      /\ \A j \in Ids : cognito'[j] # None => j < nextId'
  <2>1. CASE cognito[i] = None
    BY <1>1, <2>1 DEF IdsInv
  <2>2. CASE cognito[i] # None
    <3>1. client \in ClientSet /\ nextId' = nextId
      BY <1>1, <1>5, <2>2 DEF ClientSet
    <3>. HIDE DEF client
    <3>. QED  BY <1>1, <1>5, <2>2, <3>1, ClientChanged
  <2>. QED  BY <2>1, <2>2
<1>7. nextId' \in Nat \ {0} /\ nextId <= nextId'
  BY <1>1
<1>. QED  BY <1>1, <1>2, <1>3, <1>4, <1>6, <1>7, PoolStepInv

(* The last steps of a revalidation and of a run, and a kill: the          *)
(* invocation is over.                                                     *)
LEMMA OverStep ==
    ASSUME Inv, StateKept, run' = Idle
    PROVE  Inv'
  BY IdleType, QuietStep DEF Idle

LEMMA AnswerStep == Inv /\ Answer => Inv'
  BY OverStep DEF Answer, StateKept, environment, tables, userPool, Inv, TypeOK

LEMMA FinishStep == Inv /\ Finish => Inv'
  BY OverStep DEF Finish, StateKept, environment, tables, userPool, Inv, TypeOK

LEMMA KilledStep == Inv /\ Killed => Inv'
  BY OverStep DEF Killed, Fault, StateKept, environment, tables, userPool, Inv, TypeOK

LEMMA CallRaisesStep == Inv /\ CallRaises => Inv'
<1>. SUFFICES ASSUME Inv, CallRaises PROVE Inv'
  OBVIOUS
<1>1. StateKept /\ run.phase # "idle"
  BY DEF CallRaises, Fault, StateKept, environment, tables, userPool, Inv, TypeOK
<1>2. CASE run' = Raise
  BY <1>1, <1>2, GivenUp
<1>3. ASSUME NEW u \in run.todo, run' = [Raise EXCEPT !.todo = @ \ {u}] PROVE Inv'
  BY <1>1, <1>3, GivenUp
<1>. QED  BY <1>2, <1>3 DEF CallRaises

(* The identifier given away is in no row and in no plan.                  *)
LEMMA CreateReplyLostStep == Inv /\ CreateReplyLost => Inv'
<1>. SUFFICES ASSUME Inv, CreateReplyLost PROVE Inv'
  OBVIOUS
<1>. DEFINE stray == [uris |-> run.target.uris, branded |-> FALSE]
<1>1. /\ run.phase = "create" /\ nextId \in Ids /\ nextId \in Nat \ {0}
      /\ cognito' = [cognito EXCEPT ![nextId] = stray] /\ nextId' = nextId + 1
      /\ UNCHANGED <<clock, environment, rows, index, tokenLife, deletedAt>>
      /\ run' = run /\ faults' = faults + 1
  BY DEF CreateReplyLost, Fault, tables, Inv, TypeOK
<1>2. /\ run \in RunSet /\ stray \in ClientSet
      /\ cognito \in [Ids -> ClientSet \cup {None}]
  <2>1. /\ run \in RunSet /\ run.target.uris \in UriLists \cup {None}
        /\ cognito \in [Ids -> ClientSet \cup {None}]
    BY <1>1, TargetFacts
  <2>. QED  BY <2>1 DEF ClientSet
<1>. HIDE DEF stray
<1>3. /\ cognito' \in [Ids -> ClientSet \cup {None}]
      /\ \A i \in Ids : cognito'[i] # None => i < nextId'
  BY <1>1, <1>2, IdsFacts DEF Inv, IdsInv
<1>4. PlanInv' /\ PurgeInv' /\ ScanInv'
  BY <1>1 DEF Inv, PlanInv, PurgeInv, ScanInv, RetiresStored
<1>. QED  BY <1>1, <1>2, <1>3, <1>4, PoolStepInv

-----------------------------------------------------------------------------
(* _retire_removed, _purge_expired and _hard_delete.                       *)

LEMMA ScanRemovedStep == Inv /\ ScanRemoved => Inv'
<1>. SUFFICES ASSUME Inv, ScanRemoved PROVE Inv'
  OBVIOUS
<1>. DEFINE ks == {u \in Urls \ run.allow : Enabled(u)}
            scan == KeyIds(ks)
<1>1. /\ StateKept /\ run.phase # "idle" /\ run \in RunSet /\ clock \in Nat /\ TypeOK
      /\ run' = [run EXCEPT !.phase = "retire", !.now = clock, !.scan = scan]
  BY DEF ScanRemoved, StateKept, environment, tables, userPool, Inv, TypeOK
<1>2. /\ scan \in Scans
      /\ \A c \in scan : c.key \in ks /\ rows[c.key] # None /\ rows[c.key].id = c.id
  <2>1. ks \in SUBSET RowKeys
    BY IdsFacts
  <2>. QED  BY <1>1, <2>1, KeyIdsFacts
<1>3. \A c \in scan : c.key \in Urls
  BY <1>2
<1>. HIDE DEF scan
<1>4. run' \in RunSet /\ run'.phase = "retire" /\ run'.scan = scan /\ run'.before = run.before
  BY <1>1, <1>2 DEF RunSet, Phases
<1>5. PlanInv' /\ PurgeInv'
  BY <1>4 DEF PlanInv, PurgeInv
<1>6. ScanInv'
  BY <1>1, <1>2, <1>3, <1>4 DEF ScanInv, Inv, StateKept
<1>. QED  BY <1>1, <1>4, <1>5, <1>6, RunStepInv

LEMMA RetireRemovedStep == ASSUME NEW c \in run.scan PROVE Inv /\ RetireRemoved(c) => Inv'
<1>. SUFFICES ASSUME Inv, RetireRemoved(c) PROVE Inv'
  OBVIOUS
<1>. DEFINE row == Disabled(rows[c.key], run.now + AccessLifetime)
<1>1. /\ run.phase = "retire" /\ run \in RunSet /\ TypeOK /\ IdsInv
      /\ PutClient(c.key, row, None, None)
      /\ run' = [run EXCEPT !.scan = @ \ {c}]
      /\ UNCHANGED <<clock, environment, deletedAt, cognito, nextId, faults>>
      /\ c.key \in Urls /\ rows[c.key] # None
      /\ ScansAreConsistent => ReadersAgree
  BY DEF RetireRemoved, userPool, Inv, TypeOK, ScanInv
<1>2. c.key \in RowKeys /\ rows[c.key] \in RowSet /\ rows[c.key].id < nextId
  BY <1>1, IdsFacts DEF TypeOK, IdsInv
<1>3. row \in RowSet /\ row.id = rows[c.key].id
  <2>1. run.now + AccessLifetime \in Time
    BY <1>1, ConstantsAssumption DEF RunSet, Time
  <2>. QED  BY <1>2, <2>1, DisabledType
<1>. HIDE DEF row
<1>4. /\ rows' \in [RowKeys -> RowSet \cup {None}] /\ index' \in [Ids -> IndexSet \cup {None}]
      /\ tokenLife' \in [Ids -> 0 .. AccessLifetime]
      /\ \A i \in Ids : index'[i] # None => i < nextId
      /\ \A i \in Ids : rows'[i] # None => rows'[i].id = i
      /\ \A k \in RowKeys : rows'[k] # None => rows'[k].id < nextId
      /\ rows'[c.key] = row
  <2>1. None \in Time
    BY DEF Time
  <2>. QED  BY <1>1, <1>2, <1>3, <2>1, PutClientTyping
<1>5. ScansAreConsistent => ReadersAgree'
  <2>1. None \in Time
    BY DEF Time
  <2>. QED  BY <1>1, <1>3, <2>1, PutClientAgrees
<1>6. run' \in RunSet /\ run'.phase = "retire" /\ run'.scan = run.scan \ {c} /\ run'.before = run.before
  BY <1>1 DEF RunSet, Scans
<1>7. PlanInv' /\ PurgeInv'
  BY <1>6 DEF PlanInv, PurgeInv
<1>8. ScanInv'
  <2>1. \A k \in RowKeys : k # c.key => rows'[k] = rows[k]
    BY <1>1, IdsFacts DEF PutClient
  <2>2. ASSUME NEW d \in run.scan
        PROVE  d.key \in Urls /\ rows'[d.key] # None /\ rows'[d.key].id = d.id
    <3>1. d.key \in Urls /\ d.key \in RowKeys /\ rows[d.key] # None /\ rows[d.key].id = d.id
      BY <1>1, IdsFacts DEF Inv, ScanInv
    <3>. QED  BY <1>3, <1>4, <2>1, <3>1, NoneAssumption
  <2>3. StaleScans /\ run'.phase # "idle" => run'.before # None
    BY <1>1, <1>6 DEF Inv, ScanInv
  <2>. QED  BY <1>6, <2>2, <2>3 DEF ScanInv
<1>9. TypeOK'
  BY <1>1, <1>4, <1>6 DEF TypeOK, environment
<1>10. IdsInv'
  BY <1>1, <1>4 DEF IdsInv
<1>. QED  BY <1>5, <1>7, <1>8, <1>9, <1>10 DEF Inv

LEMMA ScanExpiredStep == Inv /\ ScanExpired => Inv'
<1>. SUFFICES ASSUME Inv, ScanExpired PROVE Inv'
  OBVIOUS
<1>1. PICK view \in {rows} \cup (IF StaleScans THEN {run.before} ELSE {}) :
         run' = [run EXCEPT !.phase = "purge", !.now = clock, !.scan = Scanned(view)]
  BY DEF ScanExpired
<1>2. StateKept /\ run.phase # "idle" /\ run \in RunSet /\ clock \in Nat
  BY DEF ScanExpired, StateKept, environment, tables, userPool, Inv, TypeOK
<1>3. view \in [RowKeys -> RowSet \cup {None}]
  <2>1. rows \in [RowKeys -> RowSet \cup {None}] /\ run.before \in Snapshots
    BY DEF Inv, TypeOK, RunSet
  <2>2. StaleScans => run.before # None
    BY <1>2 DEF Inv, ScanInv
  <2>. QED  BY <1>1, <2>1, <2>2 DEF Snapshots
<1>4. \A k \in RowKeys : Expired(view[k]) => view[k] # None /\ view[k].id \in Ids
  BY <1>3 DEF Expired, RowSet
<1>5. Scanned(view) \in Scans
  BY <1>4 DEF Scanned, Scans
<1>6. ScansAreConsistent => \A c \in Scanned(view) : rows[c.key] # None /\ rows[c.key].id = c.id
  <2>1. ScansAreConsistent => view = rows
    BY <1>1 DEF ScansAreConsistent
  <2>. QED  BY <1>4, <2>1 DEF Scanned
<1>7. run' \in RunSet /\ run'.phase = "purge" /\ run'.scan = Scanned(view) /\ run'.before = run.before
  <2>. DEFINE scan == Scanned(view)
  <2>1. scan \in Scans /\ run' = [run EXCEPT !.phase = "purge", !.now = clock, !.scan = scan]
    BY <1>1, <1>5
  <2>. HIDE DEF scan
  <2>2. run' \in RunSet /\ run'.phase = "purge" /\ run'.scan = scan /\ run'.before = run.before
    BY <1>2, <2>1 DEF RunSet, Phases
  <2>. QED  BY <2>2 DEF scan
<1>8. PlanInv' /\ (ScansAreConsistent => PurgeInv')
  BY <1>2, <1>6, <1>7 DEF PlanInv, PurgeInv, StateKept
<1>9. ScanInv'
  BY <1>2, <1>7 DEF ScanInv, Inv
<1>. QED  BY <1>2, <1>7, <1>8, <1>9, RunStepInv

LEMMA DeleteBrandingStep == ASSUME NEW c \in run.scan PROVE Inv /\ DeleteBranding(c) => Inv'
<1>. SUFFICES ASSUME Inv, DeleteBranding(c) PROVE Inv'
  OBVIOUS
<1>. DEFINE client == [cognito[c.id] EXCEPT !.branded = FALSE]
<1>1. /\ run \in RunSet /\ run.phase = "purge" /\ nextId \in Nat \ {0}
      /\ cognito \in [Ids -> ClientSet \cup {None}] /\ IdsInv
      /\ UNCHANGED <<clock, environment, rows, index, tokenLife, deletedAt, nextId, faults>>
      /\ cognito' = IF cognito[c.id] = None THEN cognito ELSE [cognito EXCEPT ![c.id] = client]
      /\ run' = [run EXCEPT !.phase = "deleteClient", !.url = c.key, !.retire = c.id]
  BY DEF DeleteBranding, tables, Inv, TypeOK
<1>2. c.key \in RowKeys /\ c.id \in Ids /\ c = [key |-> c.key, id |-> c.id]
  BY <1>1 DEF RunSet, Scans
<1>3. /\ run' \in RunSet /\ run'.phase = "deleteClient" /\ run'.url = c.key
      /\ run'.retire = c.id /\ run'.scan = run.scan /\ run'.before = run.before
  BY <1>1, <1>2 DEF RunSet, Phases
<1>4. PlanInv' /\ (ScansAreConsistent => PurgeInv')
  BY <1>1, <1>2, <1>3 DEF PlanInv, PurgeInv, Inv
<1>5. ScanInv'
  BY <1>1, <1>2, <1>3 DEF ScanInv, Inv
<1>6. /\ cognito' \in [Ids -> ClientSet \cup {None}]
      /\ \A j \in Ids : cognito'[j] # None => j < nextId'
  <2>1. CASE cognito[c.id] = None
    BY <1>1, <2>1 DEF IdsInv
  <2>2. CASE cognito[c.id] # None
    <3>1. client \in ClientSet /\ nextId' = nextId
      BY <1>1, <1>2, <2>2 DEF ClientSet
    <3>. HIDE DEF client
    <3>. QED  BY <1>1, <1>2, <2>2, <3>1, ClientChanged
  <2>. QED  BY <2>1, <2>2
<1>7. nextId' \in Nat \ {0} /\ nextId <= nextId'
  BY <1>1
<1>. QED  BY <1>1, <1>3, <1>4, <1>5, <1>6, <1>7, PoolStepInv

LEMMA DeleteClientStep == Inv /\ DeleteClient => Inv'
<1>. SUFFICES ASSUME Inv, DeleteClient PROVE Inv'
  OBVIOUS
<1>1. /\ run \in RunSet /\ run.phase = "deleteClient" /\ nextId \in Nat \ {0}
      /\ cognito \in [Ids -> ClientSet \cup {None}] /\ IdsInv
      /\ UNCHANGED <<clock, environment, rows, index, tokenLife, deletedAt, nextId, faults>>
      /\ cognito' = [cognito EXCEPT ![run.retire] = None]
      /\ run' = [run EXCEPT !.phase = "deleteRows"]
      /\ run.url \in RowKeys /\ run.retire \in Ids
  BY DEF DeleteClient, tables, Inv, TypeOK, ScanInv
<1>2. /\ run' \in RunSet /\ run'.phase = "deleteRows" /\ run'.url = run.url
      /\ run'.retire = run.retire /\ run'.scan = run.scan /\ run'.before = run.before
  BY <1>1 DEF RunSet, Phases
<1>3. PlanInv' /\ (ScansAreConsistent => PurgeInv')
  BY <1>1, <1>2 DEF PlanInv, PurgeInv, Inv
<1>4. ScanInv'
  BY <1>1, <1>2 DEF ScanInv, Inv
<1>5. /\ cognito' \in [Ids -> ClientSet \cup {None}]
      /\ \A j \in Ids : cognito'[j] # None => j < nextId'
      /\ nextId' \in Nat \ {0} /\ nextId <= nextId'
  BY <1>1 DEF IdsInv
<1>. QED  BY <1>1, <1>2, <1>3, <1>4, <1>5, PoolStepInv

LEMMA DeleteClientRowsStep == Inv /\ DeleteClientRows => Inv'
<1>. SUFFICES ASSUME Inv, DeleteClientRows PROVE Inv'
  OBVIOUS
<1>. DEFINE u == run.url
            i == run.retire
            c == [key |-> u, id |-> i]
<1>1. /\ run \in RunSet /\ run.phase = "deleteRows" /\ TypeOK /\ IdsInv
      /\ u \in RowKeys /\ i \in Ids
      /\ rows' = [rows EXCEPT ![u] = None] /\ index' = [index EXCEPT ![i] = None]
      /\ UNCHANGED <<clock, environment, cognito, nextId, tokenLife, faults>>
      /\ deletedAt' \in [Urls -> Nat]
      /\ run' = [run EXCEPT !.phase = "purge", !.url = None, !.retire = None, !.scan = @ \ {c}]
  BY DEF DeleteClientRows, userPool, Inv, TypeOK, ScanInv
<1>2. /\ run' \in RunSet /\ run'.phase = "purge" /\ run'.scan = run.scan \ {c}
      /\ run'.before = run.before
  BY ZenonT(60), <1>1 DEF RunSet, Phases, Scans
<1>3. PlanInv'
  BY <1>2 DEF PlanInv
<1>4. ScanInv'
  BY <1>1, <1>2 DEF ScanInv, Inv
<1>5. TypeOK' /\ IdsInv'
  BY <1>1, <1>2 DEF TypeOK, IdsInv, environment
<1>6. ASSUME ScansAreConsistent
      PROVE  PurgeInv' /\ ReadersAgree'
  <2>1. /\ PurgeInv /\ ReadersAgree /\ c \in run.scan
        /\ \A d \in run.scan : rows[d.key] # None /\ rows[d.key].id = d.id
    BY <1>1, <1>6 DEF Inv, PurgeInv
  <2>2. \A d \in run.scan : d = [key |-> d.key, id |-> d.id] /\ d.key \in RowKeys
    BY <1>1 DEF RunSet, Scans
  <2>3. rows[u] # None /\ rows[u].id = i
    BY <2>1
  <2>4. \A d \in run.scan \ {c} : d.key # u
    BY <2>1, <2>2, <2>3
  <2>5. PurgeInv'
    BY <1>1, <1>2, <2>1, <2>2, <2>4 DEF PurgeInv, TypeOK
  <2>6. index[i] # None /\ index[i].key = u
    <3>1. rows[u].enabled \in BOOLEAN
      BY <1>1, <2>3 DEF TypeOK, RowSet
    <3>2. index[i] = [key |-> u, enabled |-> rows[u].enabled]
      BY <1>1, <2>1, <2>3 DEF ReadersAgree
    <3>3. [key |-> u, enabled |-> rows[u].enabled] \in IndexSet
      BY <1>1, <3>1 DEF IndexSet
    <3>. QED  BY <3>2, <3>3, NoneAssumption
  <2>7. ASSUME NEW k \in RowKeys, rows'[k] # None
        PROVE  index'[rows'[k].id] = [key |-> k, enabled |-> rows'[k].enabled]
    <3>1. k # u /\ rows'[k] = rows[k] /\ rows[k] # None /\ rows[k].id \in Ids
      BY <1>1, <2>7 DEF TypeOK, RowSet
    <3>2. index[rows[k].id] = [key |-> k, enabled |-> rows[k].enabled]
      BY <2>1, <3>1 DEF ReadersAgree
    <3>3. rows[k].id # i
      BY <2>6, <3>1, <3>2
    <3>. QED  BY <1>1, <3>1, <3>2, <3>3 DEF TypeOK
  <2>8. ASSUME NEW j \in Ids, index'[j] # None
        PROVE  rows'[index'[j].key] # None /\ rows'[index'[j].key].id = j
    <3>1. j # i /\ index'[j] = index[j] /\ index[j] # None /\ index[j].key \in RowKeys
      BY <1>1, <2>8 DEF TypeOK, IndexSet
    <3>2. rows[index[j].key] # None /\ rows[index[j].key].id = j
      BY <2>1, <3>1 DEF ReadersAgree
    <3>3. index[j].key # u
      BY <2>3, <3>1, <3>2
    <3>. QED  BY <1>1, <3>1, <3>2, <3>3 DEF TypeOK
  <2>9. ReadersAgree'
    BY <2>7, <2>8 DEF ReadersAgree
  <2>. QED  BY <2>5, <2>9
<1>. QED  BY <1>3, <1>4, <1>5, <1>6 DEF Inv

-----------------------------------------------------------------------------
(* The theorems.                                                           *)

LEMMA InitInv == Init => Inv
<1>. SUFFICES ASSUME Init PROVE Inv
  OBVIOUS
<1>1. TypeOK
  <2>1. run \in RunSet /\ tokenLife \in [Ids -> 0 .. AccessLifetime]
        /\ deletedAt \in [Urls -> Nat]
    BY IdleType, ConstantsAssumption DEF Init
  <2>2. /\ rows \in [RowKeys -> RowSet \cup {None}] /\ index \in [Ids -> IndexSet \cup {None}]
        /\ cognito \in [Ids -> ClientSet \cup {None}]
    BY DEF Init
  <2>3. clock = 0 /\ changes = 0 /\ faults = 0 /\ nextId = 1
    BY Zenon DEF Init
  <2>4. web \in [Urls -> Documents \cup NotFetched] /\ keys \in [Urls -> Keys \cup NotFetched]
    BY DEF Init
  <2>5. clock \in Nat /\ changes \in Nat /\ faults \in Nat /\ nextId \in Nat \ {0}
    BY <2>3
  <2>6. strict \in BOOLEAN /\ allowed \subseteq Urls
    BY Zenon DEF Init
  <2>. QED  BY <2>1, <2>2, <2>4, <2>5, <2>6, Zenon DEF TypeOK
<1>2. PlanInv /\ ScanInv /\ PurgeInv
  BY DEF Init, Idle, PlanInv, ScanInv, PurgeInv
<1>3. IdsInv /\ ReadersAgree
  BY IdsFacts DEF Init, IdsInv, ReadersAgree
<1>. QED  BY <1>1, <1>2, <1>3 DEF Inv

LEMMA NextInv == Inv /\ [Next]_vars => Inv'
<1>. SUFFICES ASSUME Inv, [Next]_vars PROVE Inv'
  OBVIOUS
<1>1. CASE Tick \/ Environment
  BY <1>1, TickStep, ChangeStep
<1>2. CASE BeginDelete \/ (\E kind \in Kinds : BeginRun(kind)) \/ (\E u \in Urls : BeginRevalidate(u))
  BY <1>2, BeginDeleteStep, BeginRunStep, BeginRevalidateStep
<1>3. CASE \E u \in Urls : Reconcile(u)
  BY <1>3, SkipCachedStep, FetchFailedStep, FetchRaisesStep, NotModifiedStep,
     FetchedUnacceptableStep, ModifiedStep DEF Reconcile
<1>4. CASE KeysValidated \/ KeysUnavailable \/ KeysRaise \/ CreateClient \/ BrandClient \/ UpdateCallbacks
           \/ Put \/ EnsureBranding \/ Answer
  BY <1>4, KeysValidatedStep, KeysUnavailableStep, KeysRaiseStep, CreateClientStep,
     BrandClientStep, UpdateCallbacksStep, PutStep, EnsureBrandingStep, AnswerStep
<1>5. CASE \E c \in run.scan : RetireRemoved(c) \/ DeleteBranding(c)
  BY <1>5, RetireRemovedStep, DeleteBrandingStep
<1>6. CASE ScanRemoved \/ ScanExpired \/ DeleteClient \/ DeleteClientRows \/ Finish
  BY <1>6, ScanRemovedStep, ScanExpiredStep, DeleteClientStep, DeleteClientRowsStep, FinishStep
<1>7. CASE CallRaises \/ CreateReplyLost \/ Killed
  BY <1>7, CallRaisesStep, CreateReplyLostStep, KilledStep
<1>8. CASE UNCHANGED vars
  <2>1. StateKept /\ run' = run
    BY <1>8 DEF vars, environment, tables, userPool, StateKept, Inv, TypeOK
  <2>2. TypeOK' /\ IdsInv'
    BY <1>8 DEF vars, environment, tables, userPool, Inv, TypeOK, IdsInv
  <2>. QED  BY <1>8, EnvironmentStep DEF vars, environment, tables, userPool, Inv, TypeOK
<1>. QED  BY <1>1, <1>2, <1>3, <1>4, <1>5, <1>6, <1>7, <1>8 DEF Next, RunStep

(* The invariant behind both theorems, for every set of URLs, documents    *)
(* and keys, every lifetime and every number of faults.                    *)
LEMMA RegistrarInvariant == Spec => []Inv
  BY InitInv, NextInv, PTL DEF Spec

(* The tables, the user pool and the state of an invocation keep their     *)
(* shape, with stale scans or without: the registrar never dereferences a  *)
(* row or an identifier it does not have.                                  *)
THEOREM RegistrarTyping == Spec => []TypeOK
<1>1. Inv => TypeOK
  BY DEF Inv
<1>. QED  BY <1>1, RegistrarInvariant, PTL

(* The CLIENT# row by which the proxy knows a client and the INDEX# row by *)
(* which the verifier does never disagree, at any point of a registration, *)
(* rotation, disabling or deletion, whatever raises and whenever the       *)
(* invocation is killed, provided a purge sees the rows as they are.       *)
THEOREM RegistrarReadersAgree == ScansAreConsistent => (Spec => []ReadersAgree)
<1>. SUFFICES ASSUME ScansAreConsistent PROVE Spec => []ReadersAgree
  OBVIOUS
<1>1. Inv => ReadersAgree
  BY DEF Inv
<1>. QED  BY <1>1, RegistrarInvariant, PTL
=============================================================================
