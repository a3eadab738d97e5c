--------------------- MODULE RegistrarRefinement_proofs ---------------------
(***************************************************************************)
(* The registrar implements Registration, for any URLs, documents, limits, *)
(* identifiers and faults, as long as purges see the rows as they are and  *)
(* the stack is not destroyed.                                             *)
(***************************************************************************)
EXTENDS RegistrarRefinement, Registrar_proofs

(* Destroying the stack deletes enabled clients too, which no reader is    *)
(* left to see.                                                            *)
StackIsKept == "delete" \notin Kinds

-----------------------------------------------------------------------------
(* The invariant, beside Inv: the order of times, what a planned row may   *)
(* change, and whose rows a clean-up has found.                            *)

Working == run.phase \in {"jwks", "create", "brand", "update", "put"}

(* No row of u will rest on a fetch before this.                           *)
Seen(u) == IF Stored(u) THEN rows[u].fetchedAt ELSE deletedAt[u]

TimesInv ==
    /\ run.phase # "idle" => run.started <= clock /\ clock <= run.started + RunLimit
    /\ Working => run.started <= run.now /\ run.now <= clock
    /\ \A u \in Urls : Seen(u) <= clock /\ (Working => Seen(u) <= run.now)

(* The row confirms a client by the fetch of this very round.              *)
Confirms(row, now) == row.fetchedAt = now /\ row.cacheUntil \in now .. (now + CacheMax)

KeepsEnabled == PlansSameClient /\ run.target.enabled = rows[run.url].enabled

Disables ==
    /\ PlansSameClient /\ rows[run.url].enabled
    /\ run.target = Disabled(rows[run.url], None)

TargetInv ==
    /\ run.phase \in {"create", "brand", "update"} => Confirms(run.target, run.now) /\ run.target.enabled
    /\ run.phase = "put" =>
          Disables \/ (Confirms(run.target, run.now) /\ (run.target.enabled \/ KeepsEnabled))

CleanInv ==
    /\ run.phase = "retire" => \A c \in run.scan : rows[c.key].enabled
    /\ run.phase \in {"purge", "deleteClient", "deleteRows"} => \A c \in run.scan : ~rows[c.key].enabled

ReaderInv == TimesInv /\ TargetInv /\ CleanInv

-----------------------------------------------------------------------------
(* A step that leaves the tables and the clock alone: its reader sees      *)
(* nothing, or that a created client will come to nothing.                 *)

TablesKept == UNCHANGED <<clock, rows, index, deletedAt>> /\ nextId <= nextId'

(* No identifier that is spent is taken up again.                          *)
ClaimsNothing ==
    run'.phase \in {"brand", "put"} =>
        \/ PlansSameClient'
        \/ ~(run'.target.id < nextId)
        \/ run.phase = "brand" /\ run'.target.id = run.target.id

TimesStep ==
    /\ run'.phase # "idle" => run'.started = IF run.phase = "idle" THEN clock ELSE run.started
    /\ Working' => run'.now = clock \/ (Working /\ run'.now = run.now)

Refines == Readers!RegistrationNext \/ UNCHANGED <<clock, Readers!registration>>

LEMMA TablesKeptRefines ==
    ASSUME Inv, Inv', TablesKept, ClaimsNothing
    PROVE  Refines
<1>1. UNCHANGED <<Mapping, Accepted, clock, deletedAt>>
  BY DEF TablesKept, Mapping, Accepted, Stored
<1>2. Spent \subseteq Spent'
  <2> SUFFICES ASSUME NEW i \in Spent
               PROVE  i \in Spent'
    OBVIOUS
  <2>1. /\ i \in Ids /\ i < nextId /\ \A u \in Urls : Stored(u) => rows[u].id # i
        /\ ~(run.phase \in {"brand", "put"} /\ run.target.id = i)
    BY DEF Spent
  <2>2. i < nextId'
    BY <2>1, IdsFacts DEF TablesKept, Inv, TypeOK
  <2>3. \A u \in Urls : Stored(u)' => rows'[u].id # i
    BY <2>1 DEF TablesKept, Stored
  <2>4. ~(run'.phase \in {"brand", "put"} /\ run'.target.id = i)
    <3>1. ASSUME PlansSameClient', run'.phase \in {"brand", "put"}
          PROVE  run'.target.id # i
      BY <2>3, <3>1 DEF PlansSameClient, Inv, PlanInv, Stored
    <3> QED
      BY <2>1, <3>1 DEF ClaimsNothing
  <2> QED
    BY <2>1, <2>2, <2>3, <2>4 DEF Spent
<1>3. \A u \in Urls : Readers!Known(u) => Mapping[u].id \notin Spent'
  BY <1>1 DEF Readers!Known, Mapping, Spent, Stored, Readable
<1> QED
  BY <1>1, <1>2, <1>3 DEF Refines, Readers!RegistrationNext, Readers!Waste

LEMMA TablesKeptTimes ==
    ASSUME Inv, Inv', TimesInv, TablesKept, TimesStep
    PROVE  TimesInv'
<1>1. /\ clock \in Nat /\ clock' = clock /\ RunLimit \in Nat
      /\ run.started \in Nat /\ run.now \in Nat
  BY ConstantsAssumption DEF Inv, TypeOK, RunSet, TablesKept
<1>2. \A u \in Urls : Seen(u)' = Seen(u)
  BY DEF TablesKept, Seen, Stored
<1>3. run'.phase # "idle" => run'.started <= clock /\ clock <= run'.started + RunLimit
  BY <1>1 DEF TimesInv, TimesStep
<1>4. ASSUME Working'
      PROVE  run'.started <= run'.now /\ run'.now <= clock
  <2>1. run'.started <= clock
    BY <1>3, <1>4 DEF Working
  <2>2. CASE run'.now = clock
    BY <1>1, <2>1, <2>2
  <2>3. CASE Working /\ run'.now = run.now
    BY <1>1, <1>4, <2>3 DEF TimesInv, TimesStep, Working
  <2> QED
    BY <1>4, <2>2, <2>3 DEF TimesStep
<1>5. ASSUME NEW u \in Urls
      PROVE  Seen(u) <= clock /\ (Working' => Seen(u) <= run'.now)
  BY <1>1 DEF TimesInv, TimesStep
<1> QED
  BY <1>1, <1>2, <1>3, <1>4, <1>5 DEF TimesInv

(* What is to be shown of each step.                                       *)
Good == ReaderInv' /\ Refines

LEMMA TablesKeptGood ==
    ASSUME Inv, Inv', ReaderInv, TablesKept, ClaimsNothing, TimesStep, TargetInv', CleanInv'
    PROVE  Good
  BY TablesKeptRefines, TablesKeptTimes DEF Good, ReaderInv

(* Nothing is planned and nothing is to be cleaned up.                     *)
LEMMA QuietGood ==
    ASSUME Inv, Inv', ReaderInv, TablesKept, run'.phase \in {"idle", "next", "ensure", "answer"},
           run'.phase # "idle" => run'.started = IF run.phase = "idle" THEN clock ELSE run.started
    PROVE  Good
<1>1. TimesStep /\ ClaimsNothing /\ TargetInv' /\ CleanInv'
  BY DEF TimesStep, Working, ClaimsNothing, TargetInv, CleanInv
<1> QED
  BY <1>1, TablesKeptGood

LEMMA Untouched ==
    ASSUME Inv, UNCHANGED <<clock, tables, userPool>>
    PROVE  TablesKept
  BY DEF Inv, TypeOK, tables, userPool, TablesKept

LEMMA RunKeptGood ==
    ASSUME Inv, Inv', ReaderInv, run' = run, UNCHANGED <<clock, rows, index, deletedAt, nextId>>
    PROVE  Good
<1>1. TablesKept /\ TimesStep
  BY DEF Inv, TypeOK, TablesKept, TimesStep, Working
<1>2. TargetInv' /\ CleanInv'
  BY DEF ReaderInv, TargetInv, CleanInv, Disables, KeepsEnabled, PlansSameClient
<1>3. UNCHANGED <<clock, Readers!registration>>
  BY DEF Readers!registration, Mapping, Accepted, Spent, Stored
<1> QED
  BY <1>1, <1>2, <1>3, TablesKeptTimes DEF Good, ReaderInv, Refines

-----------------------------------------------------------------------------
(* Time and the environment; an invocation begins and ends.                *)

LEMMA TickGood == Inv /\ Inv' /\ ReaderInv /\ Tick => Good
<1> SUFFICES ASSUME Inv, Inv', ReaderInv, Tick PROVE Good
  OBVIOUS
<1>1. /\ clock' = clock + 1 /\ run' = run /\ UNCHANGED <<rows, index, deletedAt, nextId>>
      /\ run.phase = "idle" \/ clock < run.started + RunLimit
  BY DEF Tick, userPool
<1>2. clock \in Nat /\ RunLimit \in Nat /\ run.started \in Nat /\ run.now \in Nat
  BY ConstantsAssumption DEF Inv, TypeOK, RunSet
<1>3. \A u \in Urls : Seen(u)' = Seen(u) /\ Seen(u) \in Nat
  BY <1>1, IdsFacts DEF Seen, Stored, Inv, TypeOK, RowSet
<1>4. TimesInv'
  BY <1>1, <1>2, <1>3 DEF ReaderInv, TimesInv, Working
<1>5. TargetInv' /\ CleanInv'
  BY <1>1 DEF ReaderInv, TargetInv, CleanInv, Disables, KeepsEnabled, PlansSameClient
<1>6. Readers!Pass
  BY <1>1 DEF Readers!Pass, Readers!registration, Mapping, Accepted, Spent, Stored
<1> QED
  BY <1>4, <1>5, <1>6 DEF Good, ReaderInv, Refines, Readers!RegistrationNext

LEMMA EnvironmentGood == Inv /\ Inv' /\ ReaderInv /\ Environment => Good
<1> SUFFICES ASSUME Inv, Inv', ReaderInv, Environment PROVE Good
  OBVIOUS
<1>1. run' = run /\ UNCHANGED <<clock, rows, index, deletedAt, nextId>>
  BY DEF Environment, Publish, PublishKeys, EditAllowList, DeployStricterRules, Change,
         tables, userPool
<1> QED
  BY <1>1, RunKeptGood

LEMMA StartedAt ==
    ASSUME NEW kind, NEW phase, NEW todo
    PROVE  Started(kind, phase, todo).phase = phase /\ Started(kind, phase, todo).started = clock
  BY DEF Started, Idle

LEMMA BeginRunGood ==
    ASSUME NEW kind \in Kinds
    PROVE  Inv /\ Inv' /\ ReaderInv /\ BeginRun(kind) => Good
<1> SUFFICES ASSUME Inv, Inv', ReaderInv, BeginRun(kind) PROVE Good
  OBVIOUS
<1>1. TablesKept /\ run.phase = "idle" /\ run' = Started(kind, "next", allowed)
  BY Untouched DEF BeginRun, Begin
<1>2. run'.phase = "next" /\ run'.started = clock
  BY <1>1, StartedAt
<1> QED
  BY <1>1, <1>2, QuietGood

LEMMA BeginRevalidateGood ==
    ASSUME NEW u \in Urls
    PROVE  Inv /\ Inv' /\ ReaderInv /\ BeginRevalidate(u) => Good
<1> SUFFICES ASSUME Inv, Inv', ReaderInv, BeginRevalidate(u) PROVE Good
  OBVIOUS
<1>1. TablesKept /\ run.phase = "idle"
  BY Untouched DEF BeginRevalidate, Begin
<1>2. run'.phase = "next" /\ run'.started = clock
  BY DEF BeginRevalidate, Started, Idle
<1> QED
  BY <1>1, <1>2, QuietGood

LEMMA OverGood == Inv /\ Inv' /\ ReaderInv /\ (Answer \/ Finish \/ Killed) => Good
<1> SUFFICES ASSUME Inv, Inv', ReaderInv, Answer \/ Finish \/ Killed PROVE Good
  OBVIOUS
<1>1. TablesKept /\ run' = Idle
  BY Untouched DEF Answer, Finish, Killed, Fault
<1>2. run'.phase = "idle"
  BY <1>1 DEF Idle
<1> QED
  BY <1>1, <1>2, QuietGood

(* _reconcile_url gives up, or is done.                                    *)
LEMMA ReturnsGood ==
    ASSUME Inv, Inv', ReaderInv, TablesKept, run.phase # "idle",
           NEW v \in BOOLEAN, NEW r, r = Raise \/ r = Return(v), NEW u,
           run' = r \/ run' = [r EXCEPT !.todo = @ \ {u}]
    PROVE  Good
<1>1. run \in RunSet
  BY DEF Inv, TypeOK
<1>2. /\ r \in RunSet /\ r.phase \in {"next", "answer"}
  BY <1>1, ReturnShape, RaiseShape
<1>3. \A w \in BOOLEAN : Return(w).started = run.started
  BY <1>1 DEF Return, RunSet
<1>4. r.started = run.started
  <2>1. Raise.started = Return(FALSE).started
    BY <1>1, ReturnShape DEF Raise, RunSet
  <2> QED
    BY <1>3, <2>1
<1>5. run'.phase = r.phase /\ run'.started = r.started
  BY <1>2 DEF RunSet
<1> QED
  BY <1>2, <1>4, <1>5, QuietGood

LEMMA CallRaisesGood == Inv /\ Inv' /\ ReaderInv /\ CallRaises => Good
<1> SUFFICES ASSUME Inv, Inv', ReaderInv, CallRaises PROVE Good
  OBVIOUS
<1>1. TablesKept /\ run.phase # "idle"
  BY Untouched DEF CallRaises, Fault
<1>2. CASE run' = Raise
  BY <1>1, <1>2, ReturnsGood
<1>3. ASSUME NEW u \in run.todo, run' = [Raise EXCEPT !.todo = @ \ {u}] PROVE Good
  BY <1>1, <1>3, ReturnsGood
<1> QED
  BY <1>2, <1>3 DEF CallRaises

-----------------------------------------------------------------------------
(* _reconcile_url up to its plan.                                          *)

(* A row is planned for the client the URL already has.                    *)
LEMMA PutPlannedGood ==
    ASSUME Inv, Inv', ReaderInv, TablesKept, run.phase # "idle", NEW u \in Urls, rows[u] # None,
           run'.phase = "put", run'.url = u, run'.retire = None,
           run'.target # None, run'.target.id = rows[u].id,
           run'.started = run.started, run'.now = clock \/ (Working /\ run'.now = run.now),
           \/ rows[u].enabled /\ run'.target = Disabled(rows[u], None)
           \/ /\ Confirms(run'.target, run'.now)
              /\ run'.target.enabled \/ run'.target.enabled = rows[u].enabled
    PROVE  Good
<1>1. rows' = rows
  BY DEF TablesKept
<1>2. PlansSameClient'
  BY <1>1 DEF PlansSameClient
<1>3. TimesStep /\ ClaimsNothing /\ CleanInv'
  BY <1>2 DEF TimesStep, ClaimsNothing, CleanInv
<1>4. TargetInv'
  BY <1>1, <1>2 DEF TargetInv, Disables, KeepsEnabled, Confirms
<1> QED
  BY <1>3, <1>4, TablesKeptGood

LEMMA PlanPutTimes ==
    ASSUME run \in RunSet, clock \in Nat, NEW u \in Urls, NEW row \in PlanSet,
           NEW after \in {"next", "ensure"}, NEW v \in BOOLEAN
    PROVE  /\ PlanPut(u, row, after, v).started = run.started
           /\ PlanPut(u, row, after, v).now = clock
<1>1. row \in Plans /\ u \in RowKeys \cup {None}
  BY IdsFacts DEF Plans
<1> QED
  BY <1>1 DEF PlanPut, RunSet

LEMMA ConsiderKept ==
    ASSUME Inv, NEW u, Consider(u)
    PROVE  /\ TablesKept /\ run \in RunSet /\ u \in Urls /\ clock \in Nat
           /\ run.phase = "next" /\ run.retire = None
           /\ rows[u] # None => rows[u] \in RowSet
  BY ConsiderFacts, Untouched DEF Consider, Inv, TypeOK

LEMMA SkipCachedGood ==
    ASSUME NEW u \in Urls
    PROVE  Inv /\ Inv' /\ ReaderInv /\ SkipCached(u) => Good
<1> SUFFICES ASSUME Inv, Inv', ReaderInv, SkipCached(u) PROVE Good
  OBVIOUS
<1>1. TablesKept /\ run \in RunSet /\ run.phase = "next"
  BY ConsiderKept DEF SkipCached
<1>2. run'.phase = "ensure" /\ run'.started = run.started
  BY <1>1 DEF SkipCached, RunSet
<1> QED
  BY <1>1, <1>2, QuietGood

LEMMA DisablingGood ==
    ASSUME Inv, Inv', ReaderInv, NEW u \in Urls, Consider(u), Enabled(u),
           LET s == PlanPut(u, Disabled(rows[u], None), "next", FALSE)
           IN  run' = s \/ run' = [s EXCEPT !.errors = TRUE]
    PROVE  Good
<1> DEFINE row == Disabled(rows[u], None)
           no == FALSE
           s == PlanPut(u, row, "next", no)
<1>1. /\ TablesKept /\ run \in RunSet /\ clock \in Nat
      /\ run.phase = "next" /\ run.retire = None
      /\ rows[u] # None /\ rows[u] \in RowSet /\ rows[u].enabled
  BY ConsiderKept DEF Enabled, Stored
<1>2. /\ row \in RowSet /\ row \in PlanSet /\ row.id = rows[u].id /\ row # None
      /\ no \in BOOLEAN
  BY <1>1, DisabledType, RowIsPlan, NoneAssumption DEF Time
<1> HIDE DEF row, no
<1>3. /\ s \in RunSet /\ s.phase = "put" /\ s.url = u /\ s.target = row /\ s.retire = None
      /\ s.started = run.started /\ s.now = clock
  <2>1. /\ s \in RunSet /\ s.phase = "put" /\ s.url = u /\ s.target = row
        /\ s.retire = run.retire
    BY <1>1, <1>2, PlanPutShape
  <2>2. s.started = run.started /\ s.now = clock
    BY <1>1, <1>2, PlanPutTimes
  <2> QED
    BY <1>1, <2>1, <2>2
<1> HIDE DEF s
<1>4. /\ run'.phase = "put" /\ run'.url = u /\ run'.target = row /\ run'.retire = None
      /\ run'.started = run.started /\ run'.now = clock
  <2>1. run' = s \/ run' = [s EXCEPT !.errors = TRUE]
    BY DEF s, row, no
  <2> QED
    BY <1>3, <2>1 DEF RunSet
<1>5. run'.target = Disabled(rows[u], None)
  BY <1>4 DEF row
<1> QED
  BY <1>1, <1>2, <1>4, <1>5, PutPlannedGood

LEMMA FetchFailedGood ==
    ASSUME NEW u \in Urls
    PROVE  Inv /\ Inv' /\ ReaderInv /\ FetchFailed(u) => Good
<1> SUFFICES ASSUME Inv, Inv', ReaderInv, FetchFailed(u) PROVE Good
  OBVIOUS
<1>1. CASE Enabled(u) /\ OlderThanMaxStale(rows[u].fetchedAt, clock)
  BY <1>1, DisablingGood DEF FetchFailed
<1>2. CASE ~(Enabled(u) /\ OlderThanMaxStale(rows[u].fetchedAt, clock))
  BY <1>2, ConsiderKept, ReturnsGood DEF FetchFailed
<1> QED
  BY <1>1, <1>2

LEMMA FetchRaisesGood ==
    ASSUME NEW u \in Urls
    PROVE  Inv /\ Inv' /\ ReaderInv /\ FetchRaises(u) => Good
  BY ConsiderKept, ReturnsGood DEF FetchRaises

LEMMA FetchedUnacceptableGood ==
    ASSUME NEW u \in Urls
    PROVE  Inv /\ Inv' /\ ReaderInv /\ FetchedUnacceptable(u) => Good
<1> SUFFICES ASSUME Inv, Inv', ReaderInv, FetchedUnacceptable(u) PROVE Good
  OBVIOUS
<1>1. CASE Enabled(u)
  BY <1>1, DisablingGood DEF FetchedUnacceptable
<1>2. CASE ~Enabled(u)
  BY <1>2, ConsiderKept, ReturnsGood DEF FetchedUnacceptable
<1> QED
  BY <1>1, <1>2

LEMMA CacheSecondsBound ==
    ASSUME NEW doc
    PROVE  CacheSeconds(doc) \in 0 .. CacheMax
  BY ConstantsAssumption DEF CacheSeconds

LEMMA NotModifiedGood ==
    ASSUME NEW u \in Urls
    PROVE  Inv /\ Inv' /\ ReaderInv /\ NotModified(u) => Good
<1> SUFFICES ASSUME Inv, Inv', ReaderInv, NotModified(u) PROVE Good
  OBVIOUS
<1> DEFINE row == [rows[u] EXCEPT !.cacheUntil = clock + CacheSeconds(web[u]), !.fetchedAt = clock]
           s == PlanPut(u, row, "ensure", rows[u].enabled)
<1>1. /\ TablesKept /\ run \in RunSet /\ clock \in Nat
      /\ run.phase = "next" /\ run.retire = None
      /\ rows[u] # None /\ rows[u] \in RowSet /\ rows[u].enabled \in BOOLEAN
  BY ConsiderKept DEF NotModified, Unchanged, Stored, RowSet
<1>2. CacheSeconds(web[u]) \in 0 .. CacheMax /\ CacheMax \in Nat
  BY CacheSecondsBound, ConstantsAssumption
<1>3. /\ row \in RowSet /\ row.id = rows[u].id /\ row.enabled = rows[u].enabled
      /\ Confirms(row, clock)
  <2>1. clock + CacheSeconds(web[u]) \in Nat
        /\ clock + CacheSeconds(web[u]) \in clock .. (clock + CacheMax)
    BY <1>1, <1>2
  <2>2. /\ row \in RowSet /\ row.id = rows[u].id /\ row.enabled = rows[u].enabled
        /\ row.fetchedAt = clock /\ row.cacheUntil = clock + CacheSeconds(web[u])
    BY <1>1, <2>1 DEF RowSet
  <2> QED
    BY <2>1, <2>2 DEF Confirms
<1>4. row \in PlanSet /\ row # None
  BY <1>3, RowIsPlan, NoneAssumption
<1>5. run' = [s EXCEPT !.doc = web[u]]
  BY DEF NotModified
<1> HIDE DEF row
<1>6. /\ s \in RunSet /\ s.phase = "put" /\ s.url = u /\ s.target = row /\ s.retire = None
      /\ s.started = run.started /\ s.now = clock
  BY <1>1, <1>4, PlanPutShape, PlanPutTimes
<1> HIDE DEF s
<1>7. /\ run'.phase = "put" /\ run'.url = u /\ run'.target = row /\ run'.retire = None
      /\ run'.started = run.started /\ run'.now = clock
  BY <1>5, <1>6 DEF RunSet
<1> QED
  BY <1>1, <1>3, <1>4, <1>7, PutPlannedGood

LEMMA ModifiedGood ==
    ASSUME NEW u \in Urls
    PROVE  Inv /\ Inv' /\ ReaderInv /\ Modified(u) => Good
<1> SUFFICES ASSUME Inv, Inv', ReaderInv, Modified(u) PROVE Good
  OBVIOUS
<1>1. TablesKept /\ run \in RunSet /\ run.phase = "next"
  BY ConsiderKept DEF Modified
<1>2. run'.phase = "jwks" /\ run'.now = clock /\ run'.started = run.started
  BY <1>1 DEF Modified, RunSet
<1>3. TimesStep /\ ClaimsNothing /\ TargetInv' /\ CleanInv'
  BY <1>1, <1>2 DEF TimesStep, ClaimsNothing, TargetInv, CleanInv
<1> QED
  BY <1>1, <1>3, TablesKeptGood

-----------------------------------------------------------------------------
(* From a 200 to the plan's transaction.                                   *)

LEMMA ReactGood ==
    ASSUME Inv, Inv', ReaderInv, TablesKept, run.phase = "jwks", NEW row \in PlanSet,
           NEW v \in BOOLEAN, Confirms(row, run.now), row.enabled, React(run.url, row, v)
    PROVE  Good
<1> DEFINE u == run.url
           plan == [run EXCEPT !.phase = "create", !.target = row, !.verdict = v]
<1>1. run \in RunSet /\ u \in Urls /\ (rows[u] # None => rows[u] \in RowSet)
  BY JwksFacts
<1>2. Working
  BY DEF Working
<1>3. CASE run'.phase = "create" /\ run'.target = row /\ run'.now = run.now /\ run'.started = run.started
  <2>1. TimesStep /\ ClaimsNothing /\ CleanInv'
    BY <1>2, <1>3 DEF TimesStep, ClaimsNothing, CleanInv, Working
  <2>2. TargetInv'
    BY <1>3 DEF TargetInv
  <2> QED
    BY <2>1, <2>2, TablesKeptGood
<1>4. ASSUME NEW r, r = plan \/ r = [plan EXCEPT !.retire = rows[u].id, !.verdict = TRUE]
                    \/ r = [plan EXCEPT !.retire = rows[u].id, !.after = "ensure"]
      PROVE  r.phase = "create" /\ r.target = row /\ r.now = run.now /\ r.started = run.started
  BY <1>1, <1>4 DEF RunSet
<1>5. CASE Stored(u) /\ run' = SameClient(u, row, v)
  <2> DEFINE target == [row EXCEPT !.id = rows[u].id]
  <2>1. /\ target.id = rows[u].id /\ target.enabled = row.enabled
        /\ target.fetchedAt = row.fetchedAt /\ target.cacheUntil = row.cacheUntil
        /\ target \in PlanSet
    BY <1>1, <1>5 DEF PlanSet, RowSet, Stored
  <2>2. Confirms(target, run.now) /\ target.enabled /\ target # None
    BY <2>1, NoneAssumption DEF Confirms
  <2>3. run' = [run EXCEPT !.phase = IF rows[u].uris # row.uris THEN "update" ELSE "put",
                           !.target = target, !.after = "ensure", !.verdict = v]
    BY <1>5 DEF SameClient
  <2> HIDE DEF target
  <2>4. /\ run'.phase \in {"update", "put"} /\ run'.target = target /\ run'.url = u
        /\ run'.now = run.now /\ run'.started = run.started /\ run'.retire = run.retire
    BY <1>1, <2>3 DEF RunSet
  <2>5. CASE run'.phase = "put"
    BY <1>1, <1>2, <1>5, <2>1, <2>2, <2>4, <2>5, PutPlannedGood, JwksFacts DEF Stored
  <2>6. CASE run'.phase = "update"
    <3>1. TimesStep /\ ClaimsNothing /\ CleanInv'
      BY <1>2, <2>4, <2>6 DEF TimesStep, ClaimsNothing, CleanInv, Working
    <3>2. TargetInv'
      BY <2>2, <2>4, <2>6 DEF TargetInv
    <3> QED
      BY <3>1, <3>2, TablesKeptGood
  <2> QED
    BY <2>4, <2>5, <2>6
<1> QED
  BY <1>3, <1>4, <1>5 DEF React

LEMMA NewRowConfirms ==
    ASSUME NEW doc, NEW fp, NEW now \in Nat, NEW ttl \in 0 .. CacheMax, NEW jwksAt
    PROVE  Confirms(NewRow(doc, fp, now, ttl, jwksAt), now)
           /\ NewRow(doc, fp, now, ttl, jwksAt).enabled
  BY ConstantsAssumption DEF NewRow, Confirms

LEMMA KeysValidatedGood == Inv /\ Inv' /\ ReaderInv /\ KeysValidated => Good
<1> SUFFICES ASSUME Inv, Inv', ReaderInv, KeysValidated PROVE Good
  OBVIOUS
<1> DEFINE u == run.url
           content == IF run.doc.jwksUri THEN keys[u] ELSE None
           jwksAt == IF run.doc.jwksUri THEN run.now ELSE None
           fp == JwksFingerprint(run.doc, content)
           row == NewRow(run.doc, fp, run.now, CacheSeconds(run.doc), jwksAt)
<1>1. /\ TablesKept /\ run.phase = "jwks" /\ content \notin NotFetched
      /\ React(u, row, TRUE)
  BY Untouched DEF KeysValidated
<1>2. run.doc \in Documents /\ run.now \in Nat /\ keys[u] \in Keys \cup NotFetched
  BY <1>1, JwksFacts
<1>3. content \in Keys \cup {None} /\ jwksAt \in Time
  BY <1>1, <1>2 DEF Time
<1>4. fp \in Fingerprints
  BY <1>2, <1>3 DEF Fingerprints
<1> HIDE DEF content, jwksAt, fp
<1>5. CacheSeconds(run.doc) \in Nat /\ CacheSeconds(run.doc) \in 0 .. CacheMax
  BY CacheSecondsType, CacheSecondsBound
<1>6. row \in PlanSet
  BY <1>2, <1>3, <1>4, <1>5, NewRowType
<1>7. Confirms(row, run.now) /\ row.enabled
  BY <1>2, <1>5, NewRowConfirms
<1> HIDE DEF row
<1> QED
  BY <1>1, <1>6, <1>7, ReactGood

LEMMA KeysUnavailableGood == Inv /\ Inv' /\ ReaderInv /\ KeysUnavailable => Good
<1> SUFFICES ASSUME Inv, Inv', ReaderInv, KeysUnavailable PROVE Good
  OBVIOUS
<1> DEFINE u == run.url
           old == rows[u]
           row == NewRow(run.doc, old.fp, run.now, 0, old.jwksAt)
<1>1. TablesKept /\ run.phase = "jwks"
  BY Untouched DEF KeysUnavailable
<1>2. /\ run \in RunSet /\ u \in Urls /\ run.retire = None
      /\ run.doc \in Documents /\ run.now \in Nat
      /\ rows[u] # None => rows[u] \in RowSet
  BY <1>1, JwksFacts
<1>3. CASE run' = Raise
  BY <1>1, <1>3, ReturnsGood
<1>4. CASE Enabled(u) /\ run' = [run EXCEPT !.phase = "put", !.target = Disabled(old, None)]
  <2> DEFINE row2 == Disabled(old, None)
  <2>1. rows[u] # None /\ rows[u].enabled
    BY <1>4 DEF Enabled, Stored
  <2>2. row2 \in RowSet /\ row2.id = rows[u].id /\ row2 # None
    BY <1>2, <2>1, DisabledType, NoneAssumption DEF Time
  <2> HIDE DEF row2
  <2>3. run' = [run EXCEPT !.phase = "put", !.target = row2]
    BY <1>4 DEF row2
  <2>4. /\ run'.phase = "put" /\ run'.url = u /\ run'.target = row2 /\ run'.retire = None
        /\ run'.started = run.started /\ run'.now = run.now
    BY <1>2, <2>3 DEF RunSet
  <2>5. run'.target = Disabled(rows[u], None)
    BY <2>4 DEF row2
  <2> QED
    BY <1>1, <1>2, <2>1, <2>2, <2>4, <2>5, PutPlannedGood DEF Working
<1>5. CASE Stored(u) /\ React(u, row, FALSE)
  <2> DEFINE no == FALSE
  <2>1. old.fp \in Fingerprints \cup {None} /\ old.jwksAt \in Time
    BY <1>2, <1>5 DEF Stored, RowSet
  <2>2. row \in PlanSet
    BY <1>2, <2>1, NewRowType
  <2>3. Confirms(row, run.now) /\ row.enabled
    BY <1>2, NewRowConfirms, ConstantsAssumption
  <2>4. React(u, row, no) /\ no \in BOOLEAN
    BY <1>5
  <2> HIDE DEF row, no
  <2> QED
    BY <1>1, <2>2, <2>3, <2>4, ReactGood
<1> QED
  BY <1>3, <1>4, <1>5 DEF KeysUnavailable

LEMMA KeysRaiseGood == Inv /\ Inv' /\ ReaderInv /\ KeysRaise => Good
<1> SUFFICES ASSUME Inv, Inv', ReaderInv, KeysRaise PROVE Good
  OBVIOUS
<1>1. TablesKept /\ run.phase # "idle" /\ run' = Raise
  BY Untouched DEF KeysRaise
<1> QED
  BY <1>1, ReturnsGood

LEMMA CreateClientGood == Inv /\ Inv' /\ ReaderInv /\ CreateClient => Good
<1> SUFFICES ASSUME Inv, Inv', ReaderInv, CreateClient PROVE Good
  OBVIOUS
<1>1. /\ run.phase = "create" /\ nextId \in Nat /\ nextId' = nextId + 1 /\ nextId \in Ids
      /\ UNCHANGED <<clock, rows, index, deletedAt>>
      /\ run' = [run EXCEPT !.phase = "brand", !.target = [@ EXCEPT !.id = nextId]]
  BY DEF CreateClient, tables, Inv, TypeOK
<1>2. run \in RunSet /\ run.target \in PlanSet
  BY <1>1, TargetFacts
<1> DEFINE target == [run.target EXCEPT !.id = nextId]
<1>3. /\ target.id = nextId /\ target.enabled = run.target.enabled
      /\ target.fetchedAt = run.target.fetchedAt /\ target.cacheUntil = run.target.cacheUntil
  BY <1>2 DEF PlanSet
<1> HIDE DEF target
<1>4. run' = [run EXCEPT !.phase = "brand", !.target = target]
  BY <1>1 DEF target
<1>5. /\ run'.phase = "brand" /\ run'.target = target
      /\ run'.started = run.started /\ run'.now = run.now
  BY <1>2, <1>4 DEF RunSet
<1>6. TablesKept /\ TimesStep /\ ClaimsNothing /\ CleanInv'
  BY <1>1, <1>3, <1>5 DEF TablesKept, TimesStep, ClaimsNothing, CleanInv, Working
<1>7. TargetInv'
  BY <1>1, <1>3, <1>5 DEF ReaderInv, TargetInv, Confirms
<1> QED
  BY <1>6, <1>7, TablesKeptGood

(* A client whose identifier nobody learns: it is spent at once.           *)
LEMMA CreateReplyLostGood == Inv /\ Inv' /\ ReaderInv /\ CreateReplyLost => Good
<1> SUFFICES ASSUME Inv, Inv', ReaderInv, CreateReplyLost PROVE Good
  OBVIOUS
<1>1. /\ run.phase = "create" /\ nextId \in Nat /\ nextId' = nextId + 1
      /\ UNCHANGED <<clock, rows, index, deletedAt>> /\ run' = run
  BY DEF CreateReplyLost, Fault, tables, Inv, TypeOK
<1>2. TablesKept /\ TimesStep /\ ClaimsNothing /\ CleanInv'
  BY <1>1 DEF TablesKept, TimesStep, ClaimsNothing, CleanInv, Working
<1>3. TargetInv'
  BY <1>1 DEF ReaderInv, TargetInv, Confirms
<1> QED
  BY <1>2, <1>3, TablesKeptGood

LEMMA BrandClientGood == Inv /\ Inv' /\ ReaderInv /\ BrandClient => Good
<1> SUFFICES ASSUME Inv, Inv', ReaderInv, BrandClient PROVE Good
  OBVIOUS
<1>1. /\ run.phase = "brand" /\ nextId \in Nat
      /\ UNCHANGED <<clock, rows, index, deletedAt, nextId>>
      /\ run' = [run EXCEPT !.phase = "put"] /\ run \in RunSet
  BY DEF BrandClient, tables, Inv, TypeOK
<1>2. /\ run'.phase = "put" /\ run'.target = run.target
      /\ run'.started = run.started /\ run'.now = run.now
  BY <1>1 DEF RunSet
<1>3. TablesKept /\ TimesStep /\ ClaimsNothing /\ CleanInv'
  BY <1>1, <1>2 DEF TablesKept, TimesStep, ClaimsNothing, CleanInv, Working
<1>4. TargetInv'
  BY <1>1, <1>2 DEF ReaderInv, TargetInv
<1> QED
  BY <1>3, <1>4, TablesKeptGood

LEMMA UpdateCallbacksGood == Inv /\ Inv' /\ ReaderInv /\ UpdateCallbacks => Good
<1> SUFFICES ASSUME Inv, Inv', ReaderInv, UpdateCallbacks PROVE Good
  OBVIOUS
<1>1. /\ run.phase = "update" /\ nextId \in Nat /\ PlansSameClient
      /\ UNCHANGED <<clock, rows, index, deletedAt, nextId>>
      /\ run' = [run EXCEPT !.phase = "put"] /\ run \in RunSet
  BY DEF UpdateCallbacks, tables, Inv, TypeOK, PlanInv
<1>2. /\ run'.phase = "put" /\ run'.target = run.target /\ run'.url = run.url
      /\ run'.retire = run.retire /\ run'.started = run.started /\ run'.now = run.now
  BY <1>1 DEF RunSet
<1>3. PlansSameClient'
  BY <1>1, <1>2 DEF PlansSameClient
<1>4. TablesKept /\ TimesStep /\ ClaimsNothing /\ CleanInv'
  BY <1>1, <1>2, <1>3 DEF TablesKept, TimesStep, ClaimsNothing, CleanInv, Working
<1>5. TargetInv'
  BY <1>1, <1>2 DEF ReaderInv, TargetInv
<1> QED
  BY <1>4, <1>5, TablesKeptGood

LEMMA EnsureBrandingGood == Inv /\ Inv' /\ ReaderInv /\ EnsureBranding => Good
<1> SUFFICES ASSUME Inv, Inv', ReaderInv, EnsureBranding PROVE Good
  OBVIOUS
<1>1. /\ run.phase = "ensure" /\ run.verdict \in BOOLEAN
      /\ UNCHANGED <<clock, rows, index, deletedAt, nextId>> /\ nextId \in Nat
      /\ run' = Raise \/ run' = Return(run.verdict)
  BY DEF EnsureBranding, tables, Inv, TypeOK, RunSet
<1>2. TablesKept
  BY <1>1 DEF TablesKept
<1> QED
  BY <1>1, <1>2, ReturnsGood

-----------------------------------------------------------------------------
(* Clean-ups, up to the deletion of the rows.                              *)

LEMMA CleaningGood ==
    ASSUME Inv, Inv', ReaderInv, TablesKept, run.phase # "idle", run'.started = run.started,
           run'.phase \in {"retire", "purge", "deleteClient", "deleteRows"}, CleanInv'
    PROVE  Good
<1>1. TimesStep /\ ClaimsNothing /\ TargetInv'
  BY DEF TimesStep, Working, ClaimsNothing, TargetInv
<1> QED
  BY <1>1, TablesKeptGood

LEMMA ScanRemovedGood == Inv /\ Inv' /\ ReaderInv /\ ScanRemoved => Good
<1> SUFFICES ASSUME Inv, Inv', ReaderInv, ScanRemoved PROVE Good
  OBVIOUS
<1> DEFINE ks == {u \in Urls \ run.allow : Enabled(u)}
           scan == KeyIds(ks)
<1>1. /\ TablesKept /\ run \in RunSet /\ TypeOK /\ run.phase = "next"
      /\ run' = [run EXCEPT !.phase = "retire", !.now = clock, !.scan = scan]
  BY Untouched DEF ScanRemoved, Inv, TypeOK
<1>2. \A c \in scan : rows[c.key].enabled
  <2>1. ks \in SUBSET RowKeys /\ \A k \in ks : rows[k].enabled
    BY IdsFacts DEF Enabled
  <2> HIDE DEF ks
  <2> QED
    BY <1>1, <2>1, KeyIdsFacts
<1> HIDE DEF scan
<1>3. run'.phase = "retire" /\ run'.scan = scan /\ run'.started = run.started
  BY <1>1 DEF RunSet
<1>4. CleanInv'
  BY <1>1, <1>2, <1>3 DEF CleanInv, TablesKept
<1> QED
  BY <1>1, <1>3, <1>4, CleaningGood

LEMMA ScanExpiredGood ==
    ScansAreConsistent /\ Inv /\ Inv' /\ ReaderInv /\ ScanExpired => Good
<1> SUFFICES ASSUME ScansAreConsistent, Inv, Inv', ReaderInv, ScanExpired PROVE Good
  OBVIOUS
<1> DEFINE scan == Scanned(rows)
<1>1. /\ TablesKept /\ run \in RunSet /\ run.phase = "retire"
      /\ run' = [run EXCEPT !.phase = "purge", !.now = clock, !.scan = scan]
  BY Untouched DEF ScanExpired, ScansAreConsistent, Inv, TypeOK
<1>2. \A c \in scan : ~rows[c.key].enabled
  BY DEF Scanned, Expired
<1> HIDE DEF scan
<1>3. run'.phase = "purge" /\ run'.scan = scan /\ run'.started = run.started
  BY <1>1 DEF RunSet
<1>4. CleanInv'
  BY <1>1, <1>2, <1>3 DEF CleanInv, TablesKept
<1> QED
  BY <1>1, <1>3, <1>4, CleaningGood

LEMMA DeletingGood ==
    Inv /\ Inv' /\ ReaderInv /\ (DeleteClient \/ \E c \in run.scan : DeleteBranding(c)) => Good
<1> SUFFICES ASSUME Inv, Inv', ReaderInv, DeleteClient \/ \E c \in run.scan : DeleteBranding(c)
             PROVE  Good
  OBVIOUS
<1>1. /\ UNCHANGED <<clock, rows, index, deletedAt, nextId>> /\ nextId \in Nat
      /\ run.phase \in {"purge", "deleteClient"} /\ run \in RunSet
  BY DEF DeleteClient, DeleteBranding, tables, Inv, TypeOK
<1>2. /\ run'.phase \in {"deleteClient", "deleteRows"} /\ run'.scan = run.scan
      /\ run'.started = run.started
  BY <1>1 DEF DeleteClient, DeleteBranding, RunSet
<1>3. TablesKept /\ CleanInv'
  BY <1>1, <1>2 DEF TablesKept, ReaderInv, CleanInv
<1> QED
  BY <1>1, <1>2, <1>3, CleaningGood

-----------------------------------------------------------------------------
(* The transaction.                                                        *)

LEMMA ReadableFacts ==
    ASSUME NEW row \in RowSet
    PROVE  /\ Readable(row) # None
           /\ Readable(row).id = row.id /\ Readable(row).enabled = row.enabled
           /\ Readable(row).fetchedAt = row.fetchedAt /\ Readable(row).cacheUntil = row.cacheUntil
<1>1. Readable(row) \in ReadableSet
  BY DEF Readable, ReadableSet, RowSet
<1> QED
  BY <1>1, ReadableAssumption DEF Readable

LEMMA KnownFacts ==
    ASSUME TypeOK, NEW u \in Urls
    PROVE  /\ Readers!Known(u) <=> rows[u] # None
           /\ rows[u] # None => /\ rows[u] \in RowSet /\ Mapping[u] = Readable(rows[u])
                                /\ Mapping[u].id = rows[u].id
                                /\ Mapping[u].enabled = rows[u].enabled
                                /\ Mapping[u].fetchedAt = rows[u].fetchedAt
<1>1. rows[u] # None => rows[u] \in RowSet
  BY IdsFacts DEF TypeOK
<1> QED
  BY <1>1, ReadableFacts DEF Readers!Known, Mapping, Stored

LEMMA PutClientShown ==
    ASSUME TypeOK, NEW u \in Urls, NEW row \in RowSet, NEW retire \in Ids \cup {None}, NEW when,
           PutClient(u, row, retire, when)
    PROVE  /\ \A w \in Urls : rows'[w] = IF w = u THEN row ELSE rows[w]
           /\ Mapping' = [Mapping EXCEPT ![u] = Readable(row)]
           /\ Accepted' = (Accepted \ {row.id, retire}) \cup (IF row.enabled THEN {row.id} ELSE {})
<1>1. \A w \in Urls : rows'[w] = IF w = u THEN row ELSE rows[w]
  BY IdsFacts DEF PutClient
<1>2. row # None
  BY NoneAssumption
<1>3. Mapping' = [Mapping EXCEPT ![u] = Readable(row)]
  BY <1>1, <1>2 DEF Mapping, Stored
<1>4. ASSUME NEW i \in Ids
      PROVE  index'[i] # None /\ index'[i].enabled
                <=> \/ i = row.id /\ row.enabled
                    \/ i # row.id /\ i # retire /\ index[i] # None /\ index[i].enabled
  <2>1. index'[i] = IF i = row.id THEN [key |-> u, enabled |-> row.enabled]
                    ELSE IF i = retire THEN [key |-> retire, enabled |-> FALSE] ELSE index[i]
    BY DEF PutClient
  <2>2. [key |-> u, enabled |-> row.enabled] \in IndexSet
    BY IdsFacts DEF IndexSet, RowSet
  <2>3. [key |-> u, enabled |-> row.enabled] # None
    BY <2>2, NoneAssumption
  <2> QED
    BY <2>1, <2>3
<1>5. row.id \in Ids
  BY DEF RowSet
<1>6. Accepted' = (Accepted \ {row.id, retire}) \cup (IF row.enabled THEN {row.id} ELSE {})
  BY <1>4, <1>5 DEF Accepted
<1> QED
  BY <1>1, <1>3, <1>6

(* The row goes to the client the URL has, or to a new one that is enabled.*)
LEMMA WriteShown ==
    ASSUME TypeOK, UNCHANGED clock, NEW u \in Urls, NEW row \in RowSet,
           NEW retire \in Ids \cup {None}, NEW when, PutClient(u, row, retire, when),
           \/ rows[u] # None /\ row.id = rows[u].id /\ retire = None
           \/ row.enabled /\ retire = IF rows[u] = None THEN None ELSE rows[u].id
    PROVE  Readers!Write(u, Readable(row)) /\ Mapping'[u] = Readable(row)
<1>1. /\ Mapping' = [Mapping EXCEPT ![u] = Readable(row)]
      /\ Accepted' = (Accepted \ {row.id, retire}) \cup (IF row.enabled THEN {row.id} ELSE {})
  BY PutClientShown
<1>2. Readable(row) # None /\ Readable(row).id = row.id /\ Readable(row).enabled = row.enabled
  BY ReadableFacts
<1> DEFINE gone == {Mapping[w].id : w \in {u} \cap {x \in Urls : Readers!Known(x)}}
<1>3. gone = IF rows[u] # None THEN {rows[u].id} ELSE {}
  BY KnownFacts
<1>4. None \notin Accepted
  BY IdsFacts DEF Accepted
<1>5. Accepted' = (Accepted \ gone)
                  \cup (IF Readable(row) # None /\ Readable(row).enabled THEN {Readable(row).id} ELSE {})
  <2> HIDE DEF gone
  <2> QED
    BY <1>1, <1>2, <1>3, <1>4
<1>6. Mapping'[u] = Readable(row)
  BY <1>1 DEF Mapping
<1> QED
  BY <1>1, <1>5, <1>6 DEF Readers!Write

LEMMA ReadableDisabled ==
    ASSUME NEW row \in RowSet, NEW until \in Time
    PROVE  Readable(Disabled(row, until)) = [Readable(row) EXCEPT !.enabled = FALSE]
<1> DEFINE no == FALSE
           off == Disabled(row, until)
           m == Readable(row)
           n == Readable(off)
<1>1. /\ off \in RowSet /\ off.id = row.id /\ off.enabled = no /\ no \in BOOLEAN
      /\ off.fetchedAt = row.fetchedAt /\ off.cacheUntil = row.cacheUntil /\ off.uris = row.uris
  BY DisabledType DEF Disabled, RowSet
<1> HIDE DEF no, off
<1>2. /\ m \in ReadableSet /\ m.id = row.id /\ m.fetchedAt = row.fetchedAt
      /\ m.cacheUntil = row.cacheUntil /\ m.uris = row.uris
  BY DEF Readable, ReadableSet, RowSet
<1>3. /\ n \in ReadableSet /\ n.id = row.id /\ n.fetchedAt = row.fetchedAt
      /\ n.cacheUntil = row.cacheUntil /\ n.uris = row.uris /\ n.enabled = no
  BY <1>1 DEF Readable, ReadableSet, RowSet
<1> HIDE DEF m, n
<1>4. n = [m EXCEPT !.enabled = no]
  BY <1>1, <1>2, <1>3 DEF ReadableSet
<1> QED
  BY <1>4 DEF m, n, no, off

LEMMA DisableShown ==
    ASSUME Inv, UNCHANGED <<clock, nextId, deletedAt>>, NEW u \in Urls,
           rows[u] # None, rows[u].enabled, NEW until \in Time, NEW when,
           PutClient(u, Disabled(rows[u], until), None, when),
           run.phase \in {"brand", "put"} => run.target.id = rows[u].id,
           run'.phase \notin {"brand", "put"}
    PROVE  /\ Refines
           /\ \A w \in Urls : rows'[w] = IF w = u THEN Disabled(rows[u], until) ELSE rows[w]
<1> DEFINE row == Disabled(rows[u], until)
<1>1. TypeOK /\ rows[u] \in RowSet /\ row \in RowSet /\ row.id = rows[u].id
  BY KnownFacts, DisabledType DEF Inv
<1>2. Readable(row) = [Readable(rows[u]) EXCEPT !.enabled = FALSE]
  BY <1>1, ReadableDisabled
<1> HIDE DEF row
<1>3. PutClient(u, row, None, when)
  BY DEF row
<1>4. /\ Readers!Write(u, Readable(row))
      /\ \A w \in Urls : rows'[w] = IF w = u THEN row ELSE rows[w]
  BY <1>1, <1>3, WriteShown, PutClientShown
<1>5. UNCHANGED Spent
  <2>1. \A w \in Urls : (Stored(w)' <=> Stored(w)) /\ (Stored(w) => rows'[w].id = rows[w].id)
    BY <1>1, <1>4, NoneAssumption DEF Stored
  <2> QED
    BY <2>1 DEF Spent, Stored
<1>6. Readers!Disable(u)
  BY <1>1, <1>2, <1>4, <1>5, KnownFacts DEF Readers!Disable
<1> QED
  BY <1>4, <1>6 DEF Refines, Readers!RegistrationNext, row

(* Outside a plan only the age of what is stored matters.                  *)
LEMMA TimesAfter ==
    ASSUME TimesInv, run.phase # "idle", ~Working', run'.started = run.started, clock' = clock,
           \A u \in Urls : Seen(u)' <= clock
    PROVE  TimesInv'
  BY DEF TimesInv

LEMMA RetireRemovedGood ==
    ASSUME NEW c \in run.scan
    PROVE  Inv /\ Inv' /\ ReaderInv /\ RetireRemoved(c) => Good
<1> SUFFICES ASSUME Inv, Inv', ReaderInv, RetireRemoved(c) PROVE Good
  OBVIOUS
<1> DEFINE u == c.key
           until == run.now + AccessLifetime
<1>1. /\ run.phase = "retire" /\ run \in RunSet /\ TypeOK
      /\ PutClient(u, Disabled(rows[u], until), None, None)
      /\ run' = [run EXCEPT !.scan = @ \ {c}]
      /\ UNCHANGED <<clock, nextId, deletedAt>>
      /\ u \in Urls /\ rows[u] # None /\ rows[u].id = c.id /\ rows[u].enabled
      /\ \A d \in run.scan : rows[d.key].id = d.id /\ rows[d.key].enabled
                             /\ d.key \in Urls /\ d = [key |-> d.key, id |-> d.id]
  BY DEF RetireRemoved, userPool, Inv, TypeOK, ScanInv, ReaderInv, CleanInv, RunSet, Scans
<1>2. /\ run'.phase = "retire" /\ run'.started = run.started /\ run'.scan = run.scan \ {c}
  BY <1>1 DEF RunSet
<1>3. until \in Time
  BY <1>1, ConstantsAssumption DEF Time, RunSet
<1> HIDE DEF until
<1>4. /\ Refines
      /\ \A w \in Urls : rows'[w] = IF w = u THEN Disabled(rows[u], until) ELSE rows[w]
  BY <1>1, <1>2, <1>3, DisableShown
<1>5. \A w \in Urls : Seen(w)' = Seen(w)
  <2>1. rows[u] \in RowSet /\ Disabled(rows[u], until) \in RowSet
        /\ Disabled(rows[u], until).fetchedAt = rows[u].fetchedAt
    BY <1>1, <1>3, KnownFacts, DisabledType DEF Disabled, RowSet
  <2> QED
    BY <1>1, <1>4, <2>1, NoneAssumption DEF Seen, Stored
<1>6. TimesInv'
  BY <1>1, <1>2, <1>5, TimesAfter DEF ReaderInv, TimesInv, Working
<1>7. TargetInv' /\ CleanInv'
  BY <1>1, <1>2, <1>4 DEF TargetInv, CleanInv
<1> QED
  BY <1>4, <1>6, <1>7 DEF Good, ReaderInv

LEMMA PutEnds ==
    ASSUME Inv, Put
    PROVE  /\ run'.phase \in {"ensure", "next", "answer"} /\ run'.started = run.started
           /\ run' \in RunSet
<1>1. run \in RunSet /\ run.verdict \in BOOLEAN
  BY DEF Inv, TypeOK, RunSet
<1>2. CASE run' = Return(run.verdict)
  <2>1. run' \in RunSet /\ run'.phase \in {"next", "answer"}
    BY <1>1, <1>2, ReturnShape
  <2>2. run'.started = run.started
    BY <1>1, <1>2 DEF Return, RunSet
  <2> QED
    BY <2>1, <2>2
<1>3. CASE run' = [run EXCEPT !.phase = "ensure", !.target = None, !.retire = None]
  BY <1>1, <1>3 DEF RunSet, Phases, Plans
<1> QED
  BY <1>2, <1>3 DEF Put

(* The fetch that confirms the written row was made by this invocation,    *)
(* and no earlier than the fetch that the URL's client rests on.           *)
LEMMA PutFetched ==
    ASSUME Inv, ReaderInv, run.phase = "put", Confirms(run.target, run.now), run.target \in RowSet
    PROVE  LET m == Readable(run.target)
           IN  Readers!RecentlyFetched(m) /\ \A u \in Urls : Seen(u) <= m.fetchedAt
<1>1. /\ run.started \in Nat /\ run.now \in Nat /\ clock \in Nat
      /\ RunLimit \in Nat /\ CacheMax \in Nat
  BY ConstantsAssumption DEF Inv, TypeOK, RunSet
<1>2. /\ run.started <= run.now /\ run.now <= clock /\ clock <= run.started + RunLimit
      /\ \A u \in Urls : Seen(u) <= run.now
  BY DEF ReaderInv, TimesInv, Working
<1>3. /\ Readable(run.target).fetchedAt = run.now
      /\ Readable(run.target).cacheUntil \in run.now .. (run.now + CacheMax)
  BY ReadableFacts DEF Confirms
<1>4. run.now \in (clock - RunLimit) .. clock
  BY <1>1, <1>2
<1> QED
  BY <1>2, <1>3, <1>4 DEF Readers!RecentlyFetched

(* The plan is the disabling of the URL's client, its refresh, or a new    *)
(* client, for a URL that has none or in the place of the one it has.      *)
LEMMA PutRefines ==
    ASSUME ScansAreConsistent, Inv, ReaderInv, Put
    PROVE  Refines /\ \A u \in Urls : Seen(u)' <= clock
<1> DEFINE u == run.url
           row == run.target
           when == run.now + AccessLifetime
<1>1. /\ run.phase = "put" /\ u \in Urls /\ TypeOK /\ IdsInv /\ ReadersAgree
      /\ PutClient(u, row, run.retire, when)
      /\ UNCHANGED <<clock, deletedAt, nextId>> /\ clock \in Nat
      /\ PlansNewClient \/ PlansSameClient
      /\ Disables \/ (Confirms(row, run.now) /\ (row.enabled \/ KeepsEnabled))
  BY DEF Put, userPool, Inv, TypeOK, PlanInv, ReaderInv, TargetInv
<1>2. /\ run \in RunSet /\ row \in PlanSet /\ run'.phase \notin {"brand", "put"}
      /\ rows[u] # None => rows[u] \in RowSet /\ rows[u].id \in Ids
  BY <1>1, TargetFacts, PutEnds
<1>3. row \in RowSet /\ run.retire \in Ids \cup {None}
  <2>1. row.id \in Ids
    BY <1>1, <1>2 DEF PlansNewClient, PlansSameClient
  <2> QED
    BY <1>2, <2>1 DEF PlanSet, RowSet, RunSet
<1>4. \A w \in Urls : Seen(w) <= clock
  BY DEF ReaderInv, TimesInv
<1>5. CASE Disables
  <2>1. /\ row = Disabled(rows[u], None) /\ rows[u] # None /\ rows[u].enabled
        /\ run.retire = None /\ row.id = rows[u].id /\ None \in Time
    BY <1>5 DEF Disables, PlansSameClient, Time
  <2>2. /\ Refines
        /\ \A w \in Urls : rows'[w] = IF w = u THEN row ELSE rows[w]
    <3>1. /\ PutClient(u, Disabled(rows[u], None), None, when)
          /\ run.target.id = rows[u].id
      BY <1>1, <2>1
    <3>2. /\ Refines
          /\ \A w \in Urls : rows'[w] = IF w = u THEN Disabled(rows[u], None) ELSE rows[w]
      <4> HIDE DEF u, row, when
      <4> QED
        BY <1>1, <1>2, <2>1, <3>1, DisableShown
    <3> QED
      BY <2>1, <3>2
  <2>3. row.fetchedAt = rows[u].fetchedAt
    BY <1>2, <2>1 DEF Disabled, RowSet
  <2> QED
    BY <1>1, <1>3, <1>4, <2>1, <2>2, <2>3, NoneAssumption DEF Seen, Stored
<1>6. CASE ~Disables
  <2> DEFINE m == Readable(row)
  <2>1. Confirms(row, run.now) /\ (row.enabled \/ KeepsEnabled)
    BY <1>1, <1>6
  <2>2. /\ Readers!RecentlyFetched(m) /\ \A w \in Urls : Seen(w) <= m.fetchedAt
    BY <1>1, <1>3, <2>1, PutFetched
  <2>3. /\ m # None /\ m.id = row.id /\ m.enabled = row.enabled /\ m.fetchedAt = row.fetchedAt
    BY <1>3, ReadableFacts
  <2>4. /\ \A w \in Urls : rows'[w] = IF w = u THEN row ELSE rows[w]
    BY <1>1, <1>3, PutClientShown
  <2>5. ASSUME NEW w \in Urls
        PROVE  Seen(w)' <= clock
    <3>1. row.fetchedAt <= clock
      BY <1>1, <2>1 DEF Confirms, ReaderInv, TimesInv, Working
    <3> QED
      BY <1>1, <1>3, <1>4, <2>4, <3>1, NoneAssumption DEF Seen, Stored
  <2> HIDE DEF m
  <2>6. CASE PlansSameClient
    <3>1. rows[u] # None /\ row.id = rows[u].id /\ run.retire = None
      BY <2>6 DEF PlansSameClient
    <3>2. Readers!Write(u, m) /\ Mapping'[u] = m
      BY <1>1, <1>3, <3>1, WriteShown DEF m
    <3>3. UNCHANGED Spent
      <4>1. \A w \in Urls : (Stored(w)' <=> Stored(w)) /\ (Stored(w) => rows'[w].id = rows[w].id)
        BY <1>3, <2>4, <3>1, NoneAssumption DEF Stored
      <4> QED
        BY <1>1, <1>2, <3>1, <4>1 DEF Spent, Stored
    <3>4. /\ Readers!Known(u) /\ m.id = Mapping[u].id /\ (Mapping[u].enabled => m.enabled)
          /\ m.fetchedAt >= Mapping[u].fetchedAt
      <4>1. rows[u].enabled => row.enabled
        BY <2>1 DEF KeepsEnabled
      <4>2. rows[u].fetchedAt \in Nat /\ m.fetchedAt \in Nat /\ rows[u].fetchedAt <= m.fetchedAt
        BY <1>1, <1>2, <1>3, <2>2, <2>3, <3>1 DEF Seen, Stored, RowSet
      <4> QED
        BY <1>1, <2>3, <3>1, <4>1, <4>2, KnownFacts
    <3>5. Readers!Refresh(u, m)
      BY <1>1, <2>2, <3>2, <3>3, <3>4 DEF Readers!Refresh
    <3> QED
      BY <1>1, <2>3, <2>5, <3>2, <3>5 DEF Refines, Readers!RegistrationNext, Readers!Confirm
  <2>7. CASE PlansNewClient /\ ~PlansSameClient
    <3>1. /\ row.id \in Ids /\ row.id < nextId /\ index[row.id] = None
          /\ run.retire = IF rows[u] = None THEN None ELSE rows[u].id
          /\ m.enabled
      BY <2>1, <2>3, <2>7 DEF PlansNewClient, RetiresStored, KeepsEnabled
    <3>2. Readers!Write(u, m) /\ Mapping'[u] = m
      BY <1>1, <1>3, <2>3, <3>1, WriteShown DEF m
    <3>3. \A w \in Urls : rows[w] # None => /\ rows[w].id # row.id /\ rows[w].id \in Ids
                                            /\ index[rows[w].id].key = w
      <4> SUFFICES ASSUME NEW w \in Urls, rows[w] # None
                   PROVE  /\ rows[w].id # row.id /\ rows[w].id \in Ids
                          /\ index[rows[w].id].key = w
        OBVIOUS
      <4>1. /\ rows[w] \in RowSet /\ rows[w].id \in Ids /\ rows[w].enabled \in BOOLEAN
        BY <1>1, KnownFacts DEF RowSet
      <4>2. index[rows[w].id] = [key |-> w, enabled |-> rows[w].enabled]
        BY <1>1, IdsFacts DEF ReadersAgree
      <4>3. [key |-> w, enabled |-> rows[w].enabled] \in IndexSet
        BY <4>1, IdsFacts DEF IndexSet
      <4> QED
        BY <3>1, <4>1, <4>2, <4>3, NoneAssumption
    <3>4. Readers!New(m)
      <4>1. row.id \notin Spent
        BY <1>1 DEF Spent
      <4>2. \A w \in Urls : Readers!Known(w) => Mapping[w].id # row.id
        BY <1>1, <3>3, KnownFacts
      <4> QED
        BY <2>3, <3>1, <4>1, <4>2 DEF Readers!New
    <3>5. Spent' = Spent \cup {rows[w].id : w \in {u} \cap {x \in Urls : rows[x] # None}}
      <4>1. ASSUME NEW i \in Ids
            PROVE  i \in Spent' <=> i \in Spent \/ (rows[u] # None /\ i = rows[u].id)
        <5>1. i \in Spent' <=> i < nextId /\ \A w \in Urls : rows'[w] # None => rows'[w].id # i
          BY <1>1, <1>2 DEF Spent, Stored
        <5>2. i \in Spent <=> /\ i < nextId /\ i # row.id
                              /\ \A w \in Urls : rows[w] # None => rows[w].id # i
          BY <1>1 DEF Spent, Stored
        <5>3. row # None
          BY <1>3, NoneAssumption
        <5>4. CASE rows[u] = None
          BY <1>1, <2>4, <5>1, <5>2, <5>3, <5>4
        <5>5. CASE rows[u] # None /\ i # rows[u].id
          BY <1>1, <2>4, <5>1, <5>2, <5>3, <5>5
        <5>6. CASE rows[u] # None /\ i = rows[u].id
          <6>1. i < nextId
            BY <1>1, <5>6, IdsFacts DEF IdsInv
          <6>2. i # row.id /\ \A w \in Urls : rows[w] # None /\ w # u => rows[w].id # i
            BY <1>1, <3>3, <5>6
          <6> QED
            BY <1>1, <2>4, <5>1, <5>3, <5>6, <6>1, <6>2
        <5> QED
          BY <5>4, <5>5, <5>6
      <4>2. Spent \subseteq Ids /\ Spent' \subseteq Ids
        BY DEF Spent
      <4> QED
        BY <1>1, <1>2, <4>1, <4>2
    <3>6. CASE rows[u] = None
      <4>1. ~Readers!Known(u) /\ m.fetchedAt >= deletedAt[u]
        <5>1. deletedAt[u] <= m.fetchedAt /\ deletedAt[u] \in Nat /\ m.fetchedAt \in Nat
          BY <1>1, <1>3, <2>2, <2>3, <3>6 DEF Seen, Stored, TypeOK, RowSet
        <5> QED
          BY <1>1, <3>6, <5>1, KnownFacts
      <4>2. UNCHANGED Spent
        BY <3>5, <3>6
      <4>3. Readers!Register(u, m)
        BY <1>1, <2>2, <3>1, <3>2, <3>4, <4>1, <4>2 DEF Readers!Register
      <4> QED
        BY <1>1, <2>3, <2>5, <3>2, <4>3 DEF Refines, Readers!RegistrationNext, Readers!Confirm
    <3>7. CASE rows[u] # None
      <4>1. /\ Readers!Known(u) /\ m.fetchedAt >= Mapping[u].fetchedAt
            /\ Mapping[u].id = rows[u].id
        <5>1. rows[u].fetchedAt \in Nat /\ m.fetchedAt \in Nat /\ rows[u].fetchedAt <= m.fetchedAt
          BY <1>1, <1>2, <1>3, <2>2, <2>3, <3>7 DEF Seen, Stored, RowSet
        <5> QED
          BY <1>1, <3>7, <5>1, KnownFacts
      <4>2. Spent' = Spent \cup {Mapping[u].id}
        BY <1>1, <3>5, <3>7, <4>1
      <4>3. Readers!Rotate(u, m)
        BY <1>1, <2>2, <3>1, <3>2, <3>4, <4>1, <4>2 DEF Readers!Rotate
      <4> QED
        BY <1>1, <2>3, <2>5, <3>2, <4>3 DEF Refines, Readers!RegistrationNext, Readers!Confirm
    <3> QED
      BY <3>6, <3>7
  <2> QED
    BY <1>1, <2>6, <2>7
<1> QED
  BY <1>5, <1>6

LEMMA PutGood == ScansAreConsistent /\ Inv /\ Inv' /\ ReaderInv /\ Put => Good
<1> SUFFICES ASSUME ScansAreConsistent, Inv, Inv', ReaderInv, Put PROVE Good
  OBVIOUS
<1>1. run.phase = "put" /\ clock' = clock
  BY DEF Put
<1>2. run'.phase \in {"ensure", "next", "answer"} /\ run'.started = run.started
  BY PutEnds
<1>3. TimesInv'
  BY <1>1, <1>2, PutRefines, TimesAfter DEF ReaderInv, Working
<1>4. TargetInv' /\ CleanInv'
  BY <1>2 DEF TargetInv, CleanInv
<1> QED
  BY <1>3, <1>4, PutRefines DEF Good, ReaderInv

-----------------------------------------------------------------------------
(* The deletion of the rows, and the theorem.                              *)

LEMMA DeleteClientRowsGood ==
    ScansAreConsistent /\ Inv /\ Inv' /\ ReaderInv /\ DeleteClientRows => Good
<1> SUFFICES ASSUME ScansAreConsistent, Inv, Inv', ReaderInv, DeleteClientRows PROVE Good
  OBVIOUS
<1> DEFINE k == run.url
           i == run.retire
           c == [key |-> k, id |-> i]
<1>1. /\ run.phase = "deleteRows" /\ run \in RunSet /\ TypeOK /\ ReadersAgree /\ IdsInv
      /\ rows' = [rows EXCEPT ![k] = None] /\ index' = [index EXCEPT ![i] = None]
      /\ deletedAt' = [u \in Urls |-> IF u = k THEN clock ELSE deletedAt[u]]
      /\ run' = [run EXCEPT !.phase = "purge", !.url = None, !.retire = None, !.scan = @ \ {c}]
      /\ UNCHANGED <<clock, nextId>> /\ clock \in Nat
      /\ k \in RowKeys /\ i \in Ids
  BY DEF DeleteClientRows, userPool, Inv, TypeOK, ScanInv
<1>2. /\ c \in run.scan /\ rows[k] # None /\ rows[k].id = i /\ ~rows[k].enabled
      /\ \A d \in run.scan : /\ rows[d.key].id = d.id /\ ~rows[d.key].enabled
                             /\ d = [key |-> d.key, id |-> d.id] /\ d.key \in RowKeys
  <2>1. c \in run.scan /\ \A d \in run.scan : /\ rows[d.key] # None /\ rows[d.key].id = d.id
                                              /\ ~rows[d.key].enabled
    BY <1>1 DEF Inv, PurgeInv, ReaderInv, CleanInv
  <2>2. \A d \in run.scan : d = [key |-> d.key, id |-> d.id] /\ d.key \in RowKeys
    BY <1>1 DEF RunSet, Scans
  <2> QED
    BY <2>1, <2>2
<1>3. run'.phase = "purge" /\ run'.started = run.started /\ run'.scan = run.scan \ {c}
  <2>1. run'.phase = "purge" /\ run'.started = run.started
    BY <1>1, ZenonT(60) DEF RunSet
  <2>2. run'.scan = run.scan \ {c}
    BY <1>1, ZenonT(60) DEF RunSet
  <2> QED
    BY <2>1, <2>2
<1>4. CleanInv'
  <2>1. \A d \in run.scan \ {c} : d.key # k
    BY <1>2
  <2>2. \A d \in run.scan \ {c} : ~rows'[d.key].enabled
    BY <1>1, <1>2, <2>1 DEF TypeOK
  <2> QED
    BY <1>3, <2>2 DEF CleanInv
<1>5. TimesInv'
  <2>1. \A u \in Urls : Seen(u) <= clock
    BY DEF ReaderInv, TimesInv
  <2>2. \A u \in Urls : Seen(u)' <= clock
    BY <1>1, <2>1, IdsFacts DEF Seen, Stored, TypeOK
  <2> QED
    BY <1>1, <1>3, <2>2, TimesAfter DEF ReaderInv, Working
<1>6. TargetInv'
  BY <1>3 DEF TargetInv
<1>7. i \notin Accepted /\ Accepted' = Accepted
  <2>1. index[i] = [key |-> k, enabled |-> rows[k].enabled] /\ index[i].enabled = rows[k].enabled
    BY <1>1, <1>2 DEF ReadersAgree
  <2>2. i \notin Accepted
    BY <1>2, <2>1 DEF Accepted
  <2> QED
    BY <1>1, <2>2 DEF Accepted, TypeOK
<1>8. CASE k \in Urls
  <2>1. /\ Readers!Known(k) /\ Mapping[k].id = i /\ ~Mapping[k].enabled
    BY <1>1, <1>2, <1>8, KnownFacts
  <2>2. Mapping' = [Mapping EXCEPT ![k] = None]
    BY <1>1, <1>8, IdsFacts DEF Mapping, Stored, TypeOK
  <2>3. Readers!Write(k, None)
    BY <1>1, <1>7, <2>1, <2>2 DEF Readers!Write
  <2>4. \A w \in Urls : w # k /\ rows[w] # None => rows[w].id # i
    <3> SUFFICES ASSUME NEW w \in Urls, w # k, rows[w] # None, rows[w].id = i PROVE FALSE
      OBVIOUS
    <3>1. /\ index[i] = [key |-> k, enabled |-> rows[k].enabled]
          /\ index[i] = [key |-> w, enabled |-> rows[w].enabled]
      BY <1>1, <1>2, IdsFacts DEF ReadersAgree
    <3> QED
      BY <3>1
  <2>5. Spent' = Spent \cup {Mapping[k].id}
    <3>1. i < nextId
      BY <1>1, <1>2 DEF IdsInv
    <3>2. ASSUME NEW j \in Ids
          PROVE  j \in Spent' <=> j \in Spent \/ j = i
      <4>1. j \in Spent' <=> j < nextId /\ \A w \in Urls : rows'[w] # None => rows'[w].id # j
        BY <1>1, <1>3 DEF Spent, Stored
      <4>2. j \in Spent <=> j < nextId /\ \A w \in Urls : rows[w] # None => rows[w].id # j
        BY <1>1 DEF Spent, Stored
      <4>3. \A w \in Urls : rows'[w] = IF w = k THEN None ELSE rows[w]
        BY <1>1, IdsFacts DEF TypeOK
      <4> QED
        BY <1>2, <1>8, <2>4, <3>1, <4>1, <4>2, <4>3
    <3>3. Spent \subseteq Ids /\ Spent' \subseteq Ids
      BY DEF Spent
    <3> QED
      BY <1>1, <2>1, <3>2, <3>3
  <2>6. deletedAt' = [deletedAt EXCEPT ![k] = clock]
    BY <1>1 DEF TypeOK
  <2>7. Readers!Delete(k)
    BY <2>1, <2>3, <2>5, <2>6 DEF Readers!Delete
  <2> QED
    BY <1>4, <1>5, <1>6, <1>8, <2>7 DEF Good, ReaderInv, Refines, Readers!RegistrationNext
<1>9. CASE k \notin Urls
  <2>1. \A w \in Urls : rows'[w] = rows[w]
    BY <1>1, <1>9, IdsFacts DEF TypeOK
  <2>2. UNCHANGED Mapping /\ UNCHANGED Spent
    BY <1>1, <1>3, <2>1 DEF Mapping, Spent, Stored
  <2>3. UNCHANGED deletedAt
    BY <1>1, <1>9 DEF TypeOK
  <2>4. UNCHANGED <<clock, Readers!registration>>
    BY <1>1, <1>7, <2>2, <2>3 DEF Readers!registration
  <2> QED
    BY <1>4, <1>5, <1>6, <2>4 DEF Good, ReaderInv, Refines
<1> QED
  BY <1>8, <1>9

LEMMA InitReads == Init => ReaderInv /\ Readers!RegistrationInit
<1> SUFFICES ASSUME Init PROVE ReaderInv /\ Readers!RegistrationInit
  OBVIOUS
<1>1. /\ clock = 0 /\ run.phase = "idle" /\ nextId = 1
      /\ \A k \in RowKeys : rows[k] = None
      /\ \A u \in Urls : deletedAt[u] = 0
      /\ \A i \in Ids : index[i] = None
  BY DEF Init, Idle
<1>2. ReaderInv
  BY <1>1, IdsFacts DEF ReaderInv, TimesInv, TargetInv, CleanInv, Working, Seen, Stored
<1>3. Mapping = [u \in Urls |-> None] /\ Accepted = {} /\ Spent = {}
  <2>1. \A u \in Urls : ~Stored(u)
    BY <1>1, IdsFacts DEF Stored
  <2>2. Mapping = [u \in Urls |-> None]
    BY <2>1 DEF Mapping
  <2>3. Accepted = {}
    BY <1>1 DEF Accepted
  <2>4. \A i \in Ids : ~(i < nextId)
    BY <1>1, IdsFacts
  <2>5. Spent = {}
    BY <2>4 DEF Spent
  <2> QED
    BY <2>2, <2>3, <2>5
<1>4. Readers!RegistrationInit
  BY <1>1, <1>3 DEF Init, Readers!RegistrationInit
<1> QED
  BY <1>2, <1>4

LEMMA NextReads ==
    ScansAreConsistent /\ StackIsKept /\ Inv /\ Inv' /\ ReaderInv /\ [Next]_vars => Good
<1> SUFFICES ASSUME ScansAreConsistent, StackIsKept, Inv, Inv', ReaderInv, [Next]_vars PROVE Good
  OBVIOUS
<1>1. CASE Tick \/ Environment
  BY <1>1, TickGood, EnvironmentGood
<1>2. CASE BeginDelete \/ (\E kind \in Kinds : BeginRun(kind)) \/ (\E u \in Urls : BeginRevalidate(u))
  BY <1>2, BeginRunGood, BeginRevalidateGood DEF BeginDelete, StackIsKept
<1>3. CASE \E u \in Urls : Reconcile(u)
  BY <1>3, SkipCachedGood, FetchFailedGood, FetchRaisesGood, NotModifiedGood,
     FetchedUnacceptableGood, ModifiedGood DEF Reconcile
<1>4. CASE KeysValidated \/ KeysUnavailable \/ KeysRaise \/ CreateClient \/ BrandClient
           \/ UpdateCallbacks \/ Put \/ EnsureBranding
  BY <1>4, KeysValidatedGood, KeysUnavailableGood, KeysRaiseGood, CreateClientGood,
     BrandClientGood, UpdateCallbacksGood, PutGood, EnsureBrandingGood
<1>5. CASE Answer \/ Finish \/ Killed \/ CallRaises \/ CreateReplyLost
  BY <1>5, OverGood, CallRaisesGood, CreateReplyLostGood
<1>6. CASE ScanRemoved \/ ScanExpired \/ DeleteClient \/ DeleteClientRows
           \/ \E c \in run.scan : RetireRemoved(c) \/ DeleteBranding(c)
  BY <1>6, ScanRemovedGood, ScanExpiredGood, DeletingGood, DeleteClientRowsGood, RetireRemovedGood
<1>7. CASE UNCHANGED vars
  BY <1>7, RunKeptGood DEF vars, tables, userPool
<1> QED
  BY <1>1, <1>2, <1>3, <1>4, <1>5, <1>6, <1>7 DEF Next, RunStep

(* Whatever is published, raises or is killed, the proxy and the verifier  *)
(* see nothing of the registrar but the steps of Registration, provided a  *)
(* purge sees the rows as they are and the stack is not destroyed.         *)
THEOREM RegistrarKeepsPromises ==
    ScansAreConsistent /\ StackIsKept => (Spec => KeepsPromises)
<1> SUFFICES ASSUME ScansAreConsistent, StackIsKept
             PROVE  Spec => KeepsPromises
  OBVIOUS
<1>1. Init => ReaderInv /\ Readers!RegistrationInit
  BY InitReads
<1>2. Inv /\ Inv' /\ ReaderInv /\ [Next]_vars
         => ReaderInv' /\ [Readers!RegistrationNext]_<<clock, Readers!registration>>
  BY NextReads DEF Good, Refines
<1> QED
  BY <1>1, <1>2, RegistrarInvariant, PTL DEF Spec, KeepsPromises, Readers!RegistrationSpec
=============================================================================
