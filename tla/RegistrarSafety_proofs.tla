----------------------- MODULE RegistrarSafety_proofs -----------------------
(***************************************************************************)
(* The safety properties of the registrar, for any URLs, documents, limits *)
(* and faults.  Each rests on an invariant of its own beside Inv; they     *)
(* share what is known of an invocation's round and of its draft, the row  *)
(* it is about to write.                                                   *)
(***************************************************************************)
EXTENDS RegistrarRefinement_proofs, FiniteSetTheorems

(* Every outage ends in a FetchError.                                      *)
OutagesAreFetchErrors == Broken \notin Outages

-----------------------------------------------------------------------------
(* An invocation's round.                                                  *)

Drafting == run.phase \in {"create", "brand", "update", "put"}
Purging == run.phase \in {"purge", "deleteClient", "deleteRows"}
Cleaning == Purging \/ run.phase = "retire"

RoundInv ==
    /\ run.phase # "idle" => run.started <= clock /\ clock <= run.started + RunLimit
    /\ Working \/ run.phase = "retire" => run.started <= run.now /\ run.now <= clock
    /\ run.todo \subseteq run.allow
    /\ Working \/ run.phase = "ensure" \/ run.kind = "revalidate" => run.url \in run.allow
    /\ run.phase = "answer" => run.kind = "revalidate"
    /\ run.kind = "revalidate" => ~Cleaning /\ (run.phase = "next" => run.url \in run.todo)
    /\ Cleaning => run.todo = {}

-----------------------------------------------------------------------------
(* The rows, and the draft of one.                                         *)

Sound(row) ==
    /\ row.cacheUntil <= row.fetchedAt + CacheMax
    /\ row.etag # None => row.etag.uris = row.uris
    /\ row.enabled => row.deleteAfter = None

RowInv == \A k \in RowKeys : rows[k] # None => Sound(rows[k])

(* The row rests on the document that this round has seen and accepted.    *)
SeenNow(row) ==
    /\ row.fetchedAt >= run.started
    /\ run.doc # None /\ row.uris = run.doc.uris
    /\ Acceptable(row.uris, run.strict)

(* A draft that disables, or that leaves disabled, keeps the client.       *)
KeepsDisabled ==
    /\ run.phase = "put" /\ PlansSameClient
    /\ run.target.deleteAfter \in {None, rows[run.url].deleteAfter}

(* A draft replaces a client with a cause, or has the same key material.   *)
Replaces ==
    /\ Stored(run.url)
    /\ run.phase # "create" => run.target.id # run.retire
    /\ run.target.fp # rows[run.url].fp \/ cognito[run.retire] = None

DraftInv ==
    /\ run.phase = "jwks" => Acceptable(run.doc.uris, run.strict)
    /\ Drafting =>
          /\ Sound(run.target)
          /\ run.target.enabled => run.target.fetchedAt = run.now
          /\ ~run.target.enabled => KeepsDisabled
          /\ run.retire # None => Replaces
          /\ run.retire = None /\ Stored(run.url) => run.target.fp = rows[run.url].fp
          /\ run.verdict /\ run.target.enabled => SeenNow(run.target)
    /\ run.phase \in {"ensure", "answer"} /\ run.verdict /\ Enabled(run.url)
          => SeenNow(rows[run.url])

SafeInv == RoundInv /\ RowInv /\ DraftInv

-----------------------------------------------------------------------------
(* What each property needs beside it.                                     *)

(* The URLs that a run has gone through are fresh enough or disabled.      *)
PassedInv ==
    faults = 0 /\ run.phase # "idle" /\ run.kind \notin {"delete", "revalidate"}
        => \A u \in run.allow \ run.todo :
              (Working => u # run.url) /\ Enabled(u) => run.started - rows[u].fetchedAt <= MaxStale

(* Whoever is enabled off the list is among those still to be retired.     *)
RemovedInv ==
    /\ run.phase = "retire"
          => \A u \in Urls \ run.allow : Enabled(u) => \E c \in run.scan : c.key = u
    /\ Purging /\ run.kind # "delete" => \A u \in Urls \ run.allow : ~Enabled(u)

(* A purge is about disabled rows whose time has come, and tokens outlive  *)
(* that time by no more than an invocation can last.                       *)
PurgedInv ==
    Purging /\ run.kind # "delete"
        => \A c \in run.scan : LET row == rows[c.key]
                               IN  ~row.enabled /\ row.deleteAfter # None /\ row.deleteAfter <= clock

TokenInv ==
    \A k \in RowKeys :
        rows[k] # None /\ rows[k].deleteAfter # None
            => tokenLife[rows[k].id] = 0 \/ tokenLife[rows[k].id] + clock <= rows[k].deleteAfter + RunLimit

(* Which clients of the user pool exist, with a login page, as long as     *)
(* nothing has failed.                                                     *)
Branded(i) == cognito[i] # None /\ (cognito[i].branded \/ faults > 0)

ExistInv ==
    /\ \A i \in Ids : index[i] # None /\ index[i].enabled => Branded(i)
    /\ run.phase \in {"update", "put"} /\ run.target.enabled => Branded(run.target.id)
    /\ \A k \in RowKeys :
          rows[k] # None /\ cognito[rows[k].id] # None
              => \/ Branded(rows[k].id)
                 \/ run.phase = "deleteClient" /\ run.retire = rows[k].id

(* Of the URLs that a run without an error has gone through, the enabled   *)
(* ones have a client with a login page, and so has a draft that no check  *)
(* of its login page follows.                                              *)
Whole(i) == cognito[i] # None /\ cognito[i].branded

Handling == Working \/ run.phase = "ensure"

RepairInv ==
    /\ run.phase # "idle" /\ ~Purging /\ run.kind # "revalidate" /\ ~run.errors
          => \A u \in run.allow \ run.todo :
                (Handling => u # run.url) /\ Enabled(u) => Whole(rows[u].id)
    /\ run.phase \in {"update", "put"} /\ run.target.enabled /\ run.after = "next"
          => Whole(run.target.id)

(* As long as nothing has failed, Cognito knows the redirect URIs of every *)
(* row, disabled ones too, and of a client that is about to get its row.   *)
CallbackInv ==
    faults = 0 =>
        /\ \A u \in Urls :
              Stored(u) /\ cognito[rows[u].id] # None
                  => \/ cognito[rows[u].id].uris = rows[u].uris
                     \/ run.phase = "put" /\ run.url = u
        /\ run.phase \in {"brand", "put"} /\ cognito[run.target.id] # None
              => cognito[run.target.id].uris = run.target.uris

(* A client deleted by a purge is gone before its rows are, so that their  *)
(* deletion leaves no orphan.                                              *)
OrphanInv ==
    /\ Cardinality(Orphans) <= faults
    /\ run.phase = "deleteRows" => cognito[run.retire] = None

-----------------------------------------------------------------------------
(* What a step does to an invocation, its round, its draft and its scan,   *)
(* whatever action takes it.                                               *)

TablesSame == UNCHANGED <<clock, rows, index, tokenLife>>
Quiet == TablesSame /\ UNCHANGED <<cognito, nextId, faults>>

SameRound ==
    /\ run'.kind = run.kind /\ run'.allow = run.allow /\ run'.strict = run.strict
    /\ run'.started = run.started
    /\ run.errors => run'.errors

(* _reconcile_url returns; a round that answers saw what the caller says.  *)
Leaves(todo, seen) ==
    /\ SameRound /\ run'.todo = todo
    /\ run'.verdict => seen
    /\ IF run.kind = "revalidate"
       THEN run'.phase = "answer" /\ run'.url = run.url /\ run'.doc = run.doc
       ELSE run'.phase = "next"

Takes(u) ==
    /\ run.phase = "next" /\ u \in run.todo
    /\ SameRound /\ run'.todo = run.todo \ {u} /\ run'.url = u

(* The cached entry is still good.                                         *)
Skips(u) ==
    /\ Quiet /\ Takes(u)
    /\ Enabled(u) /\ clock < rows[u].cacheUntil
    /\ run'.phase = "ensure" /\ ~run'.verdict

(* The URL is given up for this run.                                       *)
Passes(u) ==
    /\ Quiet /\ run.phase = "next" /\ u \in run.todo
    /\ ~Enabled(u) \/ clock - rows[u].fetchedAt <= MaxStale \/ web[u] = Broken
    /\ ~Enabled(u) \/ run'.errors
    /\ Leaves(run.todo \ {u}, FALSE)

(* The row of the URL is to be written back, confirmed or disabled.        *)
Redrafts(u, row) ==
    /\ Stored(u)
    /\ row.id = rows[u].id /\ row.fp = rows[u].fp /\ row.uris = rows[u].uris
    /\ Sound(row)
    /\ row.enabled => Enabled(u)
    /\ ~row.enabled => row.deleteAfter \in {None, rows[u].deleteAfter}

Replans(u) ==
    /\ Quiet /\ Takes(u)
    /\ run'.phase = "put" /\ run'.now = clock /\ run'.retire = None
    /\ Redrafts(u, run'.target)
    /\ run'.target.enabled => run'.target.fetchedAt = clock /\ run'.after = "ensure"
    /\ run'.verdict /\ run'.target.enabled => SeenNow(run.target)'

(* A new document, which the rules accept.                                 *)
Fetches(u) ==
    /\ Quiet /\ Takes(u)
    /\ run'.phase = "jwks" /\ run'.now = clock
    /\ Acceptable(run'.doc.uris, run.strict)

Considers(u) == Skips(u) \/ Passes(u) \/ Replans(u) \/ Fetches(u)

(* After a 200: a draft made from the document, or what keys that cannot   *)
(* be had lead to.                                                         *)
Rests(row) ==
    /\ Sound(row) /\ row.enabled /\ row.deleteAfter = None
    /\ row.fetchedAt = run.now /\ row.uris = run.doc.uris

Drafts ==
    /\ Quiet /\ run.phase = "jwks"
    /\ SameRound /\ run'.todo = run.todo /\ run'.url = run.url
    /\ run'.now = run.now /\ run'.doc = run.doc

DraftsNew ==
    /\ Drafts
    /\ run'.phase = "create" /\ Rests(run'.target)
    /\ \/ ~Stored(run.url) /\ run'.retire = None
       \/ /\ Stored(run.url) /\ run'.retire = rows[run.url].id
          /\ run'.target.fp # rows[run.url].fp \/ cognito[rows[run.url].id] = None

DraftsSame ==
    /\ Drafts
    /\ run'.phase \in {"update", "put"} /\ Rests(run'.target) /\ run'.retire = None
    /\ Stored(run.url) /\ cognito[rows[run.url].id] # None
    /\ run'.target.id = rows[run.url].id /\ run'.target.fp = rows[run.url].fp
    /\ run'.after = "ensure"
    /\ run'.phase = "put" => run'.target.uris = rows[run.url].uris

DraftsDisabled ==
    /\ Drafts
    /\ run'.phase = "put" /\ run'.retire = None
    /\ Redrafts(run.url, run'.target) /\ ~run'.target.enabled

KeysFail ==
    /\ Quiet /\ run.phase = "jwks"
    /\ ~Stored(run.url) \/ keys[run.url] = Broken
    /\ run'.errors
    /\ Leaves(run.todo, FALSE)

Reacts == DraftsNew \/ DraftsSame \/ DraftsDisabled \/ KeysFail

(* The calls to Cognito and the transaction.                               *)
OnlyClient(i) == \A j \in Ids \ {i} : cognito'[j] = cognito[j]

Carries ==
    /\ SameRound /\ run'.todo = run.todo /\ run'.url = run.url /\ run'.now = run.now
    /\ run'.doc = run.doc /\ run'.retire = run.retire /\ run'.verdict = run.verdict
    /\ run'.after = run.after

SameContent(row, other) ==
    /\ row.enabled = other.enabled /\ row.deleteAfter = other.deleteAfter
    /\ row.cacheUntil = other.cacheUntil /\ row.fetchedAt = other.fetchedAt
    /\ row.etag = other.etag /\ row.uris = other.uris /\ row.fp = other.fp

Creates ==
    /\ run.phase = "create" /\ run'.phase = "brand" /\ Carries
    /\ TablesSame /\ faults' = faults
    /\ nextId \in Ids /\ nextId' = nextId + 1
    /\ run'.target.id = nextId /\ SameContent(run'.target, run.target)
    /\ cognito'[nextId] # None /\ cognito'[nextId].uris = run.target.uris
    /\ OnlyClient(nextId)

Calls(i) ==
    /\ TablesSame /\ UNCHANGED <<nextId, faults>>
    /\ i \in Ids /\ cognito[i] # None /\ cognito'[i] # None /\ OnlyClient(i)

Brands ==
    /\ run.phase = "brand" /\ run'.phase = "put" /\ Carries /\ run'.target = run.target
    /\ Calls(run.target.id)
    /\ cognito'[run.target.id].branded
    /\ cognito'[run.target.id].uris = cognito[run.target.id].uris

Updates ==
    /\ run.phase = "update" /\ run'.phase = "put" /\ Carries /\ run'.target = run.target
    /\ Calls(run.target.id)
    /\ cognito'[run.target.id].branded = cognito[run.target.id].branded
    /\ cognito'[run.target.id].uris = run.target.uris

Puts ==
    /\ run.phase = "put"
    /\ PutClient(run.url, run.target, run.retire, run.now + AccessLifetime)
    /\ UNCHANGED <<clock, cognito, nextId, faults>>
    /\ \/ /\ run'.phase = "ensure" /\ SameRound
          /\ run'.todo = run.todo /\ run'.url = run.url /\ run'.doc = run.doc
          /\ run'.verdict = run.verdict
       \/ run.after = "next" /\ Leaves(run.todo, run.verdict)

Ensures ==
    /\ run.phase = "ensure"
    /\ Leaves(run.todo, run.verdict)
    /\ LET i == rows[run.url].id
       IN  \/ Quiet /\ run'.errors
           \/ Calls(i) /\ cognito'[i].branded /\ cognito'[i].uris = cognito[i].uris

Moves == Creates \/ Brands \/ Updates \/ Puts \/ Ensures

(* An invocation begins, is over, or is hit by a fault; and what happens   *)
(* outside of it.                                                          *)
Begins ==
    /\ Quiet /\ run.phase = "idle" /\ run'.phase = "next"
    /\ run'.started = clock /\ ~run'.verdict
    /\ \/ run'.kind \in {"deploy", "schedule"} /\ run'.todo = run'.allow
       \/ run'.kind = "revalidate" /\ run'.todo = {run'.url} /\ run'.url \in run'.allow

BeginsDelete ==
    /\ Quiet /\ run.phase = "idle" /\ run'.phase = "purge"
    /\ run'.started = clock /\ run'.kind = "delete" /\ "delete" \in Kinds /\ run'.todo = {}

Ends == Quiet /\ run.phase \in {"answer", "purge"} /\ run' = Idle

Fails ==
    /\ TablesSame /\ UNCHANGED <<cognito, nextId>> /\ faults' = faults + 1
    /\ \/ /\ run.phase \in {"jwks", "create", "brand", "update", "put", "ensure"}
          /\ run'.errors /\ Leaves(run.todo, FALSE)
       \/ /\ run.phase = "next"
          /\ run'.errors /\ \E u \in run.todo : Leaves(run.todo \ {u}, FALSE)
       \/ run.phase # "idle" /\ run' = Idle

(* A client is created of which nobody learns.                             *)
Strays ==
    /\ run.phase = "create" /\ run' = run /\ TablesSame /\ faults' = faults + 1
    /\ nextId \in Ids /\ nextId' = nextId + 1
    /\ cognito'[nextId] # None /\ OnlyClient(nextId)

Waits == Quiet /\ run' = run

(* The clean-up.                                                           *)
ScansRemoved ==
    /\ Quiet /\ run.phase = "next" /\ run.todo = {} /\ run'.phase = "retire"
    /\ SameRound /\ run'.todo = {} /\ run'.now = clock
    /\ \A u \in Urls \ run.allow : Enabled(u) => \E c \in run'.scan : c.key = u

Retires(c) ==
    /\ run.phase = "retire" /\ run'.phase = "retire"
    /\ c \in run.scan /\ run'.scan = run.scan \ {c}
    /\ SameRound /\ run'.todo = run.todo /\ run'.now = run.now
    /\ c.key \in Urls /\ rows[c.key] \in RowSet
    /\ PutClient(c.key, Disabled(rows[c.key], run.now + AccessLifetime), None, None)
    /\ UNCHANGED <<clock, cognito, nextId, faults>>

ScansExpired ==
    /\ Quiet /\ run.phase = "retire" /\ run.scan = {} /\ run'.phase = "purge"
    /\ SameRound /\ run'.todo = run.todo
    /\ ScansAreConsistent => \A c \in run'.scan : Expired(rows[c.key])

Deletes == SameRound /\ run'.todo = run.todo /\ faults' = faults /\ nextId' = nextId

DeletesBranding(c) ==
    /\ Deletes /\ TablesSame
    /\ run.phase = "purge" /\ run'.phase = "deleteClient"
    /\ c \in run.scan /\ run'.scan = run.scan /\ run'.url = c.key /\ run'.retire = c.id
    /\ cognito' = cognito \/ (Calls(c.id) /\ cognito'[c.id].uris = cognito[c.id].uris)

DeletesClient ==
    /\ Deletes /\ TablesSame
    /\ run.phase = "deleteClient" /\ run'.phase = "deleteRows"
    /\ run'.scan = run.scan /\ run'.url = run.url /\ run'.retire = run.retire
    /\ cognito' = [cognito EXCEPT ![run.retire] = None]

DeletesRows ==
    /\ Deletes /\ UNCHANGED <<clock, tokenLife, cognito>>
    /\ run.phase = "deleteRows" /\ run'.phase = "purge"
    /\ run'.scan = run.scan \ {[key |-> run.url, id |-> run.retire]}
    /\ rows' = [rows EXCEPT ![run.url] = None]
    /\ index' = [index EXCEPT ![run.retire] = None]

Cleans ==
    \/ ScansRemoved \/ (\E c \in run.scan : Retires(c)) \/ ScansExpired
    \/ (\E c \in run.scan : DeletesBranding(c)) \/ DeletesClient \/ DeletesRows

LEMMA ReturnFields ==
    ASSUME run \in RunSet, NEW v \in BOOLEAN
    PROVE  LET r == Return(v)
           IN  /\ r \in RunSet
               /\ r.kind = run.kind /\ r.allow = run.allow /\ r.strict = run.strict
               /\ r.started = run.started /\ r.todo = run.todo /\ r.verdict = v
               /\ r.errors = run.errors
               /\ IF run.kind = "revalidate"
                  THEN r.phase = "answer" /\ r.url = run.url /\ r.doc = run.doc
                  ELSE r.phase = "next"
<1>. DEFINE back == [run EXCEPT !.target = None, !.retire = None, !.after = "next", !.verdict = v]
<1>1. /\ back \in RunSet /\ back.verdict = v
      /\ back.kind = run.kind /\ back.allow = run.allow /\ back.strict = run.strict
      /\ back.started = run.started /\ back.todo = run.todo /\ back.errors = run.errors
      /\ back.url = run.url /\ back.doc = run.doc
  BY ZenonT(60) DEF RunSet, Plans
<1>2. Return(v) \in RunSet
  BY ReturnShape
<1>. HIDE DEF back
<1>3. CASE run.kind = "revalidate"
  <2>1. Return(v) = [back EXCEPT !.phase = "answer"]
    BY <1>3 DEF Return, back
  <2>. QED  BY <1>1, <1>2, <1>3, <2>1 DEF RunSet
<1>4. CASE run.kind # "revalidate"
  <2>1. Return(v) = [back EXCEPT !.phase = "next", !.url = None, !.doc = None]
    BY <1>4 DEF Return, back
  <2>. QED  BY <1>1, <1>2, <1>4, <2>1 DEF RunSet
<1>. QED  BY <1>3, <1>4

(* What is left when _reconcile_url gives up, or is done with a URL.       *)
LEMMA ReturnLeaves ==
    ASSUME run \in RunSet, NEW v \in BOOLEAN, NEW r, r = Return(v) \/ (r = Raise /\ ~v),
           NEW u, NEW todo,
           \/ run' = r /\ todo = run.todo
           \/ run' = [r EXCEPT !.todo = @ \ {u}] /\ todo = run.todo \ {u}
    PROVE  Leaves(todo, v)
<1>. DEFINE q == Return(v)
            yes == TRUE
<1>1. /\ q \in RunSet
      /\ q.kind = run.kind /\ q.allow = run.allow /\ q.strict = run.strict
      /\ q.started = run.started /\ q.todo = run.todo /\ q.verdict = v
      /\ q.errors = run.errors
      /\ IF run.kind = "revalidate"
         THEN q.phase = "answer" /\ q.url = run.url /\ q.doc = run.doc
         ELSE q.phase = "next"
  BY ReturnFields
<1>2. r = q \/ r = [q EXCEPT !.errors = yes]
  <2>1. CASE r = Raise /\ ~v
    <3>1. v = FALSE
      BY <2>1
    <3>. QED  BY <2>1, <3>1 DEF Raise
  <2>. QED  BY <2>1
<1>0. yes \in BOOLEAN /\ yes
  OBVIOUS
<1>. HIDE DEF q, yes
<1>3. /\ r.kind = run.kind /\ r.allow = run.allow /\ r.strict = run.strict
      /\ r.started = run.started /\ r.todo = run.todo /\ r.verdict = v
      /\ r.phase = q.phase /\ r.url = q.url /\ r.doc = q.doc
      /\ run.errors => r.errors
  BY <1>0, <1>1, <1>2 DEF RunSet
<1>4. CASE run' = r /\ todo = run.todo
  BY <1>1, <1>3, <1>4 DEF Leaves, SameRound
<1>5. CASE run' = [r EXCEPT !.todo = @ \ {u}] /\ todo = run.todo \ {u}
  <2>1. r \in RunSet
    <3>1. CASE r = [q EXCEPT !.errors = yes]
      BY <1>0, <1>1, <3>1 DEF RunSet
    <3>. QED  BY <1>1, <1>2, <3>1
  <2>2. /\ run'.kind = r.kind /\ run'.allow = r.allow /\ run'.strict = r.strict
        /\ run'.started = r.started /\ run'.todo = r.todo \ {u} /\ run'.verdict = r.verdict
        /\ run'.phase = r.phase /\ run'.url = r.url /\ run'.doc = r.doc
        /\ run'.errors = r.errors
    BY <1>5, <2>1 DEF RunSet
  <2>. QED  BY <1>1, <1>3, <1>5, <2>2 DEF Leaves, SameRound
<1>. QED  BY <1>4, <1>5

LEMMA RaiseLeaves ==
    ASSUME run \in RunSet, NEW u, NEW todo,
           \/ run' = Raise /\ todo = run.todo
           \/ run' = [Raise EXCEPT !.todo = @ \ {u}] /\ todo = run.todo \ {u}
    PROVE  Leaves(todo, FALSE) /\ run'.errors
<1>. DEFINE q == Return(FALSE)
            yes == TRUE
<1>1. q \in RunSet /\ Raise = [q EXCEPT !.errors = yes]
  BY ReturnFields DEF Raise
<1>2. yes \in BOOLEAN /\ yes
  OBVIOUS
<1>. HIDE DEF q, yes
<1>3. Raise \in RunSet /\ Raise.errors
  BY <1>1, <1>2 DEF RunSet
<1>4. run'.errors
  BY <1>3 DEF RunSet
<1>. QED  BY <1>4, ReturnLeaves

LEMMA TakingFacts ==
    ASSUME Inv, NEW u, Consider(u)
    PROVE  /\ Quiet /\ run \in RunSet /\ u \in Urls /\ u \in RowKeys /\ clock \in Nat
           /\ run.phase = "next" /\ u \in run.todo /\ run.retire = None
           /\ web[u] \in Documents \cup NotFetched
           /\ rows[u] # None => rows[u] \in RowSet
<1>1. Quiet /\ u \in run.todo
  BY DEF Consider, Quiet, TablesSame, tables, userPool
<1>. QED  BY <1>1, ConsiderFacts DEF Inv, TypeOK

PutPlanned(p, u, row, after, v) ==
    /\ p \in RunSet
    /\ p.kind = run.kind /\ p.allow = run.allow /\ p.strict = run.strict
    /\ p.started = run.started /\ p.todo = run.todo \ {u} /\ p.url = u
    /\ p.phase = "put" /\ p.now = clock /\ p.target = row
    /\ p.retire = run.retire /\ p.verdict = v
    /\ p.after = after /\ p.errors = run.errors

LEMMA PlanPutFields ==
    ASSUME run \in RunSet, clock \in Nat, NEW u \in Urls, NEW row \in PlanSet,
           NEW after \in {"next", "ensure"}, NEW v \in BOOLEAN
    PROVE  PutPlanned(PlanPut(u, row, after, v), u, row, after, v)
<1>. DEFINE p == PlanPut(u, row, after, v)
<1>1. p \in RunSet
  BY PlanPutShape
<1>2. p = [run EXCEPT !.phase = "put", !.url = u, !.todo = @ \ {u}, !.now = clock,
                      !.target = row, !.after = after, !.verdict = v]
  BY DEF PlanPut
<1>. HIDE DEF p
<1>3. /\ p.kind = run.kind /\ p.allow = run.allow /\ p.strict = run.strict
      /\ p.started = run.started /\ p.todo = run.todo \ {u} /\ p.url = u
      /\ p.phase = "put" /\ p.now = clock /\ p.target = row
      /\ p.retire = run.retire /\ p.verdict = v
      /\ p.after = after /\ p.errors = run.errors
  BY <1>2 DEF RunSet
<1>4. PutPlanned(p, u, row, after, v)
  BY <1>1, <1>3 DEF PutPlanned
<1>. QED  BY <1>4 DEF p

LEMMA DisabledFields ==
    ASSUME NEW row \in RowSet, NEW when \in Time
    PROVE  LET d == Disabled(row, when)
           IN  /\ d \in RowSet /\ ~d.enabled /\ d.deleteAfter = when
               /\ d.id = row.id /\ d.fp = row.fp /\ d.uris = row.uris
               /\ Sound(row) => Sound(d)
<1>. DEFINE d == Disabled(row, when)
<1>1. d \in RowSet /\ d.id = row.id /\ d.enabled = FALSE
  BY DisabledType
<1>2. /\ d.fp = row.fp /\ d.uris = row.uris /\ d.deleteAfter = when
      /\ d.cacheUntil = row.cacheUntil /\ d.fetchedAt = row.fetchedAt /\ d.etag = row.etag
  BY DEF Disabled, RowSet
<1>. HIDE DEF d
<1>3. Sound(row) => Sound(d)
  BY <1>1, <1>2 DEF Sound
<1>. QED  BY <1>1, <1>2, <1>3 DEF d

LEMMA DisablingReplans ==
    ASSUME Inv, RowInv, NEW u, Consider(u), Enabled(u), NEW p,
           p = PlanPut(u, Disabled(rows[u], None), "next", FALSE),
           NEW yes \in BOOLEAN, yes, run' = p \/ run' = [p EXCEPT !.errors = yes]
    PROVE  Replans(u)
<1>. DEFINE row == Disabled(rows[u], None)
            no == FALSE
<1>1. /\ Quiet /\ run \in RunSet /\ u \in Urls /\ u \in RowKeys /\ clock \in Nat
      /\ run.phase = "next" /\ u \in run.todo /\ run.retire = None
      /\ rows[u] # None /\ rows[u] \in RowSet /\ Sound(rows[u])
  BY TakingFacts DEF Enabled, Stored, RowInv
<1>2. /\ row \in RowSet /\ row \in PlanSet /\ ~row.enabled /\ row.deleteAfter = None
      /\ row.id = rows[u].id /\ row.fp = rows[u].fp /\ row.uris = rows[u].uris /\ Sound(row)
  BY <1>1, DisabledFields, RowIsPlan DEF Time
<1>. HIDE DEF row
<1>3. Redrafts(u, row)
  BY <1>1, <1>2 DEF Redrafts, Stored
<1>4. no \in BOOLEAN /\ ~no /\ p = PlanPut(u, row, "next", no)
  BY DEF row
<1>. HIDE DEF no
<1>. DEFINE q == PlanPut(u, row, "next", no)
<1>5. PutPlanned(q, u, row, "next", no)
  BY <1>1, <1>2, <1>4, PlanPutFields
<1>. HIDE DEF q
<1>6. /\ run'.kind = run.kind /\ run'.allow = run.allow /\ run'.strict = run.strict
      /\ run'.started = run.started /\ run'.todo = run.todo \ {u} /\ run'.url = u
      /\ run'.phase = "put" /\ run'.now = clock /\ run'.target = row
      /\ run'.retire = run.retire
      /\ run.errors => run'.errors
  <2>1. run' = q \/ run' = [q EXCEPT !.errors = yes]
    BY <1>4 DEF q
  <2>. QED  BY <1>5, <2>1 DEF RunSet, PutPlanned
<1>. QED  BY <1>1, <1>2, <1>3, <1>6 DEF Replans, Takes, SameRound

LEMMA SkipCachedMoves == ASSUME NEW u PROVE Inv /\ SkipCached(u) => Skips(u)
<1>. SUFFICES ASSUME Inv, SkipCached(u) PROVE Skips(u)
  OBVIOUS
<1>. DEFINE no == FALSE
<1>1. /\ Quiet /\ run \in RunSet /\ run.phase = "next" /\ u \in run.todo
      /\ Enabled(u) /\ clock < rows[u].cacheUntil
  BY TakingFacts DEF SkipCached, Skippable
<1>2. ~no /\ run' = [run EXCEPT !.phase = "ensure", !.url = u, !.todo = @ \ {u}, !.verdict = no]
  BY DEF SkipCached
<1>. HIDE DEF no
<1>3. /\ run'.kind = run.kind /\ run'.allow = run.allow /\ run'.strict = run.strict
      /\ run'.started = run.started /\ run'.todo = run.todo \ {u} /\ run'.url = u
      /\ run'.phase = "ensure" /\ run'.verdict = no /\ run'.errors = run.errors
  BY <1>1, <1>2 DEF RunSet
<1>. QED  BY <1>1, <1>2, <1>3 DEF Skips, Takes, SameRound

LEMMA FetchFailedMoves ==
    ASSUME NEW u PROVE Inv /\ RowInv /\ FetchFailed(u) => Passes(u) \/ Replans(u)
<1>. SUFFICES ASSUME Inv, RowInv, FetchFailed(u) PROVE Passes(u) \/ Replans(u)
  OBVIOUS
<1>1. /\ Quiet /\ run \in RunSet /\ run.phase = "next" /\ u \in run.todo /\ Consider(u)
      /\ clock \in Nat /\ (rows[u] # None => rows[u] \in RowSet) /\ MaxStale \in Nat
  BY TakingFacts, ConstantsAssumption DEF FetchFailed
<1>. DEFINE yes == TRUE
<1>2. CASE Enabled(u) /\ run' = [PlanPut(u, Disabled(rows[u], None), "next", FALSE) EXCEPT !.errors = yes]
  <2>1. yes \in BOOLEAN /\ yes
    OBVIOUS
  <2>. HIDE DEF yes
  <2>. QED  BY <1>1, <1>2, <2>1, DisablingReplans
<1>3. CASE ~(Enabled(u) /\ OlderThanMaxStale(rows[u].fetchedAt, clock)) /\ run' = [Raise EXCEPT !.todo = @ \ {u}]
  <2>1. Leaves(run.todo \ {u}, FALSE) /\ run'.errors
    BY <1>1, <1>3, RaiseLeaves
  <2>2. Enabled(u) => rows[u].fetchedAt # None /\ rows[u].fetchedAt \in Nat
    BY <1>1, ConstantsAssumption DEF Enabled, Stored, RowSet
  <2>3. ~Enabled(u) \/ clock - rows[u].fetchedAt <= MaxStale
    BY <1>1, <1>3, <2>2 DEF OlderThanMaxStale
  <2>. QED  BY <1>1, <2>1, <2>3 DEF Passes
<1>. QED  BY <1>2, <1>3 DEF FetchFailed

LEMMA FetchRaisesMoves == ASSUME NEW u PROVE Inv /\ FetchRaises(u) => Passes(u)
<1>. SUFFICES ASSUME Inv, FetchRaises(u) PROVE Passes(u)
  OBVIOUS
<1>1. /\ Quiet /\ run \in RunSet /\ run.phase = "next" /\ u \in run.todo /\ web[u] = Broken
      /\ run' = [Raise EXCEPT !.todo = @ \ {u}]
  BY TakingFacts DEF FetchRaises
<1>2. Leaves(run.todo \ {u}, FALSE) /\ run'.errors
  BY <1>1, RaiseLeaves
<1>. QED  BY <1>1, <1>2 DEF Passes

LEMMA FetchedUnacceptableMoves ==
    ASSUME NEW u PROVE Inv /\ RowInv /\ FetchedUnacceptable(u) => Passes(u) \/ Replans(u)
<1>. SUFFICES ASSUME Inv, RowInv, FetchedUnacceptable(u) PROVE Passes(u) \/ Replans(u)
  OBVIOUS
<1>1. Quiet /\ run \in RunSet /\ run.phase = "next" /\ u \in run.todo /\ Consider(u)
  BY TakingFacts DEF FetchedUnacceptable
<1>2. CASE Enabled(u) /\ run' = PlanPut(u, Disabled(rows[u], None), "next", FALSE)
  <2>. DEFINE p == PlanPut(u, Disabled(rows[u], None), "next", FALSE)
              yes == TRUE
  <2>1. yes \in BOOLEAN /\ yes /\ run' = p
    BY <1>2
  <2>. HIDE DEF yes
  <2>. QED  BY <1>1, <1>2, <2>1, DisablingReplans
<1>3. CASE ~Enabled(u) /\ run' = [Return(FALSE) EXCEPT !.todo = @ \ {u}]
  <2>1. Leaves(run.todo \ {u}, FALSE)
    BY <1>1, <1>3, ReturnLeaves
  <2>. QED  BY <1>1, <1>3, <2>1 DEF Passes
<1>. QED  BY <1>2, <1>3 DEF FetchedUnacceptable

LEMMA NotModifiedMoves ==
    ASSUME NEW u PROVE Inv /\ SafeInv /\ NotModified(u) => Replans(u)
<1>. SUFFICES ASSUME Inv, SafeInv, NotModified(u) PROVE Replans(u)
  OBVIOUS
<1>. DEFINE row == [rows[u] EXCEPT !.cacheUntil = clock + CacheSeconds(web[u]), !.fetchedAt = clock]
            p == PlanPut(u, row, "ensure", rows[u].enabled)
<1>1. /\ Quiet /\ run \in RunSet /\ u \in Urls /\ u \in RowKeys /\ clock \in Nat
      /\ run.phase = "next" /\ u \in run.todo /\ run.retire = None
      /\ rows[u] # None /\ rows[u] \in RowSet /\ Sound(rows[u]) /\ Unchanged(u)
  BY TakingFacts DEF NotModified, Unchanged, Stored, SafeInv, RowInv
<1>2. /\ rows[u].etag = web[u] /\ web[u] # None /\ rows[u].uris = web[u].uris
      /\ web[u] \in Documents \cup {None} /\ Acceptable(rows[u].uris, run.strict)
  BY <1>1 DEF NotModified, FetchedUris, Unchanged, Sound, RowSet
<1>3. /\ clock + CacheSeconds(web[u]) \in Nat /\ CacheMax \in Nat
      /\ clock + CacheSeconds(web[u]) <= clock + CacheMax
  BY <1>1, CacheSecondsBound, ConstantsAssumption
<1>4. /\ row \in RowSet /\ row.enabled = rows[u].enabled /\ row.deleteAfter = rows[u].deleteAfter
      /\ row.id = rows[u].id /\ row.fp = rows[u].fp /\ row.uris = rows[u].uris
      /\ row.etag = rows[u].etag /\ row.fetchedAt = clock
      /\ row.cacheUntil <= clock + CacheMax
  BY <1>1, <1>3 DEF RowSet
<1>. HIDE DEF row
<1>5. Redrafts(u, row)
  BY <1>1, <1>4 DEF Redrafts, Stored, Enabled, Sound
<1>6. PutPlanned(p, u, row, "ensure", rows[u].enabled)
  <2>1. rows[u].enabled \in BOOLEAN
    BY <1>1 DEF RowSet
  <2>. QED  BY <1>1, <1>4, <2>1, RowIsPlan, PlanPutFields
<1>7. run' = [p EXCEPT !.doc = web[u]]
  BY DEF NotModified, row
<1>. HIDE DEF p
<1>8. /\ run'.kind = run.kind /\ run'.allow = run.allow /\ run'.strict = run.strict
      /\ run'.started = run.started /\ run'.todo = run.todo \ {u} /\ run'.url = u
      /\ run'.phase = "put" /\ run'.now = clock /\ run'.target = row
      /\ run'.retire = run.retire /\ run'.verdict = rows[u].enabled /\ run'.doc = web[u]
      /\ run'.after = "ensure" /\ run'.errors = run.errors
  BY <1>6, <1>7 DEF RunSet, PutPlanned
<1>9. run.started <= clock
  BY <1>1 DEF SafeInv, RoundInv
<1>10. SeenNow(run.target)'
  BY <1>2, <1>4, <1>8, <1>9 DEF SeenNow, Acceptable
<1>. QED  BY <1>1, <1>4, <1>5, <1>8, <1>10 DEF Replans, Takes, SameRound

LEMMA ModifiedMoves == ASSUME NEW u PROVE Inv /\ Modified(u) => Fetches(u)
<1>. SUFFICES ASSUME Inv, Modified(u) PROVE Fetches(u)
  OBVIOUS
<1>1. /\ Quiet /\ run \in RunSet /\ run.phase = "next" /\ u \in run.todo
      /\ Acceptable(web[u].uris, run.strict)
  BY TakingFacts DEF Modified, FetchedUris
<1>2. run' = [run EXCEPT !.phase = "jwks", !.url = u, !.todo = @ \ {u}, !.now = clock, !.doc = web[u]]
  BY DEF Modified
<1>3. /\ run'.kind = run.kind /\ run'.allow = run.allow /\ run'.strict = run.strict
      /\ run'.started = run.started /\ run'.todo = run.todo \ {u} /\ run'.url = u
      /\ run'.phase = "jwks" /\ run'.now = clock /\ run'.doc = web[u]
      /\ run'.errors = run.errors
  BY <1>1, <1>2 DEF RunSet
<1>. QED  BY <1>1, <1>3 DEF Fetches, Takes, SameRound

LEMMA ReconcileMoves == ASSUME NEW u PROVE Inv /\ SafeInv /\ Reconcile(u) => Considers(u)
  BY SkipCachedMoves, FetchFailedMoves, FetchRaisesMoves, NotModifiedMoves,
     FetchedUnacceptableMoves, ModifiedMoves DEF Reconcile, Considers, SafeInv

-----------------------------------------------------------------------------
(* What the actions after a 200 amount to.                                 *)

LEMMA JwksQuiet ==
    ASSUME Inv, run.phase = "jwks", UNCHANGED <<clock, environment, tables, userPool, faults>>
    PROVE  /\ Quiet /\ run \in RunSet /\ run.url \in Urls /\ run.url \in RowKeys /\ run.retire = None
           /\ run.doc \in Documents /\ run.now \in Nat
           /\ rows[run.url] # None => rows[run.url] \in RowSet
           /\ keys[run.url] \in Keys \cup NotFetched
<1>1. Quiet
  BY DEF Quiet, TablesSame, tables, userPool
<1>. QED  BY <1>1, JwksFacts, IdsFacts

LEMMA NewRowRests ==
    ASSUME run \in RunSet, run.doc \in Documents, run.now \in Nat,
           NEW fp \in Fingerprints \cup {None}, NEW ttl \in 0 .. CacheMax, NEW jwksAt \in Time
    PROVE  LET row == NewRow(run.doc, fp, run.now, ttl, jwksAt)
           IN  row \in PlanSet /\ Rests(row) /\ row.fp = fp
<1>. DEFINE row == NewRow(run.doc, fp, run.now, ttl, jwksAt)
<1>1. CacheMax \in Nat /\ ttl \in Nat
  BY ConstantsAssumption
<1>2. row \in PlanSet
  BY <1>1, NewRowType
<1>3. /\ row.enabled = TRUE /\ row.deleteAfter = None /\ row.cacheUntil = run.now + ttl
      /\ row.fetchedAt = run.now /\ row.etag = ETag(run.doc) /\ row.uris = run.doc.uris /\ row.fp = fp
  BY DEF NewRow
<1>4. ETag(run.doc) # None => ETag(run.doc) = run.doc
  BY DEF ETag
<1>. HIDE DEF row
<1>5. row.cacheUntil <= row.fetchedAt + CacheMax
  BY <1>1, <1>3
<1>6. Rests(row)
  BY <1>3, <1>4, <1>5 DEF Rests, Sound
<1>. QED  BY <1>2, <1>3, <1>6 DEF row

LEMMA ReactMoves ==
    ASSUME Inv, run.phase = "jwks", Quiet, NEW row \in PlanSet, NEW v \in BOOLEAN,
           Rests(row), React(run.url, row, v)
    PROVE  DraftsNew \/ DraftsSame
<1>. DEFINE u == run.url
            plan == [run EXCEPT !.phase = "create", !.target = row, !.verdict = v]
            yes == TRUE
<1>1. /\ run \in RunSet /\ u \in Urls /\ run.retire = None /\ run.doc \in Documents
      /\ Stored(u) => rows[u] \in RowSet
      /\ yes \in BOOLEAN /\ "ensure" \in {"next", "ensure"} /\ row \in Plans
  BY JwksFacts DEF Stored, Plans
<1>2. Stored(u) => rows[u].id \in Ids
  BY <1>1 DEF RowSet
<1>3. /\ plan \in RunSet /\ plan.phase = "create" /\ plan.target = row /\ plan.retire = None
      /\ plan.kind = run.kind /\ plan.allow = run.allow /\ plan.strict = run.strict
      /\ plan.started = run.started /\ plan.todo = run.todo /\ plan.url = run.url
      /\ plan.now = run.now /\ plan.doc = run.doc /\ plan.errors = run.errors
  BY <1>1, ZenonT(60) DEF RunSet, Phases
<1>4. ASSUME NEW p \in RunSet, p.phase = "create", p.target = row,
             p.kind = run.kind, p.allow = run.allow, p.strict = run.strict,
             p.started = run.started, p.todo = run.todo, p.url = run.url,
             p.now = run.now, p.doc = run.doc, p.errors = run.errors,
             run' = p,
             \/ ~Stored(u) /\ p.retire = None
             \/ /\ Stored(u) /\ p.retire = rows[u].id
                /\ row.fp # rows[u].fp \/ cognito[rows[u].id] = None
      PROVE  DraftsNew
  BY <1>4 DEF DraftsNew, Drafts, SameRound
<1>5. CASE ~Stored(u) /\ run' = plan
  <2>. HIDE DEF plan
  <2>. QED  BY <1>3, <1>4, <1>5
<1>6. CASE Stored(u) /\ rows[u].fp # row.fp /\ run' = [plan EXCEPT !.retire = rows[u].id, !.verdict = TRUE]
  <2>1. run' = [plan EXCEPT !.retire = rows[u].id, !.verdict = yes]
    BY <1>6
  <2>. HIDE DEF plan, yes
  <2>2. /\ run' \in RunSet /\ run'.phase = "create" /\ run'.target = row
        /\ run'.kind = run.kind /\ run'.allow = run.allow /\ run'.strict = run.strict
        /\ run'.started = run.started /\ run'.todo = run.todo /\ run'.url = run.url
        /\ run'.now = run.now /\ run'.doc = run.doc /\ run'.retire = rows[u].id
        /\ run'.errors = run.errors
    BY ZenonT(60), <1>1, <1>2, <1>3, <1>6, <2>1 DEF RunSet
  <2>. QED  BY <1>4, <1>6, <2>2
<1>7. CASE Stored(u) /\ cognito[rows[u].id] = None
           /\ run' = [plan EXCEPT !.retire = rows[u].id, !.after = "ensure"]
  <2>. HIDE DEF plan
  <2>2. /\ run' \in RunSet /\ run'.phase = "create" /\ run'.target = row
        /\ run'.kind = run.kind /\ run'.allow = run.allow /\ run'.strict = run.strict
        /\ run'.started = run.started /\ run'.todo = run.todo /\ run'.url = run.url
        /\ run'.now = run.now /\ run'.doc = run.doc /\ run'.retire = rows[u].id
        /\ run'.errors = run.errors
    BY <1>1, <1>2, <1>3, <1>7 DEF RunSet
  <2>. QED  BY <1>4, <1>7, <2>2
<1>8. CASE Stored(u) /\ rows[u].fp = row.fp /\ cognito[rows[u].id] # None /\ run' = SameClient(u, row, v)
  <2>. DEFINE r == [row EXCEPT !.id = rows[u].id]
  <2>1. /\ r.id = rows[u].id /\ r.fp = row.fp /\ r.uris = row.uris /\ r.enabled = row.enabled
        /\ r.deleteAfter = row.deleteAfter /\ r.fetchedAt = row.fetchedAt
        /\ r.cacheUntil = row.cacheUntil /\ r.etag = row.etag
    BY DEF PlanSet
  <2>2. Rests(r)
    BY <2>1 DEF Rests, Sound
  <2>. DEFINE q == IF rows[u].uris # row.uris THEN "update" ELSE "put"
  <2>3. run' = [run EXCEPT !.phase = q, !.target = r, !.after = "ensure", !.verdict = v]
    BY <1>8 DEF SameClient
  <2>4. q \in {"update", "put"} /\ (q = "put" => rows[u].uris = row.uris)
    OBVIOUS
  <2>. HIDE DEF q, r
  <2>5. /\ run'.phase = q /\ run'.target = r /\ run'.retire = run.retire
        /\ run'.kind = run.kind /\ run'.allow = run.allow /\ run'.strict = run.strict
        /\ run'.started = run.started /\ run'.todo = run.todo /\ run'.url = run.url
        /\ run'.now = run.now /\ run'.doc = run.doc
        /\ run'.after = "ensure" /\ run'.errors = run.errors
    BY <1>1, <2>3 DEF RunSet
  <2>. QED  BY <1>1, <1>8, <2>1, <2>2, <2>4, <2>5 DEF DraftsSame, Drafts, SameRound
<1>. QED  BY <1>5, <1>6, <1>7, <1>8 DEF React

LEMMA KeysValidatedMoves == Inv /\ KeysValidated => Reacts
<1>. SUFFICES ASSUME Inv, KeysValidated PROVE Reacts
  OBVIOUS
<1>. DEFINE u == run.url
            content == IF run.doc.jwksUri THEN keys[u] ELSE None
            jwksAt == IF run.doc.jwksUri THEN run.now ELSE None
            fp == JwksFingerprint(run.doc, content)
            row == NewRow(run.doc, fp, run.now, CacheSeconds(run.doc), jwksAt)
<1>1. /\ Quiet /\ run.phase = "jwks" /\ content \notin NotFetched /\ React(u, row, TRUE)
      /\ run \in RunSet /\ run.doc \in Documents /\ run.now \in Nat /\ keys[u] \in Keys \cup NotFetched
  BY JwksQuiet DEF KeysValidated
<1>2. fp \in Fingerprints \cup {None} /\ jwksAt \in Time
  <2>1. content \in Keys \cup {None}
    BY <1>1
  <2>. QED  BY <1>1, <2>1 DEF Fingerprints, Time
<1>3. row \in PlanSet /\ Rests(row)
  BY <1>1, <1>2, CacheSecondsBound, NewRowRests
<1>. HIDE DEF row
<1>. QED  BY <1>1, <1>3, ReactMoves DEF Reacts

LEMMA KeysUnavailableMoves == Inv /\ SafeInv /\ KeysUnavailable => Reacts
<1>. SUFFICES ASSUME Inv, SafeInv, KeysUnavailable PROVE Reacts
  OBVIOUS
<1>. DEFINE u == run.url
            old == rows[u]
            row == NewRow(run.doc, old.fp, run.now, 0, old.jwksAt)
<1>1. /\ Quiet /\ run.phase = "jwks" /\ run \in RunSet /\ run.doc \in Documents /\ run.now \in Nat
      /\ u \in RowKeys /\ run.retire = None /\ (Stored(u) => old \in RowSet /\ Sound(old))
  BY JwksQuiet DEF KeysUnavailable, Stored, SafeInv, RowInv
<1>2. CASE ~Stored(u) /\ run' = Raise
  <2>1. Leaves(run.todo, FALSE) /\ run'.errors
    BY <1>1, <1>2, RaiseLeaves
  <2>. QED  BY <1>1, <1>2, <2>1 DEF Reacts, KeysFail
<1>3. CASE Enabled(u) /\ run' = [run EXCEPT !.phase = "put", !.target = Disabled(old, None)]
  <2>. DEFINE d == Disabled(old, None)
  <2>1. /\ ~d.enabled /\ d.deleteAfter = None
        /\ d.id = old.id /\ d.fp = old.fp /\ d.uris = old.uris /\ Sound(d)
    BY <1>1, <1>3, DisabledFields DEF Enabled, Time
  <2>2. run' = [run EXCEPT !.phase = "put", !.target = d]
    BY <1>3
  <2>. HIDE DEF d
  <2>3. /\ run'.phase = "put" /\ run'.target = d /\ run'.retire = run.retire
        /\ run'.kind = run.kind /\ run'.allow = run.allow /\ run'.strict = run.strict
        /\ run'.started = run.started /\ run'.todo = run.todo /\ run'.url = run.url
        /\ run'.now = run.now /\ run'.doc = run.doc /\ run'.errors = run.errors
    BY <1>1, <2>2 DEF RunSet
  <2>4. Redrafts(u, d)
    BY <1>3, <2>1 DEF Redrafts, Enabled
  <2>. QED  BY <1>1, <2>1, <2>3, <2>4 DEF Reacts, DraftsDisabled, Drafts, SameRound
<1>4. CASE Stored(u) /\ React(u, row, FALSE)
  <2>1. old.fp \in Fingerprints \cup {None} /\ old.jwksAt \in Time /\ 0 \in 0 .. CacheMax
    BY <1>1, <1>4, ConstantsAssumption DEF RowSet
  <2>2. row \in PlanSet /\ Rests(row)
    BY <1>1, <2>1, NewRowRests
  <2>. HIDE DEF row
  <2>. QED  BY <1>1, <1>4, <2>2, ReactMoves DEF Reacts
<1>. QED  BY <1>2, <1>3, <1>4 DEF KeysUnavailable

LEMMA KeysRaiseMoves == Inv /\ KeysRaise => Reacts
<1>. SUFFICES ASSUME Inv, KeysRaise PROVE Reacts
  OBVIOUS
<1>1. Quiet /\ run.phase = "jwks" /\ run \in RunSet /\ keys[run.url] = Broken /\ run' = Raise
  BY JwksQuiet DEF KeysRaise
<1>2. Leaves(run.todo, FALSE) /\ run'.errors
  BY <1>1, RaiseLeaves
<1>. QED  BY <1>1, <1>2 DEF Reacts, KeysFail

-----------------------------------------------------------------------------
(* What the calls to Cognito and the transaction amount to.                *)

LEMMA PhaseCarries ==
    ASSUME run \in RunSet, NEW phase \in Phases, run' = [run EXCEPT !.phase = phase]
    PROVE  Carries /\ run'.phase = phase /\ run'.target = run.target /\ run'.scan = run.scan
  BY DEF RunSet, Carries, SameRound

LEMMA CreateClientMoves == Inv /\ CreateClient => Creates
<1>. SUFFICES ASSUME Inv, CreateClient PROVE Creates
  OBVIOUS
<1>. DEFINE target == [run.target EXCEPT !.id = nextId]
            new == [uris |-> run.target.uris, branded |-> FALSE]
<1>1. /\ run.phase = "create" /\ nextId \in Ids /\ nextId' = nextId + 1
      /\ cognito' = [cognito EXCEPT ![nextId] = new]
      /\ TablesSame /\ faults' = faults
      /\ run' = [run EXCEPT !.phase = "brand", !.target = target]
  BY DEF CreateClient, TablesSame, tables
<1>2. /\ run \in RunSet /\ run.target \in PlanSet /\ cognito \in [Ids -> ClientSet \cup {None}]
      /\ new.uris = run.target.uris /\ new \in ClientSet
  BY <1>1, TargetFacts DEF ClientSet
<1>3. target.id = nextId /\ SameContent(target, run.target)
  BY <1>2 DEF PlanSet, SameContent
<1>. HIDE DEF target, new
<1>4. Carries /\ run'.phase = "brand" /\ run'.target = target
  BY <1>1, <1>2 DEF RunSet, Carries, SameRound
<1>5. cognito'[nextId] # None /\ cognito'[nextId].uris = run.target.uris /\ OnlyClient(nextId)
  BY <1>1, <1>2, NoneAssumption DEF OnlyClient
<1>. QED  BY <1>1, <1>3, <1>4, <1>5 DEF Creates

LEMMA ChangedCalls ==
    ASSUME Inv, NEW i \in Ids, cognito[i] # None, NEW client \in ClientSet,
           cognito' = [cognito EXCEPT ![i] = client],
           TablesSame, UNCHANGED <<nextId, faults>>
    PROVE  Calls(i) /\ cognito'[i] = client
  BY NoneAssumption DEF Inv, TypeOK, Calls, OnlyClient

LEMMA BrandClientMoves == Inv /\ BrandClient => Brands
<1>. SUFFICES ASSUME Inv, BrandClient PROVE Brands
  OBVIOUS
<1>. DEFINE i == run.target.id
            client == [cognito[i] EXCEPT !.branded = TRUE]
<1>1. /\ run.phase = "brand" /\ PlansNewClient /\ cognito[i] # None
      /\ TablesSame /\ UNCHANGED <<nextId, faults>>
      /\ cognito' = [cognito EXCEPT ![i] = client] /\ run' = [run EXCEPT !.phase = "put"]
  BY DEF BrandClient, TablesSame, tables, Inv, PlanInv
<1>2. /\ run \in RunSet /\ i \in Ids /\ cognito[i] \in ClientSet
  BY <1>1, TargetFacts DEF PlansNewClient
<1>3. client \in ClientSet /\ client.branded /\ client.uris = cognito[i].uris
  BY <1>2 DEF ClientSet
<1>4. Carries /\ run'.phase = "put" /\ run'.target = run.target
  BY <1>1, <1>2, PhaseCarries DEF Phases
<1>. HIDE DEF i, client
<1>5. Calls(i) /\ cognito'[i] = client
  BY <1>1, <1>2, <1>3, ChangedCalls
<1>. QED  BY <1>1, <1>3, <1>4, <1>5 DEF Brands, i

LEMMA UpdateCallbacksMoves == Inv /\ UpdateCallbacks => Updates
<1>. SUFFICES ASSUME Inv, UpdateCallbacks PROVE Updates
  OBVIOUS
<1>. DEFINE i == run.target.id
            client == [cognito[i] EXCEPT !.uris = run.target.uris]
<1>1. /\ run.phase = "update" /\ PlansSameClient /\ cognito[i] # None
      /\ TablesSame /\ UNCHANGED <<nextId, faults>>
      /\ cognito' = [cognito EXCEPT ![i] = client] /\ run' = [run EXCEPT !.phase = "put"]
  BY DEF UpdateCallbacks, TablesSame, tables, Inv, PlanInv
<1>2. /\ run \in RunSet /\ i \in Ids /\ cognito[i] \in ClientSet
      /\ run.target.uris \in UriLists \cup {None}
  BY <1>1, TargetFacts DEF PlansSameClient
<1>3. client \in ClientSet /\ client.branded = cognito[i].branded /\ client.uris = run.target.uris
  BY <1>2 DEF ClientSet
<1>4. Carries /\ run'.phase = "put" /\ run'.target = run.target
  BY <1>1, <1>2, PhaseCarries DEF Phases
<1>. HIDE DEF i, client
<1>5. Calls(i) /\ cognito'[i] = client
  BY <1>1, <1>2, <1>3, ChangedCalls
<1>. QED  BY <1>1, <1>3, <1>4, <1>5 DEF Updates, i

LEMMA PutMoves == Inv /\ Put => Puts
<1>. SUFFICES ASSUME Inv, Put PROVE Puts
  OBVIOUS
<1>1. /\ run.phase = "put" /\ run \in RunSet /\ run.verdict \in BOOLEAN
      /\ PutClient(run.url, run.target, run.retire, run.now + AccessLifetime)
      /\ UNCHANGED <<clock, cognito, nextId, faults>>
  BY DEF Put, userPool, Inv, TypeOK, RunSet
<1>2. CASE run.after = "ensure" /\ run' = [run EXCEPT !.phase = "ensure", !.target = None, !.retire = None]
  <2>1. /\ run'.phase = "ensure" /\ SameRound /\ run'.todo = run.todo /\ run'.url = run.url
        /\ run'.doc = run.doc /\ run'.verdict = run.verdict
    BY <1>1, <1>2 DEF RunSet, SameRound
  <2>. QED  BY <1>1, <2>1 DEF Puts
<1>3. CASE run.after # "ensure" /\ run' = Return(run.verdict)
  <2>1. Leaves(run.todo, run.verdict) /\ run.after = "next"
    BY <1>1, <1>3, ReturnLeaves DEF RunSet
  <2>. QED  BY <1>1, <2>1 DEF Puts
<1>. QED  BY <1>2, <1>3 DEF Put

LEMMA EnsureBrandingMoves == Inv /\ EnsureBranding => Ensures
<1>. SUFFICES ASSUME Inv, EnsureBranding PROVE Ensures
  OBVIOUS
<1>. DEFINE i == rows[run.url].id
            client == [cognito[i] EXCEPT !.branded = TRUE]
<1>1. /\ run.phase = "ensure" /\ run \in RunSet /\ run.verdict \in BOOLEAN
      /\ TablesSame /\ UNCHANGED <<nextId, faults>>
      /\ run' = IF cognito[i] = None THEN Raise ELSE Return(run.verdict)
      /\ cognito' = IF cognito[i] = None THEN cognito ELSE [cognito EXCEPT ![i] = client]
  BY DEF EnsureBranding, TablesSame, tables, Inv, TypeOK, RunSet
<1>2. i \in Ids /\ (cognito[i] # None => cognito[i] \in ClientSet)
  <2>1. rows[run.url] \in RowSet
    BY <1>1, IdsFacts DEF Inv, TypeOK, PlanInv
  <2>2. i \in Ids
    BY <2>1 DEF RowSet
  <2>. QED  BY <2>2 DEF Inv, TypeOK
<1>3. CASE cognito[i] = None
  <2>1. Leaves(run.todo, FALSE) /\ run'.errors
    BY <1>1, <1>3, RaiseLeaves
  <2>2. Leaves(run.todo, run.verdict)
    BY <2>1 DEF Leaves
  <2>. QED  BY <1>1, <1>3, <2>1, <2>2 DEF Ensures, Quiet
<1>4. CASE cognito[i] # None
  <2>1. Leaves(run.todo, run.verdict)
    BY <1>1, <1>4, ReturnLeaves
  <2>2. client \in ClientSet /\ client.branded /\ client.uris = cognito[i].uris
    BY <1>2, <1>4 DEF ClientSet
  <2>. HIDE DEF client
  <2>3. Calls(i) /\ cognito'[i] = client
    BY <1>1, <1>2, <1>4, <2>2, ChangedCalls
  <2>. QED  BY <1>1, <2>1, <2>2, <2>3 DEF Ensures
<1>. QED  BY <1>3, <1>4

-----------------------------------------------------------------------------
(* What beginning, ending, faults and the clean-up amount to.              *)

LEMMA StartedFields ==
    ASSUME NEW kind, NEW phase, NEW todo
    PROVE  LET s == Started(kind, phase, todo)
           IN  /\ s.kind = kind /\ s.phase = phase /\ s.todo = todo
               /\ s.allow = allowed /\ s.started = clock /\ ~s.verdict
  BY DEF Started, Idle

LEMMA BeginRunMoves == ASSUME NEW kind \in Kinds PROVE Inv /\ BeginRun(kind) => Begins
<1>. SUFFICES ASSUME Inv, BeginRun(kind) PROVE Begins
  OBVIOUS
<1>. DEFINE s == Started(kind, "next", allowed)
<1>1. Quiet /\ run.phase = "idle" /\ kind \in {"deploy", "schedule"} /\ run' = s
  BY DEF BeginRun, Begin, Quiet, TablesSame, tables, userPool
<1>2. /\ s.kind = kind /\ s.phase = "next" /\ s.todo = allowed
      /\ s.allow = allowed /\ s.started = clock /\ ~s.verdict
  BY StartedFields
<1>. HIDE DEF s
<1>. QED  BY <1>1, <1>2 DEF Begins

LEMMA BeginRevalidateMoves == ASSUME NEW u \in Urls PROVE Inv /\ BeginRevalidate(u) => Begins
<1>. SUFFICES ASSUME Inv, BeginRevalidate(u) PROVE Begins
  OBVIOUS
<1>. DEFINE s == Started("revalidate", "next", {u})
<1>1. Quiet /\ run.phase = "idle" /\ u \in allowed /\ run' = [s EXCEPT !.url = u] /\ "revalidate" \in Kinds
  BY DEF BeginRevalidate, Begin, Quiet, TablesSame, tables, userPool
<1>2. s \in RunSet
  <2>1. "next" \in Phases /\ {u} \in UrlSets
    BY DEF Phases, UrlSets
  <2>. QED  BY <1>1, <2>1, StartedShape
<1>3. /\ s.kind = "revalidate" /\ s.phase = "next" /\ s.todo = {u}
      /\ s.allow = allowed /\ s.started = clock /\ ~s.verdict
  BY StartedFields
<1>. HIDE DEF s
<1>4. /\ run'.kind = s.kind /\ run'.phase = s.phase /\ run'.todo = s.todo /\ run'.url = u
      /\ run'.allow = s.allow /\ run'.started = s.started /\ run'.verdict = s.verdict
  BY <1>1, <1>2 DEF RunSet
<1>. QED  BY <1>1, <1>3, <1>4 DEF Begins

LEMMA BeginDeleteMoves == Inv /\ BeginDelete => BeginsDelete
<1>. SUFFICES ASSUME Inv, BeginDelete PROVE BeginsDelete
  OBVIOUS
<1>. DEFINE s == Started("delete", "purge", {})
            scan == KeyIds(RowKeys)
<1>1. Quiet /\ run.phase = "idle" /\ "delete" \in Kinds /\ run' = [s EXCEPT !.scan = scan]
  BY DEF BeginDelete, Change, Quiet, TablesSame, tables, userPool
<1>2. s \in RunSet
  <2>1. "purge" \in Phases /\ {} \in UrlSets
    BY DEF Phases, UrlSets
  <2>. QED  BY <1>1, <2>1, StartedShape
<1>3. s.kind = "delete" /\ s.phase = "purge" /\ s.todo = {} /\ s.started = clock
  BY StartedFields
<1>. HIDE DEF s, scan
<1>4. /\ run'.kind = s.kind /\ run'.phase = s.phase /\ run'.todo = s.todo
      /\ run'.started = s.started
  BY <1>1, <1>2 DEF RunSet
<1>. QED  BY <1>1, <1>3, <1>4 DEF BeginsDelete

LEMMA EndMoves == Inv /\ (Answer \/ Finish) => Ends
  BY DEF Answer, Finish, Ends, Quiet, TablesSame, tables, userPool

LEMMA FaultMoves == Inv /\ (CallRaises \/ Killed) => Fails
<1>. SUFFICES ASSUME Inv, CallRaises \/ Killed PROVE Fails
  OBVIOUS
<1>1. TablesSame /\ UNCHANGED <<cognito, nextId>> /\ faults' = faults + 1 /\ run \in RunSet
  BY DEF CallRaises, Killed, Fault, TablesSame, tables, userPool, Inv, TypeOK
<1>2. CASE Killed
  BY <1>1, <1>2 DEF Killed, Fails
<1>3. CASE CallRaises
  <2>1. CASE run.phase # "next"
    <3>1. run' = Raise /\ run.phase \in {"jwks", "create", "brand", "update", "put", "ensure"}
      BY <1>3, <2>1 DEF CallRaises
    <3>2. Leaves(run.todo, FALSE) /\ run'.errors
      BY <1>1, <3>1, RaiseLeaves
    <3>. QED  BY <1>1, <3>1, <3>2 DEF Fails
  <2>2. CASE run.phase = "next"
    <3>1. PICK u \in run.todo : run' = [Raise EXCEPT !.todo = @ \ {u}]
      BY <1>3, <2>2 DEF CallRaises
    <3>2. Leaves(run.todo \ {u}, FALSE) /\ run'.errors
      BY <1>1, <3>1, RaiseLeaves
    <3>. QED  BY <1>1, <2>2, <3>2 DEF Fails
  <2>. QED  BY <2>1, <2>2
<1>. QED  BY <1>2, <1>3

LEMMA CreateReplyLostMoves == Inv /\ CreateReplyLost => Strays
<1>. SUFFICES ASSUME Inv, CreateReplyLost PROVE Strays
  OBVIOUS
<1>. DEFINE new == [uris |-> run.target.uris, branded |-> FALSE]
<1>1. /\ run.phase = "create" /\ nextId \in Ids /\ nextId' = nextId + 1
      /\ cognito' = [cognito EXCEPT ![nextId] = new]
      /\ TablesSame /\ faults' = faults + 1 /\ run' = run
  BY DEF CreateReplyLost, Fault, TablesSame, tables
<1>2. run.target \in PlanSet /\ cognito \in [Ids -> ClientSet \cup {None}] /\ new \in ClientSet
  BY <1>1, TargetFacts DEF ClientSet
<1>. HIDE DEF new
<1>3. cognito'[nextId] # None /\ OnlyClient(nextId)
  BY <1>1, <1>2, NoneAssumption DEF OnlyClient
<1>. QED  BY <1>1, <1>3 DEF Strays

LEMMA ScanRemovedMoves == Inv /\ ScanRemoved => ScansRemoved
<1>. SUFFICES ASSUME Inv, ScanRemoved PROVE ScansRemoved
  OBVIOUS
<1>. DEFINE ks == {u \in Urls \ run.allow : Enabled(u)}
            scan == KeyIds(ks)
<1>1. /\ Quiet /\ run \in RunSet /\ run.phase = "next" /\ run.todo = {}
      /\ run' = [run EXCEPT !.phase = "retire", !.now = clock, !.scan = scan]
  BY DEF ScanRemoved, Quiet, TablesSame, tables, userPool, Inv, TypeOK
<1>2. \A u \in Urls \ run.allow : Enabled(u) => \E c \in scan : c.key = u
  <2>1. \A u \in Urls \ run.allow : Enabled(u) => [key |-> u, id |-> rows[u].id] \in scan
    BY DEF KeyIds, Enabled, Stored
  <2>. QED  BY <2>1
<1>. HIDE DEF scan
<1>3. /\ run'.phase = "retire" /\ SameRound /\ run'.todo = run.todo /\ run'.now = clock
      /\ run'.scan = scan
  BY <1>1 DEF RunSet, SameRound
<1>. QED  BY <1>1, <1>2, <1>3 DEF ScansRemoved

LEMMA RetireRemovedMoves == ASSUME NEW c \in run.scan PROVE Inv /\ RetireRemoved(c) => Retires(c)
<1>. SUFFICES ASSUME Inv, RetireRemoved(c) PROVE Retires(c)
  OBVIOUS
<1>1. /\ run.phase = "retire" /\ run \in RunSet /\ run' = [run EXCEPT !.scan = @ \ {c}]
      /\ PutClient(c.key, Disabled(rows[c.key], run.now + AccessLifetime), None, None)
      /\ UNCHANGED <<clock, cognito, nextId, faults>>
      /\ c.key \in Urls /\ rows[c.key] \in RowSet
  BY IdsFacts DEF RetireRemoved, userPool, Inv, TypeOK, ScanInv
<1>2. /\ run'.phase = run.phase /\ SameRound /\ run'.todo = run.todo /\ run'.now = run.now
      /\ run'.scan = run.scan \ {c}
  BY <1>1 DEF RunSet, SameRound
<1>. QED  BY <1>1, <1>2 DEF Retires

LEMMA ScanExpiredMoves == Inv /\ ScanExpired => ScansExpired
<1>. SUFFICES ASSUME Inv, ScanExpired PROVE ScansExpired
  OBVIOUS
<1>1. PICK view \in {rows} \cup (IF StaleScans THEN {run.before} ELSE {}) :
         run' = [run EXCEPT !.phase = "purge", !.now = clock, !.scan = Scanned(view)]
  BY ZenonT(60) DEF ScanExpired
<1>. DEFINE scan == Scanned(view)
<1>2. Quiet /\ run.phase = "retire" /\ run.scan = {} /\ run \in RunSet
  BY DEF ScanExpired, Quiet, TablesSame, tables, userPool, Inv, TypeOK
<1>3. ScansAreConsistent => \A c \in scan : Expired(rows[c.key])
  <2>1. ScansAreConsistent => view = rows
    BY <1>1 DEF ScansAreConsistent
  <2>2. \A c \in scan : Expired(view[c.key])
    BY DEF Scanned
  <2>. QED  BY <2>1, <2>2
<1>4. run' = [run EXCEPT !.phase = "purge", !.now = clock, !.scan = scan]
  BY <1>1
<1>. HIDE DEF scan
<1>5. run'.phase = "purge" /\ SameRound /\ run'.todo = run.todo /\ run'.scan = scan
  BY <1>2, <1>4 DEF RunSet, SameRound
<1>. QED  BY <1>2, <1>3, <1>5 DEF ScansExpired

LEMMA DeleteBrandingMoves ==
    ASSUME NEW c \in run.scan PROVE Inv /\ DeleteBranding(c) => DeletesBranding(c)
<1>. SUFFICES ASSUME Inv, DeleteBranding(c) PROVE DeletesBranding(c)
  OBVIOUS
<1>. DEFINE client == [cognito[c.id] EXCEPT !.branded = FALSE]
<1>1. /\ run.phase = "purge" /\ run \in RunSet /\ TablesSame /\ UNCHANGED <<nextId, faults>>
      /\ cognito' = IF cognito[c.id] = None THEN cognito ELSE [cognito EXCEPT ![c.id] = client]
      /\ run' = [run EXCEPT !.phase = "deleteClient", !.url = c.key, !.retire = c.id]
  BY DEF DeleteBranding, TablesSame, tables, Inv, TypeOK
<1>2. c.id \in Ids /\ (cognito[c.id] # None => cognito[c.id] \in ClientSet)
  BY <1>1 DEF RunSet, Scans, Inv, TypeOK
<1>3. /\ Deletes /\ run'.phase = "deleteClient"
      /\ run'.scan = run.scan /\ run'.url = c.key /\ run'.retire = c.id
  BY <1>1 DEF RunSet, Deletes, SameRound
<1>4. cognito' = cognito \/ (Calls(c.id) /\ cognito'[c.id].uris = cognito[c.id].uris)
  <2>1. CASE cognito[c.id] = None
    BY <1>1, <2>1
  <2>2. CASE cognito[c.id] # None
    <3>1. client \in ClientSet /\ client.uris = cognito[c.id].uris
      BY <1>2, <2>2 DEF ClientSet
    <3>. HIDE DEF client
    <3>2. Calls(c.id) /\ cognito'[c.id] = client
      BY <1>1, <1>2, <2>2, <3>1, ChangedCalls
    <3>. QED  BY <3>1, <3>2
  <2>. QED  BY <2>1, <2>2
<1>. QED  BY <1>1, <1>3, <1>4 DEF DeletesBranding

LEMMA DeleteClientMoves == Inv /\ DeleteClient => DeletesClient
<1>. SUFFICES ASSUME Inv, DeleteClient PROVE DeletesClient
  OBVIOUS
<1>1. /\ run.phase = "deleteClient" /\ run \in RunSet /\ TablesSame /\ UNCHANGED <<nextId, faults>>
      /\ cognito' = [cognito EXCEPT ![run.retire] = None]
      /\ run' = [run EXCEPT !.phase = "deleteRows"]
  BY DEF DeleteClient, TablesSame, tables, Inv, TypeOK
<1>2. Carries /\ run'.phase = "deleteRows" /\ run'.scan = run.scan
  BY <1>1, PhaseCarries DEF Phases
<1>. QED  BY <1>1, <1>2 DEF DeletesClient, Deletes, Carries

LEMMA DeleteClientRowsMoves == Inv /\ DeleteClientRows => DeletesRows
<1>. SUFFICES ASSUME Inv, DeleteClientRows PROVE DeletesRows
  OBVIOUS
<1>. DEFINE c == [key |-> run.url, id |-> run.retire]
<1>1. /\ run.phase = "deleteRows" /\ run \in RunSet
      /\ UNCHANGED <<clock, tokenLife, cognito, nextId, faults>>
      /\ rows' = [rows EXCEPT ![run.url] = None] /\ index' = [index EXCEPT ![run.retire] = None]
      /\ run' = [run EXCEPT !.phase = "purge", !.url = None, !.retire = None, !.scan = @ \ {c}]
  BY DEF DeleteClientRows, userPool, Inv, TypeOK
<1>. HIDE DEF c
<1>2. run'.phase = "purge" /\ SameRound /\ run'.todo = run.todo /\ run'.scan = run.scan \ {c}
  BY <1>1 DEF RunSet, SameRound
<1>. QED  BY <1>1, <1>2 DEF DeletesRows, Deletes, c

LEMMA EnvironmentMoves == Inv /\ (Environment \/ UNCHANGED vars) => Waits
  BY DEF Environment, Publish, PublishKeys, EditAllowList, DeployStricterRules, Change, Waits,
         Quiet, TablesSame, tables, userPool, vars

(* Every step is one of these.                                             *)
Moved ==
    \/ Waits \/ Tick \/ Begins \/ BeginsDelete \/ Ends \/ Fails \/ Strays
    \/ (\E u \in Urls : Considers(u)) \/ Reacts \/ Moves \/ Cleans

LEMMA NextMoves == Inv /\ SafeInv /\ [Next]_vars => Moved
<1>. SUFFICES ASSUME Inv, SafeInv, [Next]_vars PROVE Moved
  OBVIOUS
<1>1. CASE Tick \/ Environment \/ UNCHANGED vars
  BY <1>1, EnvironmentMoves DEF Moved
<1>2. CASE BeginDelete \/ (\E kind \in Kinds : BeginRun(kind)) \/ (\E u \in Urls : BeginRevalidate(u))
  BY <1>2, BeginDeleteMoves, BeginRunMoves, BeginRevalidateMoves DEF Moved
<1>3. CASE \E u \in Urls : Reconcile(u)
  BY <1>3, ReconcileMoves DEF Moved
<1>4. CASE KeysValidated \/ KeysUnavailable \/ KeysRaise
  BY <1>4, KeysValidatedMoves, KeysUnavailableMoves, KeysRaiseMoves DEF Moved
<1>5. CASE CreateClient \/ BrandClient \/ UpdateCallbacks \/ Put \/ EnsureBranding
  BY <1>5, CreateClientMoves, BrandClientMoves, UpdateCallbacksMoves, PutMoves,
     EnsureBrandingMoves DEF Moved, Moves
<1>6. CASE (\E c \in run.scan : RetireRemoved(c) \/ DeleteBranding(c)) \/ ScanRemoved
           \/ ScanExpired \/ DeleteClient \/ DeleteClientRows
  BY <1>6, RetireRemovedMoves, DeleteBrandingMoves, ScanRemovedMoves, ScanExpiredMoves,
     DeleteClientMoves, DeleteClientRowsMoves DEF Moved, Cleans
<1>7. CASE Answer \/ Finish \/ CallRaises \/ CreateReplyLost \/ Killed
  BY <1>7, EndMoves, FaultMoves, CreateReplyLostMoves DEF Moved
<1>. QED  BY <1>1, <1>2, <1>3, <1>4, <1>5, <1>6, <1>7 DEF Next, RunStep

-----------------------------------------------------------------------------
(* The round.                                                              *)

LEMMA RoundStep == Inv /\ SafeInv /\ Moved => RoundInv'
<1>. SUFFICES ASSUME Inv, SafeInv, Moved PROVE RoundInv'
  OBVIOUS
<1>. USE DEF RoundInv, Working, Cleaning, Purging
<1>0. /\ clock \in Nat /\ run.started \in Nat /\ run.now \in Nat /\ RunLimit \in Nat
      /\ RoundInv
  BY ConstantsAssumption DEF Inv, TypeOK, RunSet, SafeInv
<1>1. CASE Waits \/ Strays \/ Tick
  <2>1. CASE Waits \/ Strays
    BY <1>0, <2>1 DEF Waits, Strays, Quiet, TablesSame
  <2>2. CASE Tick
    BY <1>0, <2>2 DEF Tick
  <2>. QED  BY <1>1, <2>1, <2>2
<1>2. CASE Begins \/ BeginsDelete
  BY <1>0, <1>2 DEF Begins, BeginsDelete, Quiet, TablesSame
<1>3. ASSUME run' = Idle PROVE RoundInv'
  BY <1>3 DEF Idle
<1>4. ASSUME NEW todo, NEW seen, Leaves(todo, seen), todo \subseteq run.todo,
             clock' = clock, run.phase # "idle"
      PROVE  RoundInv'
  BY <1>0, <1>4 DEF Leaves, SameRound
<1>5. CASE Ends \/ Fails
  <2>1. CASE run' # Idle
    <3>1. PICK todo \in SUBSET run.todo : Leaves(todo, FALSE)
      BY <1>5, <2>1 DEF Ends, Fails
    <3>. QED  BY <1>4, <1>5, <2>1, <3>1 DEF Ends, Fails, TablesSame
  <2>. QED  BY <1>3, <2>1
<1>6. ASSUME NEW u \in Urls, Considers(u) PROVE RoundInv'
  <2>1. CASE Passes(u)
    BY <1>4, <2>1 DEF Passes, Quiet, TablesSame
  <2>2. CASE Skips(u) \/ Replans(u) \/ Fetches(u)
    BY <1>0, <2>2 DEF Skips, Replans, Fetches, Takes, SameRound, Quiet, TablesSame
  <2>. QED  BY <1>6, <2>1, <2>2 DEF Considers
<1>7. CASE Reacts
  <2>1. CASE KeysFail
    BY <1>4, <2>1 DEF KeysFail, Quiet, TablesSame
  <2>2. CASE DraftsNew \/ DraftsSame \/ DraftsDisabled
    BY <1>0, <2>2 DEF DraftsNew, DraftsSame, DraftsDisabled, Drafts, SameRound, Quiet, TablesSame
  <2>. QED  BY <1>7, <2>1, <2>2 DEF Reacts
<1>8. CASE Moves
  <2>1. CASE Ensures \/ (Puts /\ Leaves(run.todo, run.verdict))
    <3>1. clock' = clock /\ run.phase # "idle" /\ Leaves(run.todo, run.verdict)
      BY <2>1 DEF Ensures, Puts, Calls, Quiet, TablesSame
    <3>. QED  BY <1>4, <3>1
  <2>2. CASE Puts /\ ~Leaves(run.todo, run.verdict)
    BY <1>0, <2>2 DEF Puts, SameRound
  <2>3. CASE Creates \/ Brands \/ Updates
    BY <1>0, <2>3 DEF Creates, Brands, Updates, Carries, SameRound, Calls, TablesSame
  <2>. QED  BY <1>8, <2>1, <2>2, <2>3 DEF Moves
<1>9. CASE Cleans
  <2>1. CASE ScansRemoved \/ ScansExpired
    BY <1>0, <2>1 DEF ScansRemoved, ScansExpired, SameRound, Quiet, TablesSame
  <2>2. CASE \E c \in run.scan : Retires(c)
    BY <1>0, <2>2 DEF Retires, SameRound
  <2>3. CASE \E c \in run.scan : DeletesBranding(c)
    BY <1>0, <2>3 DEF DeletesBranding, Deletes, SameRound, TablesSame
  <2>4. CASE DeletesClient \/ DeletesRows
    BY <1>0, <2>4 DEF DeletesClient, DeletesRows, Deletes, SameRound, TablesSame
  <2>. QED  BY <1>9, <2>1, <2>2, <2>3, <2>4 DEF Cleans
<1>. QED  BY <1>1, <1>2, <1>5, <1>6, <1>7, <1>8, <1>9 DEF Moved

-----------------------------------------------------------------------------
(* The rows.                                                               *)

LEMMA PutClientRows ==
    ASSUME NEW u \in Urls, NEW row, NEW retire, NEW when, PutClient(u, row, retire, when)
    PROVE  /\ rows'[u] = row
           /\ \A k \in RowKeys : k # u /\ k # retire => rows'[k] = rows[k]
           /\ retire \in Ids => rows'[retire] = RetiredRow(retire, when)
  BY IdsFacts DEF PutClient

LEMMA PutFacts ==
    ASSUME Inv, run.phase = "put"
    PROVE  /\ run.url \in Urls /\ run.target \in RowSet
           /\ run.retire \in Ids \cup {None}
           /\ PlansNewClient \/ PlansSameClient
<1>1. /\ run.url \in Urls /\ run.target \in PlanSet /\ run \in RunSet
      /\ rows[run.url] # None => rows[run.url].id \in Ids
      /\ PlansNewClient \/ PlansSameClient
  BY TargetFacts DEF Inv, PlanInv
<1>2. run.target.id \in Ids
  BY <1>1 DEF PlansNewClient, PlansSameClient
<1>3. run.target \in RowSet
  BY <1>1, <1>2 DEF PlanSet, RowSet
<1>. QED  BY <1>1, <1>3 DEF RunSet

(* A row that is written is the draft, a row that was there, disabled, or  *)
(* the bookkeeping row of a retired client.                                *)
LEMMA RowsWritten ==
    ASSUME Inv, SafeInv, Moved, NEW k \in RowKeys, rows'[k] # None
    PROVE  \/ rows'[k] = rows[k]
           \/ Puts /\ k = run.url /\ rows'[k] = run.target
           \/ /\ Puts /\ k = run.retire /\ run.retire \in Ids
              /\ rows'[k] = RetiredRow(run.retire, run.now + AccessLifetime)
           \/ /\ \E c \in run.scan : Retires(c) /\ c.key = k
              /\ rows[k] \in RowSet /\ rows'[k] = Disabled(rows[k], run.now + AccessLifetime)
<1>1. CASE Puts
  <2>1. run.phase = "put" /\ PutClient(run.url, run.target, run.retire, run.now + AccessLifetime)
    BY <1>1 DEF Puts
  <2>2. run.url \in Urls /\ run.retire \in Ids \cup {None}
    BY <2>1, PutFacts
  <2>. QED  BY <1>1, <2>1, <2>2, PutClientRows, IdsFacts
<1>2. ASSUME NEW c \in run.scan, Retires(c)
      PROVE  \/ rows'[k] = rows[k]
             \/ /\ \E d \in run.scan : Retires(d) /\ d.key = k
                /\ rows[k] \in RowSet /\ rows'[k] = Disabled(rows[k], run.now + AccessLifetime)
  <2>1. /\ c.key \in Urls /\ rows[c.key] \in RowSet
        /\ PutClient(c.key, Disabled(rows[c.key], run.now + AccessLifetime), None, None)
    BY <1>2 DEF Retires
  <2>2. /\ rows'[c.key] = Disabled(rows[c.key], run.now + AccessLifetime)
        /\ \A j \in RowKeys : j # c.key /\ j # None => rows'[j] = rows[j]
    BY <2>1, PutClientRows
  <2>. QED  BY <1>2, <2>1, <2>2, IdsFacts
<1>3. CASE DeletesRows
  BY <1>3 DEF DeletesRows, Inv, TypeOK
<1>4. CASE rows' = rows
  BY <1>4
<1>5. rows' = rows \/ Puts \/ DeletesRows \/ \E c \in run.scan : Retires(c)
  BY DEF Moved, Waits, Tick, Begins, BeginsDelete, Ends, Fails, Strays, Considers, Skips, Passes, Replans,
         Fetches, Reacts, DraftsNew, DraftsSame, DraftsDisabled, Drafts, KeysFail, Moves, Creates,
         Brands, Updates, Calls, Ensures, Cleans, ScansRemoved, ScansExpired, DeletesBranding,
         DeletesClient, Quiet, TablesSame
<1>. QED  BY <1>1, <1>2, <1>3, <1>4, <1>5

LEMMA RetiredFields ==
    ASSUME NEW i, NEW when
    PROVE  LET row == RetiredRow(i, when)
           IN  Sound(row) /\ ~row.enabled /\ row.id = i /\ row.deleteAfter = when
  BY ConstantsAssumption DEF RetiredRow, Sound

LEMMA RowStep == Inv /\ SafeInv /\ Moved => RowInv'
<1>. SUFFICES ASSUME Inv, SafeInv, Moved, NEW k \in RowKeys, rows'[k] # None PROVE Sound(rows'[k])
  BY DEF RowInv
<1>1. CASE rows'[k] = rows[k]
  BY <1>1 DEF SafeInv, RowInv
<1>2. CASE Puts /\ rows'[k] = run.target
  BY <1>2 DEF Puts, SafeInv, DraftInv, Drafting
<1>3. CASE rows'[k] = RetiredRow(run.retire, run.now + AccessLifetime)
  BY <1>3, RetiredFields
<1>4. CASE rows[k] \in RowSet /\ rows'[k] = Disabled(rows[k], run.now + AccessLifetime)
  <2>1. run.now + AccessLifetime \in Time /\ Sound(rows[k])
    BY <1>4, ConstantsAssumption, NoneAssumption DEF Inv, TypeOK, RunSet, Time, SafeInv, RowInv
  <2>. QED  BY <1>4, <2>1, DisabledFields
<1>. QED  BY <1>1, <1>2, <1>3, <1>4, RowsWritten

-----------------------------------------------------------------------------
(* The draft.                                                              *)

(* Nothing is drafted, and nothing was seen.                               *)
LEMMA NothingDrafted ==
    ASSUME run'.phase \notin {"jwks", "create", "brand", "update", "put"},
           run'.phase \notin {"ensure", "answer"} \/ ~run'.verdict
    PROVE  DraftInv'
  BY DEF DraftInv, Drafting

LEMMA LeavingDrafts == ASSUME NEW todo, Leaves(todo, FALSE) PROVE DraftInv'
  BY NothingDrafted DEF Leaves

LEMMA ReplansDraft == ASSUME NEW u, Inv, Inv', SafeInv, Replans(u) PROVE DraftInv'
<1>1. /\ run'.phase = "put" /\ run'.url = u /\ run'.now = clock /\ run'.retire = None
      /\ rows' = rows /\ Redrafts(u, run'.target) /\ SameRound
  BY DEF Replans, Takes, Quiet, TablesSame
<1>2. /\ run'.target.enabled => run'.target.fetchedAt = run'.now
      /\ run'.verdict /\ run'.target.enabled => SeenNow(run.target)'
  BY <1>1 DEF Replans
<1>3. run'.target # None
  BY <1>1 DEF Inv, PlanInv, PlansNewClient, PlansSameClient
<1>4. /\ Sound(run'.target) /\ run'.target.fp = rows'[run'.url].fp
      /\ ~run'.target.enabled => KeepsDisabled'
  BY <1>1, <1>3 DEF Redrafts, KeepsDisabled, PlansSameClient, Stored
<1>. QED  BY <1>1, <1>2, <1>4 DEF DraftInv, Drafting

(* What a draft made from the document of this round rests on.             *)
LEMMA RestingDraft ==
    ASSUME Inv, Inv', SafeInv, Drafts, Rests(run'.target)
    PROVE  /\ Sound(run'.target) /\ run'.target.enabled /\ run'.target.fetchedAt = run'.now
           /\ SeenNow(run.target)'
<1>1. /\ run.doc # None /\ Acceptable(run.doc.uris, run.strict) /\ run.started <= run.now
  BY DEF Drafts, Inv, PlanInv, SafeInv, DraftInv, RoundInv, Working
<1>. QED  BY <1>1 DEF Drafts, Rests, SameRound, SeenNow, Acceptable

LEMMA ReactsDraft == Inv /\ Inv' /\ SafeInv /\ Reacts => DraftInv'
<1>. SUFFICES ASSUME Inv, Inv', SafeInv, Reacts PROVE DraftInv'
  OBVIOUS
<1>1. CASE KeysFail
  BY <1>1, LeavingDrafts DEF KeysFail
<1>2. CASE DraftsNew
  <2>1. /\ Sound(run'.target) /\ run'.target.enabled /\ run'.target.fetchedAt = run'.now
        /\ SeenNow(run.target)'
    BY <1>2, RestingDraft DEF DraftsNew
  <2>2. rows' = rows /\ cognito' = cognito /\ run'.url = run.url /\ run'.phase = "create"
    BY <1>2 DEF DraftsNew, Drafts, Quiet, TablesSame
  <2>3. CASE ~Stored(run.url) /\ run'.retire = None
    BY <2>1, <2>2, <2>3 DEF DraftInv, Drafting, Stored
  <2>4. CASE /\ Stored(run.url) /\ run'.retire = rows[run.url].id
             /\ run'.target.fp # rows[run.url].fp \/ cognito[rows[run.url].id] = None
    <3>1. Replaces'
      BY <2>2, <2>4 DEF Replaces, Stored
    <3>2. run'.retire # None
      <4>1. rows[run.url] \in RowSet
        BY <1>2, <2>4, JwksFacts DEF DraftsNew, Drafts, Stored
      <4>2. rows[run.url].id \in Ids
        BY <4>1 DEF RowSet
      <4>. QED  BY <2>4, <4>2, IdsFacts
    <3>. QED  BY <2>1, <2>2, <3>1, <3>2 DEF DraftInv, Drafting
  <2>. QED  BY <1>2, <2>3, <2>4 DEF DraftsNew
<1>3. CASE DraftsSame
  <2>1. /\ Sound(run'.target) /\ run'.target.enabled /\ run'.target.fetchedAt = run'.now
        /\ SeenNow(run.target)'
    BY <1>3, RestingDraft DEF DraftsSame
  <2>2. /\ rows' = rows /\ run'.url = run.url /\ run'.phase \in {"update", "put"}
        /\ run'.retire = None /\ run'.target.fp = rows[run.url].fp
    BY <1>3 DEF DraftsSame, Drafts, Quiet, TablesSame
  <2>. QED  BY <2>1, <2>2 DEF DraftInv, Drafting
<1>4. CASE DraftsDisabled
  <2>1. /\ run'.phase = "put" /\ run'.url = run.url /\ run'.retire = None
        /\ rows' = rows /\ Redrafts(run.url, run'.target) /\ ~run'.target.enabled
    BY <1>4 DEF DraftsDisabled, Drafts, Quiet, TablesSame
  <2>2. run'.target # None
    BY <2>1 DEF Inv, PlanInv, PlansNewClient, PlansSameClient
  <2>3. Sound(run'.target) /\ run'.target.fp = rows'[run'.url].fp /\ KeepsDisabled'
    BY <2>1, <2>2 DEF Redrafts, KeepsDisabled, PlansSameClient, Stored
  <2>. QED  BY <2>1, <2>3 DEF DraftInv, Drafting
<1>. QED  BY <1>1, <1>2, <1>3, <1>4 DEF Reacts

(* The draft is the same, but for the identifier of a client just created. *)
LEMMA CarriedDraft ==
    ASSUME Inv, SafeInv, Carries, TablesSame, run.phase \in {"create", "brand", "update"},
           run'.phase \in {"brand", "put"}, SameContent(run'.target, run.target),
           run.retire # None => Replaces'
    PROVE  DraftInv'
<1>1. KeepsDisabled => run.phase = "put"
  BY DEF KeepsDisabled
<1>2. /\ Sound(run.target) /\ run.target.enabled /\ run.target.fetchedAt = run.now
      /\ run.retire = None /\ Stored(run.url) => run.target.fp = rows[run.url].fp
      /\ run.verdict => SeenNow(run.target)
  BY <1>1 DEF SafeInv, DraftInv, Drafting
<1>3. /\ Sound(run'.target) /\ run'.target.enabled /\ run'.target.fetchedAt = run'.now
      /\ run'.retire = None /\ Stored(run.url)' => run'.target.fp = rows'[run'.url].fp
  BY <1>2 DEF Carries, SameContent, Sound, TablesSame, Stored
<1>4. run'.verdict => SeenNow(run.target)'
  BY <1>2 DEF Carries, SameRound, SameContent, SeenNow, Acceptable
<1>5. run'.retire = run.retire
  BY DEF Carries
<1>. QED  BY <1>3, <1>4, <1>5 DEF DraftInv, Drafting

(* The client to be retired is not the one that is created for it.         *)
LEMMA RetiredIsOlder ==
    ASSUME Inv, SafeInv, run.phase = "create", run.retire # None, OnlyClient(nextId)
    PROVE  Replaces /\ run.retire # nextId /\ cognito'[run.retire] = cognito[run.retire]
<1>1. Replaces /\ RetiresStored
  BY DEF Inv, PlanInv, SafeInv, DraftInv, Drafting
<1>2. /\ run.url \in RowKeys /\ rows[run.url] # None /\ run.retire = rows[run.url].id
      /\ run.retire \in Ids /\ nextId \in Nat
  BY <1>1, TargetFacts DEF RetiresStored
<1>3. run.retire < nextId
  BY <1>2 DEF Inv, IdsInv
<1>4. run.retire # nextId
  BY <1>2, <1>3, IdsFacts
<1>. QED  BY <1>1, <1>2, <1>4 DEF OnlyClient

LEMMA StrayDraft == Inv /\ SafeInv /\ Strays => DraftInv'
<1>. SUFFICES ASSUME Inv, SafeInv, Strays PROVE DraftInv'
  OBVIOUS
<1>1. run.phase = "create" /\ run' = run /\ rows' = rows /\ OnlyClient(nextId)
  BY DEF Strays, TablesSame
<1>2. run.retire # None => Replaces'
  <2>1. run.retire # None => Replaces /\ cognito'[run.retire] = cognito[run.retire]
    BY <1>1, RetiredIsOlder
  <2>. QED  BY <1>1, <2>1 DEF Replaces, Stored
<1>. QED  BY <1>1, <1>2 DEF SafeInv, DraftInv, Drafting, KeepsDisabled, PlansSameClient, SeenNow,
                            Stored, Enabled

LEMMA MovesDraft == Inv /\ Inv' /\ SafeInv /\ Moves => DraftInv'
<1>. SUFFICES ASSUME Inv, Inv', SafeInv, Moves PROVE DraftInv'
  OBVIOUS
<1>1. CASE Creates
  <2>1. ASSUME run.retire # None PROVE Replaces'
    <3>1. Replaces /\ run.retire # nextId /\ cognito'[run.retire] = cognito[run.retire]
      BY <1>1, <2>1, RetiredIsOlder DEF Creates
    <3>. QED  BY <1>1, <3>1 DEF Creates, TablesSame, Carries, SameContent, Replaces, Stored
  <2>. QED  BY <1>1, <2>1, CarriedDraft DEF Creates
<1>2. CASE Brands
  <2>1. ASSUME run.retire # None PROVE Replaces'
    <3>1. Replaces /\ rows' = rows /\ run.retire \in Ids /\ run.retire # run.target.id
      BY <1>2, <2>1 DEF Brands, Calls, TablesSame, Inv, TypeOK, RunSet, SafeInv, DraftInv, Drafting, Replaces
    <3>2. cognito'[run.retire] = cognito[run.retire]
      BY <1>2, <3>1 DEF Brands, Calls, OnlyClient
    <3>. QED  BY <1>2, <3>1, <3>2 DEF Brands, Carries, Replaces, Stored
  <2>. QED  BY <1>2, <2>1, CarriedDraft DEF Brands, Calls, SameContent
<1>3. CASE Updates
  <2>1. run.retire = None
    BY <1>3 DEF Updates, Inv, PlanInv, PlansSameClient
  <2>. QED  BY <1>3, <2>1, CarriedDraft DEF Updates, Calls, SameContent
<1>4. CASE Puts
  <2>1. /\ run.phase = "put" /\ run.url \in Urls /\ rows'[run.url] = run.target
        /\ run.verdict /\ run.target.enabled => SeenNow(run.target)
    BY <1>4, PutFacts, PutClientRows DEF Puts, SafeInv, DraftInv, Drafting
  <2>2. /\ run'.phase \in {"ensure", "answer", "next"} /\ (run'.verdict => run.verdict) /\ SameRound
        /\ run'.phase # "next" => run'.url = run.url /\ run'.doc = run.doc
    BY <1>4 DEF Puts, Leaves
  <2>. QED  BY <2>1, <2>2 DEF DraftInv, Drafting, SeenNow, Enabled, SameRound, Acceptable
<1>5. CASE Ensures
  <2>1. run.phase = "ensure" /\ rows' = rows /\ Leaves(run.todo, run.verdict)
    BY <1>5 DEF Ensures, Calls, Quiet, TablesSame
  <2>2. /\ run'.phase \in {"answer", "next"} /\ (run'.verdict => run.verdict) /\ SameRound
        /\ run'.phase # "next" => run'.url = run.url /\ run'.doc = run.doc
    BY <2>1 DEF Leaves
  <2>3. run.verdict /\ Enabled(run.url) => SeenNow(rows[run.url])
    BY <2>1 DEF SafeInv, DraftInv
  <2>. QED  BY <2>1, <2>2, <2>3 DEF DraftInv, Drafting, SeenNow, Enabled, Stored, SameRound, Acceptable
<1>. QED  BY <1>1, <1>2, <1>3, <1>4, <1>5 DEF Moves

LEMMA DraftStep == Inv /\ Inv' /\ SafeInv /\ Moved => DraftInv'
<1>. SUFFICES ASSUME Inv, Inv', SafeInv, Moved PROVE DraftInv'
  OBVIOUS
<1>1. CASE Waits \/ Tick
  <2>1. run' = run /\ rows' = rows /\ cognito' = cognito
    BY <1>1 DEF Waits, Quiet, TablesSame, Tick, userPool
  <2>. QED  BY <2>1 DEF SafeInv, DraftInv, Drafting, KeepsDisabled, PlansSameClient, Replaces, SeenNow,
                        Stored, Enabled
<1>5. CASE Strays
  BY <1>5, StrayDraft
<1>2. CASE Begins \/ BeginsDelete \/ Cleans
  BY <1>2, NothingDrafted DEF Begins, BeginsDelete, Cleans, ScansRemoved, Retires, ScansExpired,
     DeletesBranding, DeletesClient, DeletesRows
<1>3. CASE Ends \/ Fails
  <2>1. CASE run' = Idle
    BY <2>1, NothingDrafted DEF Idle
  <2>2. CASE \E todo : Leaves(todo, FALSE)
    BY <2>2, LeavingDrafts
  <2>. QED  BY <1>3, <2>1, <2>2 DEF Ends, Fails
<1>4. ASSUME NEW u \in Urls, Considers(u) PROVE DraftInv'
  <2>1. CASE Passes(u)
    BY <2>1, LeavingDrafts DEF Passes
  <2>2. CASE Skips(u)
    BY <2>2, NothingDrafted DEF Skips
  <2>3. CASE Replans(u)
    BY <2>3, ReplansDraft
  <2>4. CASE Fetches(u)
    BY <2>4 DEF Fetches, Takes, SameRound, DraftInv, Drafting
  <2>. QED  BY <1>4, <2>1, <2>2, <2>3, <2>4 DEF Considers
<1>. QED  BY <1>1, <1>2, <1>3, <1>4, <1>5, ReactsDraft, MovesDraft DEF Moved

LEMMA NextSafe == Inv /\ Inv' /\ SafeInv /\ [Next]_vars => SafeInv'
  BY NextMoves, RoundStep, RowStep, DraftStep DEF SafeInv

LEMMA InitSafe == Init => SafeInv
  BY DEF Init, Idle, SafeInv, RoundInv, RowInv, DraftInv, Drafting, Working, Cleaning, Purging

LEMMA SafeInvariant == Spec => []SafeInv
  BY InitSafe, NextSafe, RegistrarInvariant, PTL DEF Spec

-----------------------------------------------------------------------------
(* An invocation that answers fresh has itself, since it started, seen the *)
(* document whose redirect URIs it leaves enabled, under its own rules:    *)
(* whatever is published, retracted or deployed meanwhile, and whatever    *)
(* becomes of the document's keys.                                         *)
THEOREM RegistrarFreshMeansSeenNow == Spec => []FreshMeansSeenNow
<1>1. SafeInv => FreshMeansSeenNow
  BY DEF SafeInv, RoundInv, DraftInv, SeenNow, FreshMeansSeenNow
<1>. QED  BY <1>1, SafeInvariant, PTL

(* What a step that writes a URL's row may do to the client behind it.     *)
LEMMA WritingRotates ==
    ASSUME Inv, SafeInv, Puts, NEW u \in Urls, Stored(u), rows'[u] # None
    PROVE  LET old == rows[u] new == rows'[u]
           IN  /\ new.id = old.id => new.fp = old.fp
               /\ new.id # old.id
                     => /\ new.fp # old.fp \/ cognito[old.id] = None
                        /\ index'[old.id] = [key |-> old.id, enabled |-> FALSE]
                        /\ rows'[old.id] # None /\ rows'[old.id].deleteAfter # None
<1>1. /\ run.phase = "put" /\ run.url \in Urls /\ run.target \in RowSet /\ run.retire \in Ids \cup {None}
      /\ PlansNewClient \/ PlansSameClient
      /\ PutClient(run.url, run.target, run.retire, run.now + AccessLifetime)
  BY PutFacts DEF Puts
<1>2. /\ rows'[run.url] = run.target
      /\ \A k \in RowKeys : k # run.url /\ k # run.retire => rows'[k] = rows[k]
      /\ run.retire \in Ids => rows'[run.retire] = RetiredRow(run.retire, run.now + AccessLifetime)
  BY <1>1, PutClientRows
<1>3. CASE u # run.url
  <2>1. rows'[u] = rows[u]
    BY <1>1, <1>2, <1>3, IdsFacts
  <2>. QED  BY <2>1
<1>4. CASE u = run.url /\ run.retire = None
  <2>1. PlansSameClient
    <3>1. rows[u] \in RowSet
      BY <1>4, IdsFacts DEF Stored, Inv, TypeOK
    <3>2. rows[u].id # None
      BY <3>1, IdsFacts DEF RowSet
    <3>. QED  BY <1>1, <1>4, <3>2 DEF PlansNewClient, RetiresStored, Stored
  <2>2. run.target.fp = rows[u].fp
    BY <1>1, <1>4 DEF SafeInv, DraftInv, Drafting
  <2>. QED  BY <1>2, <1>4, <2>1, <2>2 DEF PlansSameClient
<1>5. CASE u = run.url /\ run.retire # None
  <2>1. Replaces /\ run.target.id # run.retire
    BY <1>1, <1>5 DEF SafeInv, DraftInv, Drafting, Replaces
  <2>2. run.retire = rows[u].id /\ run.retire \in Ids
    BY <1>1, <1>5, <2>1 DEF PlansNewClient, PlansSameClient, RetiresStored, Replaces, Stored
  <2>3. index'[run.retire] = [key |-> run.retire, enabled |-> FALSE]
    BY <1>1, <2>1, <2>2 DEF PutClient
  <2>4. /\ rows'[run.retire] # None /\ rows'[run.retire].deleteAfter # None
    <3>1. run.now + AccessLifetime \in Time /\ run.now + AccessLifetime # None
      BY ConstantsAssumption DEF Inv, TypeOK, RunSet, Time
    <3>2. RetiredRow(run.retire, run.now + AccessLifetime) \in RowSet
      BY <2>2, <3>1, RetiredRowType
    <3>. QED  BY <1>2, <2>2, <3>1, <3>2, RetiredFields, NoneAssumption
  <2>5. run.target.fp # rows[u].fp \/ cognito[rows[u].id] = None
    BY <1>5, <2>1, <2>2 DEF Replaces
  <2>. QED  BY <1>2, <1>5, <2>1, <2>2, <2>3, <2>4, <2>5
<1>. QED  BY <1>3, <1>4, <1>5

(* Key material that changed never keeps its client, and no client is      *)
(* replaced unless its key material changed or Cognito lost it; the step   *)
(* that replaces it disables it and puts it up for deletion.               *)
THEOREM RegistrarRotationIsComplete == Spec => RotationIsComplete
<1>1. Inv /\ SafeInv /\ [Next]_vars => [RotationStep]_vars
  <2>. SUFFICES ASSUME Inv, SafeInv, Moved PROVE RotationStep
    BY NextMoves
  <2>. SUFFICES ASSUME NEW u \in Urls, Stored(u), rows'[u] # None
                PROVE  LET old == rows[u] new == rows'[u]
                       IN  /\ new.id = old.id => new.fp = old.fp
                           /\ new.id # old.id
                                 => /\ new.fp # old.fp \/ cognito[old.id] = None
                                    /\ index'[old.id] = [key |-> old.id, enabled |-> FALSE]
                                    /\ rows'[old.id] # None /\ rows'[old.id].deleteAfter # None
    BY DEF RotationStep
  <2>1. CASE Puts
    BY <2>1, WritingRotates
  <2>2. CASE rows'[u] = rows[u]
    BY <2>2
  <2>3. CASE rows[u] \in RowSet /\ rows'[u] = Disabled(rows[u], run.now + AccessLifetime)
    <3>1. run.now + AccessLifetime \in Time
      BY ConstantsAssumption DEF Inv, TypeOK, RunSet, Time
    <3>2. rows'[u].id = rows[u].id /\ rows'[u].fp = rows[u].fp
      BY <2>3, <3>1, DisabledFields
    <3>. QED  BY <3>2
  <2>. QED  BY <2>1, <2>2, <2>3, RowsWritten, IdsFacts
<1>. QED  BY <1>1, RegistrarInvariant, SafeInvariant, PTL DEF Spec, RotationIsComplete

-----------------------------------------------------------------------------
(* Staleness.                                                              *)

FetchErrorsOnly == \A u \in Urls : web[u] # Broken /\ keys[u] # Broken

LEMMA OthersPublish ==
    [Next]_vars => Environment \/ (web' = web /\ keys' = keys)
<1>. SUFFICES ASSUME [Next]_vars PROVE Environment \/ UNCHANGED environment \/ (web' = web /\ keys' = keys)
  BY DEF environment
<1>1. CASE Tick \/ BeginDelete \/ (\E kind \in Kinds : BeginRun(kind)) \/ (\E u \in Urls : BeginRevalidate(u))
  BY <1>1 DEF Tick, BeginDelete, BeginRun, Begin, BeginRevalidate
<1>2. CASE \E u \in Urls : Reconcile(u)
  BY <1>2 DEF Reconcile, SkipCached, FetchFailed, FetchRaises, NotModified, FetchedUnacceptable,
              Modified, Consider
<1>3. CASE KeysValidated \/ KeysUnavailable \/ KeysRaise \/ CreateClient \/ BrandClient
           \/ UpdateCallbacks \/ Put \/ EnsureBranding \/ Answer
  BY <1>3 DEF KeysValidated, KeysUnavailable, KeysRaise, CreateClient, BrandClient,
              UpdateCallbacks, Put, EnsureBranding, Answer
<1>4. CASE \E c \in run.scan : RetireRemoved(c) \/ DeleteBranding(c)
  BY <1>4 DEF RetireRemoved, DeleteBranding
<1>5. CASE ScanRemoved \/ ScanExpired \/ DeleteClient \/ DeleteClientRows \/ Finish
           \/ CallRaises \/ CreateReplyLost \/ Killed
  <2>1. UNCHANGED environment
    BY Zenon, <1>5 DEF ScanRemoved, ScanExpired, DeleteClient, DeleteClientRows, Finish, CallRaises,
                       CreateReplyLost, Killed, Fault
  <2>. QED  BY <2>1
<1>6. CASE UNCHANGED vars
  BY <1>6 DEF vars
<1>. QED  BY <1>1, <1>2, <1>3, <1>4, <1>5, <1>6 DEF Next, RunStep

LEMMA FetchErrorsStep ==
    OutagesAreFetchErrors /\ Inv /\ FetchErrorsOnly /\ [Next]_vars => FetchErrorsOnly'
<1>. SUFFICES ASSUME OutagesAreFetchErrors, Inv, FetchErrorsOnly, Environment PROVE FetchErrorsOnly'
  BY OthersPublish DEF FetchErrorsOnly
<1>1. Broken \notin Documents \cup Outages /\ Broken \notin Keys \cup Outages
  BY ConstantsAssumption DEF NotFetched, OutagesAreFetchErrors
<1>2. DOMAIN web = Urls /\ DOMAIN keys = Urls
      /\ web = [u \in Urls |-> web[u]] /\ keys = [u \in Urls |-> keys[u]]
  BY DEF Inv, TypeOK
<1>3. CASE \E u \in Urls, d \in Documents \cup Outages : Publish(u, d)
  BY <1>1, <1>2, <1>3 DEF Publish, FetchErrorsOnly
<1>4. CASE \E u \in Urls, k \in Keys \cup Outages : PublishKeys(u, k)
  BY <1>1, <1>2, <1>4 DEF PublishKeys, FetchErrorsOnly
<1>5. CASE (\E u \in Urls : EditAllowList(u)) \/ DeployStricterRules
  BY <1>5 DEF EditAllowList, DeployStricterRules, FetchErrorsOnly
<1>. QED  BY <1>3, <1>4, <1>5 DEF Environment

LEMMA FetchErrorsInvariant == OutagesAreFetchErrors => (Spec => []FetchErrorsOnly)
<1>. SUFFICES ASSUME OutagesAreFetchErrors PROVE Spec => []FetchErrorsOnly
  OBVIOUS
<1>1. Init => FetchErrorsOnly
  BY ConstantsAssumption DEF Init, FetchErrorsOnly, NotFetched
<1>2. Inv /\ FetchErrorsOnly /\ [Next]_vars => FetchErrorsOnly'
  BY FetchErrorsStep
<1>. QED  BY <1>1, <1>2, RegistrarInvariant, PTL DEF Spec

(* A URL that a run has been through is enabled only by a row that is      *)
(* fresh enough.                                                           *)
LEMMA PassedStep ==
    Inv /\ Inv' /\ SafeInv /\ FetchErrorsOnly /\ PassedInv /\ Moved => PassedInv'
<1>. SUFFICES ASSUME Inv, Inv', SafeInv, FetchErrorsOnly, PassedInv, Moved,
                     faults' = 0, run'.phase # "idle", run'.kind \notin {"delete", "revalidate"},
                     NEW u \in run'.allow \ run'.todo,
                     Working' => u # run'.url, Enabled(u)'
              PROVE  run'.started - rows'[u].fetchedAt <= MaxStale
  BY DEF PassedInv
<1>. DEFINE old == rows[u]
            new == rows'[u]
<1>1. /\ run.started \in Nat /\ clock \in Nat /\ run.now \in Nat
      /\ MaxStale \in Nat /\ CacheMax \in Nat /\ CacheMax < MaxStale /\ faults \in Nat
      /\ new # None /\ new.enabled
  BY ConstantsAssumption DEF Inv, TypeOK, RunSet, Enabled, Stored
<1>2. u \in Urls /\ u \in RowKeys /\ (old # None => old.fetchedAt \in Nat /\ old.cacheUntil \in Nat)
  <2>1. u \in Urls
    BY DEF Inv, TypeOK, RunSet, UrlSets
  <2>2. u \in RowKeys /\ (old # None => old \in RowSet)
    BY <2>1, IdsFacts DEF Inv, TypeOK
  <2>. QED  BY <2>1, <2>2 DEF RowSet
<1>3. ASSUME SameRound, run.phase # "idle", faults = 0, u \notin run.todo,
             Working => u # run.url, rows'[u] = rows[u]
      PROVE  run'.started - rows'[u].fetchedAt <= MaxStale
  BY <1>1, <1>3 DEF PassedInv, SameRound, Enabled, Stored
<1>4. CASE Waits \/ Tick
  BY <1>4 DEF Waits, Tick, Quiet, TablesSame, PassedInv, Working, Enabled, Stored
<1>5. CASE Begins \/ BeginsDelete
  BY <1>5 DEF Begins, BeginsDelete
<1>6. CASE Ends \/ Fails \/ Strays
  <2>1. Idle.phase = "idle"
    BY DEF Idle
  <2>2. ~Ends
    BY <2>1 DEF Ends
  <2>3. ~Fails /\ ~Strays
    <3>1. Fails \/ Strays => faults' = faults + 1
      BY DEF Fails, Strays
    <3>. QED  BY <1>1, <3>1
  <2>. QED  BY <1>6, <2>2, <2>3
<1>7. ASSUME NEW v \in Urls, Considers(v) PROVE run'.started - rows'[u].fetchedAt <= MaxStale
  <2>1. /\ rows' = rows /\ faults = 0 /\ run.phase = "next" /\ SameRound /\ run'.todo = run.todo \ {v}
        /\ v \in run.todo
    BY <1>7 DEF Considers, Skips, Passes, Replans, Fetches, Takes, Leaves, Quiet, TablesSame
  <2>2. CASE u # v
    BY <1>3, <2>1, <2>2 DEF Working
  <2>3. CASE u = v /\ Skips(v)
    <3>1. clock < old.cacheUntil /\ old # None /\ Sound(old) /\ run.started <= clock
      BY <1>2, <2>1, <2>3 DEF Skips, Enabled, Stored, SafeInv, RowInv, RoundInv
    <3>2. old.cacheUntil <= old.fetchedAt + CacheMax
      BY <3>1 DEF Sound
    <3>. QED  BY <1>1, <1>2, <2>1, <3>1, <3>2 DEF SameRound
  <2>4. CASE u = v /\ Passes(v)
    <3>1. clock - old.fetchedAt <= MaxStale /\ old # None /\ run.started <= clock
      BY <1>1, <1>2, <2>1, <2>4 DEF Passes, Enabled, Stored, FetchErrorsOnly, SafeInv, RoundInv
    <3>. QED  BY <1>1, <1>2, <2>1, <3>1 DEF SameRound
  <2>5. CASE u = v /\ (Replans(v) \/ Fetches(v))
    BY <2>5 DEF Replans, Fetches, Takes, Working
  <2>. QED  BY <1>7, <2>2, <2>3, <2>4, <2>5 DEF Considers
<1>8. CASE Reacts
  <2>1. CASE KeysFail
    <3>1. /\ rows' = rows /\ faults = 0 /\ run.phase = "jwks" /\ SameRound /\ run'.todo = run.todo
          /\ ~Stored(run.url)
      BY <2>1, JwksFacts DEF KeysFail, Leaves, Quiet, TablesSame, FetchErrorsOnly
    <3>. QED  BY <1>1, <1>3, <3>1 DEF Stored
  <2>2. CASE DraftsNew \/ DraftsSame \/ DraftsDisabled
    <3>1. /\ rows' = rows /\ faults = 0 /\ run.phase = "jwks" /\ SameRound /\ run'.todo = run.todo
          /\ run'.url = run.url /\ Working'
      BY <2>2 DEF DraftsNew, DraftsSame, DraftsDisabled, Drafts, Quiet, TablesSame, Working
    <3>. QED  BY <1>3, <3>1
  <2>. QED  BY <1>8, <2>1, <2>2 DEF Reacts
<1>9. CASE Moves
  <2>1. CASE Creates \/ Brands \/ Updates
    <3>1. /\ rows' = rows /\ faults = 0 /\ run.phase # "idle" /\ SameRound /\ run'.todo = run.todo
          /\ run'.url = run.url /\ Working'
      BY <2>1 DEF Creates, Brands, Updates, Carries, Calls, TablesSame, Working
    <3>. QED  BY <1>3, <3>1
  <2>2. CASE Puts
    <3>1. /\ run.phase = "put" /\ faults = 0 /\ SameRound /\ run'.todo = run.todo
          /\ PutClient(run.url, run.target, run.retire, run.now + AccessLifetime)
      BY <2>2 DEF Puts, Leaves
    <3>2. /\ run.url \in Urls /\ run.retire \in Ids \cup {None} /\ run.target \in RowSet
      BY <3>1, PutFacts
    <3>3. /\ rows'[run.url] = run.target /\ (u # run.url => rows'[u] = rows[u])
      <4>1. /\ rows'[run.url] = run.target
            /\ \A k \in RowKeys : k # run.url /\ k # run.retire => rows'[k] = rows[k]
        BY <3>1, <3>2, PutClientRows
      <4>2. u # run.retire
        BY <1>2, <3>2, IdsFacts
      <4>. QED  BY <1>2, <4>1, <4>2
    <3>4. CASE u = run.url
      <4>1. run.target.enabled => run.target.fetchedAt = run.now /\ run.started <= run.now
        BY <3>1 DEF SafeInv, DraftInv, Drafting, RoundInv, Working
      <4>2. new = run.target
        BY <3>3, <3>4
      <4>. QED  BY <1>1, <3>1, <4>1, <4>2 DEF SameRound
    <3>. QED  BY <1>3, <3>1, <3>3, <3>4
  <2>3. CASE Ensures
    <3>1. /\ run.phase = "ensure" /\ rows' = rows /\ faults = 0 /\ SameRound /\ run'.todo = run.todo
      BY <2>3 DEF Ensures, Leaves, Calls, Quiet, TablesSame
    <3>. QED  BY <1>3, <3>1 DEF Working
  <2>. QED  BY <1>9, <2>1, <2>2, <2>3 DEF Moves
<1>10. CASE Cleans
  <2>1. /\ faults = 0 /\ run.phase \notin {"idle", "jwks", "create", "brand", "update", "put"}
        /\ SameRound /\ run'.todo = run.todo /\ ~Puts
    BY <1>10 DEF Cleans, ScansRemoved, Retires, ScansExpired, DeletesBranding, DeletesClient,
       DeletesRows, Deletes, Quiet, Puts
  <2>2. rows'[u] = rows[u] \/ ~rows'[u].enabled
    <3>1. run.now + AccessLifetime \in Time
      BY ConstantsAssumption DEF Inv, TypeOK, RunSet, Time
    <3>. QED  BY <1>1, <1>2, <2>1, <3>1, RowsWritten, DisabledFields
  <2>. QED  BY <1>1, <1>3, <2>1, <2>2 DEF Working
<1>. QED  BY <1>4, <1>5, <1>6, <1>7, <1>8, <1>9, <1>10 DEF Moved

(* A run that has gone through its allow-list without a fault leaves no    *)
(* client enabled whose document was confirmed more than MaxStale before   *)
(* it started, neither by way of the cache nor by way of failing fetches.  *)
THEOREM RegistrarStalenessBounded == OutagesAreFetchErrors => (Spec => []StalenessBounded)
<1>. SUFFICES ASSUME OutagesAreFetchErrors PROVE Spec => []StalenessBounded
  OBVIOUS
<1>1. Init => PassedInv
  BY DEF Init, Idle, PassedInv
<1>2. Inv /\ Inv' /\ SafeInv /\ FetchErrorsOnly /\ PassedInv /\ [Next]_vars => PassedInv'
  BY PassedStep, NextMoves
<1>3. SafeInv /\ PassedInv => StalenessBounded
  BY DEF SafeInv, RoundInv, Cleaning, Purging, PassedInv, StalenessBounded, Working
<1>. QED  BY <1>1, <1>2, <1>3, RegistrarInvariant, SafeInvariant, FetchErrorsInvariant, PTL DEF Spec

-----------------------------------------------------------------------------
(* Removal from the allow-list.                                            *)

LEMMA RemovedStep == Inv /\ Inv' /\ SafeInv /\ RemovedInv /\ Moved => RemovedInv'
<1>. SUFFICES ASSUME Inv, Inv', SafeInv, RemovedInv, Moved PROVE RemovedInv'
  OBVIOUS
<1>1. CASE Waits \/ Strays \/ Tick
  BY <1>1 DEF Waits, Strays, Tick, Quiet, TablesSame, RemovedInv, Purging, Enabled, Stored
<1>2. CASE ~(Waits \/ Strays \/ Tick \/ Cleans)
  <2>1. run'.phase \notin {"retire", "purge", "deleteClient", "deleteRows"} \/ run'.kind = "delete"
    BY <1>2 DEF Moved, Begins, BeginsDelete, Ends, Fails, Idle, Considers, Skips, Passes, Replans,
           Fetches, Takes, Reacts, DraftsNew, DraftsSame, DraftsDisabled, KeysFail, Moves, Creates,
           Brands, Updates, Puts, Ensures, Leaves
  <2>2. run'.phase # "retire"
    BY <1>2 DEF Moved, Begins, BeginsDelete, Ends, Fails, Idle, Considers, Skips, Passes, Replans,
           Fetches, Takes, Reacts, DraftsNew, DraftsSame, DraftsDisabled, KeysFail, Moves, Creates,
           Brands, Updates, Puts, Ensures, Leaves
  <2>. QED  BY <2>1, <2>2 DEF RemovedInv, Purging
<1>3. CASE ScansRemoved
  BY <1>3 DEF ScansRemoved, SameRound, Quiet, TablesSame, RemovedInv, Purging, Enabled, Stored
<1>4. CASE ScansExpired
  BY <1>4 DEF ScansExpired, SameRound, Quiet, TablesSame, RemovedInv, Purging, Enabled, Stored
<1>5. ASSUME NEW c \in run.scan, Retires(c) PROVE RemovedInv'
  <2>1. /\ c.key \in Urls /\ rows[c.key] \in RowSet /\ run.phase = "retire" /\ run'.phase = "retire"
        /\ PutClient(c.key, Disabled(rows[c.key], run.now + AccessLifetime), None, None)
        /\ run'.scan = run.scan \ {c} /\ SameRound
    BY <1>5 DEF Retires
  <2>2. /\ rows'[c.key] = Disabled(rows[c.key], run.now + AccessLifetime)
        /\ \A j \in RowKeys : j # c.key /\ j # None => rows'[j] = rows[j]
    BY <2>1, PutClientRows
  <2>3. ~rows'[c.key].enabled
    <3>1. run.now + AccessLifetime \in Time
      BY ConstantsAssumption DEF Inv, TypeOK, RunSet, Time
    <3>. QED  BY <2>1, <2>2, <3>1, DisabledFields
  <2>4. \A u \in Urls : Enabled(u)' => u # c.key /\ Enabled(u)
    BY <2>2, <2>3, IdsFacts DEF Enabled, Stored
  <2>5. \A u \in Urls \ run.allow : Enabled(u)' => \E d \in run.scan \ {c} : d.key = u
    BY <2>1, <2>4 DEF RemovedInv
  <2>. QED  BY <2>1, <2>5 DEF RemovedInv, Purging, SameRound
<1>6. CASE (\E c \in run.scan : DeletesBranding(c)) \/ DeletesClient
  <2>1. Purging /\ run'.phase \in {"deleteClient", "deleteRows"} /\ SameRound /\ rows' = rows
    BY <1>6 DEF DeletesBranding, DeletesClient, Deletes, TablesSame, Purging
  <2>. QED  BY <2>1 DEF RemovedInv, Purging, SameRound, Enabled, Stored
<1>7. CASE DeletesRows
  <2>1. Purging /\ run'.phase = "purge" /\ SameRound /\ rows' = [rows EXCEPT ![run.url] = None]
    BY <1>7 DEF DeletesRows, Deletes, Purging
  <2>2. \A u \in Urls : Enabled(u)' => Enabled(u)
    BY <2>1, IdsFacts DEF Enabled, Stored, Inv, TypeOK
  <2>. QED  BY <2>1, <2>2 DEF RemovedInv, Purging, SameRound
<1>. QED  BY <1>1, <1>2, <1>3, <1>4, <1>5, <1>6, <1>7 DEF Cleans

(* By the time a run starts to purge, every client whose URL has left the  *)
(* allow-list is disabled, whatever was edited while the run was under way *)
(* and whichever scan the purge is given.                                  *)
THEOREM RegistrarRemovedIsDisabled == Spec => []RemovedIsDisabled
<1>1. Init => RemovedInv
  BY DEF Init, Idle, RemovedInv, Purging
<1>2. Inv /\ Inv' /\ SafeInv /\ RemovedInv /\ [Next]_vars => RemovedInv'
  BY RemovedStep, NextMoves
<1>3. RemovedInv => RemovedIsDisabled
  BY DEF RemovedInv, RemovedIsDisabled, Purging
<1>. QED  BY <1>1, <1>2, <1>3, RegistrarInvariant, SafeInvariant, PTL DEF Spec

-----------------------------------------------------------------------------
(* Purges, as long as they see the rows as they are: what they delete, and *)
(* the access tokens that are left.                                        *)

(* A row's INDEX# row leads back to it, so no two rows share a client.     *)
Leading ==
    \A k \in RowKeys : rows[k] # None =>
        /\ rows[k] \in RowSet /\ rows[k].id \in Ids
        /\ index[rows[k].id] # None /\ index[rows[k].id].key = k
        /\ index[rows[k].id].enabled = rows[k].enabled

LEMMA ReadersLead == TypeOK /\ ReadersAgree => Leading
<1>. SUFFICES ASSUME TypeOK, ReadersAgree, NEW k \in RowKeys, rows[k] # None
              PROVE  /\ rows[k] \in RowSet /\ rows[k].id \in Ids
                     /\ index[rows[k].id] # None /\ index[rows[k].id].key = k
                     /\ index[rows[k].id].enabled = rows[k].enabled
  BY DEF Leading
<1>1. rows[k] \in RowSet
  BY DEF TypeOK
<1>2. rows[k].id \in Ids /\ rows[k].enabled \in BOOLEAN
  BY <1>1 DEF RowSet
<1>3. index[rows[k].id] = [key |-> k, enabled |-> rows[k].enabled]
  BY DEF ReadersAgree
<1>4. [key |-> k, enabled |-> rows[k].enabled] \in IndexSet
  BY <1>2 DEF IndexSet
<1>. QED  BY <1>1, <1>2, <1>3, <1>4, NoneAssumption

LEMMA LeadingInvariant == ScansAreConsistent => (Spec => []Leading)
<1>. SUFFICES ASSUME ScansAreConsistent PROVE Spec => []Leading
  OBVIOUS
<1>1. Inv => Leading
  BY ReadersLead DEF Inv
<1>. QED  BY <1>1, RegistrarInvariant, PTL

LEMMA PurgedStep == ScansAreConsistent /\ Inv /\ Inv' /\ PurgedInv /\ Moved => PurgedInv'
<1>. SUFFICES ASSUME ScansAreConsistent, Inv, Inv', PurgedInv, Moved, Purging', run'.kind # "delete",
                     NEW c \in run'.scan
              PROVE  LET row == rows'[c.key]
                     IN  ~row.enabled /\ row.deleteAfter # None /\ row.deleteAfter <= clock'
  BY DEF PurgedInv
<1>0. c.key \in RowKeys /\ rows'[c.key] # None
  BY DEF Inv, TypeOK, RunSet, Scans, PurgeInv, Purging
<1>1. CASE Waits \/ Strays \/ Tick
  <2>1. run' = run /\ rows' = rows /\ clock <= clock' /\ clock \in Nat /\ clock' \in Nat
    BY <1>1 DEF Waits, Strays, Tick, Quiet, TablesSame, Inv, TypeOK
  <2>2. /\ ~rows[c.key].enabled /\ rows[c.key].deleteAfter # None /\ rows[c.key].deleteAfter <= clock
    BY <2>1 DEF PurgedInv, Purging
  <2>3. rows[c.key].deleteAfter \in Nat
    <3>1. rows[c.key] \in RowSet
      BY <1>0, <2>1 DEF Inv, TypeOK
    <3>. QED  BY <2>2, <3>1 DEF RowSet, Time
  <2>. QED  BY <2>1, <2>2, <2>3
<1>2. CASE ~(Waits \/ Strays \/ Tick \/ Cleans)
  BY <1>2 DEF Moved, Begins, BeginsDelete, Ends, Fails, Idle, Considers, Skips, Passes, Replans,
         Fetches, Takes, Reacts, DraftsNew, DraftsSame, DraftsDisabled, KeysFail, Moves, Creates,
         Brands, Updates, Puts, Ensures, Leaves, Purging
<1>3. CASE ScansRemoved \/ \E d \in run.scan : Retires(d)
  BY <1>3 DEF ScansRemoved, Retires, Purging
<1>4. CASE ScansExpired
  BY <1>4 DEF ScansExpired, Expired, Quiet, TablesSame
<1>5. CASE (\E d \in run.scan : DeletesBranding(d)) \/ DeletesClient
  BY <1>5 DEF DeletesBranding, DeletesClient, Deletes, SameRound, TablesSame, Purging, PurgedInv
<1>6. CASE DeletesRows
  <2>1. /\ c \in run.scan /\ Purging /\ run.kind # "delete" /\ clock' = clock
        /\ rows' = [rows EXCEPT ![run.url] = None]
    BY <1>6 DEF DeletesRows, Deletes, SameRound, Purging
  <2>2. rows'[c.key] = rows[c.key]
    BY <1>0, <2>1 DEF Inv, TypeOK
  <2>. QED  BY <2>1, <2>2 DEF PurgedInv
<1>. QED  BY <1>1, <1>2, <1>3, <1>4, <1>5, <1>6 DEF Cleans

LEMMA PurgedInvariant == ScansAreConsistent => (Spec => []PurgedInv)
<1>. SUFFICES ASSUME ScansAreConsistent PROVE Spec => []PurgedInv
  OBVIOUS
<1>1. Init => PurgedInv
  BY DEF Init, Idle, PurgedInv, Purging
<1>2. Inv /\ Inv' /\ SafeInv /\ PurgedInv /\ [Next]_vars => PurgedInv'
  BY PurgedStep, NextMoves
<1>. QED  BY <1>1, <1>2, RegistrarInvariant, SafeInvariant, PTL DEF Spec

(* Only a purge takes a client out of the user pool: the one it is at.     *)
LEMMA ClientDeleted ==
    ASSUME ScansAreConsistent, Inv, PurgedInv, Leading, Moved, NEW i \in Ids,
           cognito[i] # None, cognito'[i] = None, run.kind # "delete"
    PROVE  /\ run.url \in RowKeys /\ rows[run.url] # None /\ rows[run.url].id = i
           /\ ~rows[run.url].enabled
           /\ rows[run.url].deleteAfter # None /\ rows[run.url].deleteAfter <= clock
<1>1. DeletesClient
  <2>1. ASSUME NEW j, Calls(j) PROVE FALSE
    BY <2>1 DEF Calls, OnlyClient
  <2>2. ~Creates /\ ~Strays
    BY DEF Creates, Strays, OnlyClient
  <2>. QED  BY <2>1, <2>2 DEF Moved, Waits, Tick, userPool, Begins, BeginsDelete, Ends, Fails, Considers, Skips,
         Passes, Replans, Fetches, Reacts, DraftsNew, DraftsSame, DraftsDisabled, Drafts, KeysFail,
         Moves, Brands, Updates, Puts, Ensures, Quiet, Cleans, ScansRemoved, Retires, ScansExpired,
         DeletesBranding, DeletesRows
<1>2. run.phase = "deleteClient" /\ i = run.retire
  BY <1>1 DEF DeletesClient, Inv, TypeOK
<1>. DEFINE c == [key |-> run.url, id |-> run.retire]
<1>3. /\ c \in run.scan /\ rows[c.key] # None /\ rows[c.key].id = c.id /\ run.url \in RowKeys
  BY <1>2 DEF Inv, PurgeInv, ScanInv
<1>4. c.key = run.url /\ c.id = i
  BY <1>2
<1>. HIDE DEF c
<1>5. ~rows[c.key].enabled /\ rows[c.key].deleteAfter # None /\ rows[c.key].deleteAfter <= clock
  BY <1>2, <1>3 DEF PurgedInv, Purging
<1>. QED  BY <1>3, <1>4, <1>5

(* A purge never takes down the client by which an allow-listed URL is     *)
(* served, not even one whose deletion was pending when the same run       *)
(* enabled it again.                                                       *)
THEOREM RegistrarServedClientsKept == ScansAreConsistent => (Spec => ServedClientsKept)
<1>. SUFFICES ASSUME ScansAreConsistent PROVE Spec => ServedClientsKept
  OBVIOUS
<1>. DEFINE Kept == \A u \in run.allow, i \in Ids :
                      Enabled(u) /\ rows[u].id = i /\ cognito[i] # None /\ cognito'[i] = None
                          => run.kind = "delete"
<1>1. Inv /\ SafeInv /\ Leading /\ PurgedInv /\ [Next]_vars => [Kept]_vars
  <2>. SUFFICES ASSUME Inv, Leading, PurgedInv, Moved, NEW u \in run.allow, NEW i \in Ids,
                       Enabled(u), rows[u].id = i, cognito[i] # None, cognito'[i] = None,
                       run.kind # "delete"
                PROVE  FALSE
    BY NextMoves
  <2>1. run.url \in RowKeys /\ rows[run.url] # None /\ rows[run.url].id = i /\ ~rows[run.url].enabled
    BY ClientDeleted
  <2>2. u \in RowKeys
    BY IdsFacts DEF Inv, TypeOK, RunSet, UrlSets
  <2>3. index[i].key = u /\ index[i].key = run.url
    BY <2>1, <2>2 DEF Leading, Enabled, Stored
  <2>. QED  BY <2>1, <2>3 DEF Enabled
<1>. QED  BY <1>1, RegistrarInvariant, SafeInvariant, LeadingInvariant, PurgedInvariant, PTL
          DEF Spec, ServedClientsKept

LEMMA TokenStep ==
    ScansAreConsistent /\ Inv /\ SafeInv /\ Leading /\ Leading' /\ TokenInv /\ Moved => TokenInv'
<1>. SUFFICES ASSUME ScansAreConsistent, Inv, SafeInv, Leading, Leading', TokenInv, Moved,
                     NEW k \in RowKeys, rows'[k] # None, rows'[k].deleteAfter # None
              PROVE  \/ tokenLife'[rows'[k].id] = 0
                     \/ tokenLife'[rows'[k].id] + clock' <= rows'[k].deleteAfter + RunLimit
  BY DEF TokenInv
<1>. DEFINE i == rows'[k].id
<1>0. /\ clock \in Nat /\ RunLimit \in Nat /\ AccessLifetime \in Nat /\ run.now \in Nat /\ run.started \in Nat
      /\ i \in Ids /\ rows'[k] \in RowSet /\ rows'[k].deleteAfter \in Nat
      /\ \A j \in Ids : tokenLife[j] \in 0 .. AccessLifetime
  <2>1. i \in Ids /\ rows'[k] \in RowSet
    BY DEF Leading
  <2>2. rows'[k].deleteAfter \in Nat
    BY <2>1 DEF RowSet, Time
  <2>. QED  BY <2>1, <2>2, ConstantsAssumption DEF Inv, TypeOK, RunSet
<1>1. ASSUME rows'[k] = rows[k], clock' = clock, tokenLife'[i] = tokenLife[i]
      PROVE  tokenLife'[i] = 0 \/ tokenLife'[i] + clock' <= rows'[k].deleteAfter + RunLimit
  BY <1>1 DEF TokenInv
<1>2. CASE Tick
  <2>1. /\ clock' = clock + 1 /\ rows' = rows /\ index' = index
        /\ tokenLife'[i] = IF tokenLife[i] = 0 \/ (index[i] # None /\ index[i].enabled)
                           THEN tokenLife[i] ELSE tokenLife[i] - 1
    BY <1>0, <1>2 DEF Tick
  <2>2. ~index[i].enabled
    BY <2>1 DEF SafeInv, RowInv, Sound, Leading
  <2>3. tokenLife[i] = 0 \/ tokenLife[i] + clock <= rows'[k].deleteAfter + RunLimit
    BY <2>1 DEF TokenInv
  <2>4. tokenLife[i] \in Nat
    BY <1>0
  <2>. QED  BY <1>0, <2>1, <2>2, <2>3, <2>4
<1>3. CASE Puts
  <2>1. /\ run.phase = "put" /\ clock' = clock
        /\ PutClient(run.url, run.target, run.retire, run.now + AccessLifetime)
    BY <1>3 DEF Puts
  <2>2. /\ run.url \in Urls /\ run.retire \in Ids \cup {None} /\ run.target \in RowSet
    BY <2>1, PutFacts
  <2>3. \A j \in Ids : tokenLife'[j] = tokenLife[j] \/ (run.target.enabled /\ j = run.target.id)
    BY <2>1 DEF PutClient, Inv, TypeOK
  <2>4. /\ Sound(run.target) /\ (~run.target.enabled => KeepsDisabled)
        /\ run.retire # None => run.target.id # run.retire
        /\ run.started <= run.now /\ clock <= run.started + RunLimit
    BY <2>1 DEF SafeInv, DraftInv, Drafting, Replaces, RoundInv, Working
  <2>5. rows'[run.url] = run.target
    BY <2>1, <2>2, PutClientRows
  <2>6. CASE k = run.url
    <3>1. ~run.target.enabled /\ KeepsDisabled
      BY <2>4, <2>5, <2>6 DEF Sound
    <3>2. /\ rows[k] # None /\ i = rows[k].id /\ rows'[k].deleteAfter = rows[k].deleteAfter
      BY <2>5, <2>6, <3>1 DEF KeepsDisabled, PlansSameClient
    <3>. QED  BY <1>0, <2>1, <2>3, <3>1, <3>2 DEF TokenInv
  <2>7. CASE k = run.retire /\ run.retire \in Ids
    <3>1. rows'[k] = RetiredRow(k, run.now + AccessLifetime)
      BY <2>1, <2>2, <2>7, PutClientRows
    <3>2. i = k /\ rows'[k].deleteAfter = run.now + AccessLifetime
      BY <3>1, RetiredFields
    <3>3. run.retire # None /\ i # run.target.id
      BY <2>4, <2>7, <3>2, IdsFacts
    <3>4. tokenLife'[i] = tokenLife[i]
      BY <1>0, <2>3, <3>3
    <3>5. tokenLife[i] <= AccessLifetime /\ tokenLife[i] \in Nat
      BY <1>0
    <3>. QED  BY <1>0, <2>1, <2>4, <3>2, <3>4, <3>5
  <2>8. CASE k # run.url /\ rows'[k] = rows[k]
    <3>1. i # run.target.id
      <4>1. run.url \in RowKeys /\ rows'[run.url] # None /\ rows'[run.url].id = run.target.id
        BY <2>2, <2>5, NoneAssumption, IdsFacts
      <4>2. index'[run.target.id].key = run.url
        BY <4>1 DEF Leading
      <4>3. index'[i].key = k
        BY DEF Leading
      <4>. QED  BY <2>8, <4>2, <4>3
    <3>. QED  BY <1>0, <1>1, <2>1, <2>3, <2>8, <3>1
  <2>9. k # run.url /\ k # run.retire => rows'[k] = rows[k]
    BY <2>1, <2>2, PutClientRows
  <2>10. k = run.retire => run.retire \in Ids
    BY <2>2, IdsFacts
  <2>. QED  BY <2>6, <2>7, <2>8, <2>9, <2>10
<1>4. ASSUME NEW c \in run.scan, Retires(c)
      PROVE  tokenLife'[i] = 0 \/ tokenLife'[i] + clock' <= rows'[k].deleteAfter + RunLimit
  <2>. DEFINE row == Disabled(rows[c.key], run.now + AccessLifetime)
  <2>1. /\ run.phase = "retire" /\ clock' = clock /\ c.key \in Urls /\ rows[c.key] \in RowSet
        /\ PutClient(c.key, row, None, None)
    BY <1>4 DEF Retires
  <2>2. ~row.enabled /\ row.deleteAfter = run.now + AccessLifetime
    <3>1. run.now + AccessLifetime \in Time
      BY <1>0 DEF Time
    <3>. QED  BY <2>1, <3>1, DisabledFields
  <2>. HIDE DEF row
  <2>3. tokenLife' = tokenLife
    BY <2>1, <2>2 DEF PutClient
  <2>4. CASE k = c.key
    <3>1. rows'[k].deleteAfter = run.now + AccessLifetime
      BY <2>1, <2>2, <2>4, PutClientRows
    <3>2. run.started <= run.now /\ clock <= run.started + RunLimit
      BY <2>1 DEF SafeInv, RoundInv
    <3>3. tokenLife[i] <= AccessLifetime /\ tokenLife[i] \in Nat
      BY <1>0
    <3>. QED  BY <1>0, <2>1, <2>3, <3>1, <3>2, <3>3
  <2>5. CASE k # c.key
    <3>1. rows'[k] = rows[k]
      BY <2>1, <2>5, PutClientRows, IdsFacts
    <3>. QED  BY <1>1, <2>1, <2>3, <3>1
  <2>. QED  BY <2>4, <2>5
<1>5. CASE ~Tick /\ ~Puts /\ ~\E c \in run.scan : Retires(c)
  <2>1. clock' = clock /\ tokenLife' = tokenLife
    BY <1>5 DEF Moved, Waits, Begins, BeginsDelete, Ends, Fails, Strays, Considers, Skips, Passes, Replans,
         Fetches, Reacts, DraftsNew, DraftsSame, DraftsDisabled, Drafts, KeysFail, Moves, Creates,
         Brands, Updates, Calls, Ensures, Cleans, ScansRemoved, ScansExpired, DeletesBranding,
         DeletesClient, DeletesRows, Quiet, TablesSame
  <2>2. rows'[k] = rows[k]
    BY <1>5, RowsWritten
  <2>. QED  BY <1>1, <2>1, <2>2
<1>. QED  BY <1>2, <1>3, <1>4, <1>5

(* Outside a stack deletion a client is deleted only when the access       *)
(* tokens issued for it have expired, but for the time that one invocation *)
(* can take between reading the clock and disabling the client.            *)
THEOREM RegistrarTokensOutlived == ScansAreConsistent => (Spec => TokensOutlived)
<1>. SUFFICES ASSUME ScansAreConsistent PROVE Spec => TokensOutlived
  OBVIOUS
<1>. DEFINE Outlived == \A i \in Ids : cognito[i] # None /\ cognito'[i] = None
                          => run.kind = "delete" \/ tokenLife[i] <= RunLimit
<1>1. Init => TokenInv
  BY DEF Init, TokenInv
<1>2. Inv /\ SafeInv /\ Leading /\ Leading' /\ TokenInv /\ [Next]_vars => TokenInv'
  BY TokenStep, NextMoves
<1>3. Inv /\ SafeInv /\ Leading /\ PurgedInv /\ TokenInv /\ [Next]_vars => [Outlived]_vars
  <2>. SUFFICES ASSUME Inv, Leading, PurgedInv, TokenInv, Moved, NEW i \in Ids,
                       cognito[i] # None, cognito'[i] = None, run.kind # "delete"
                PROVE  tokenLife[i] <= RunLimit
    BY NextMoves
  <2>1. /\ run.url \in RowKeys /\ rows[run.url] # None /\ rows[run.url].id = i
        /\ rows[run.url].deleteAfter # None /\ rows[run.url].deleteAfter <= clock
    BY ClientDeleted
  <2>2. tokenLife[i] = 0 \/ tokenLife[i] + clock <= rows[run.url].deleteAfter + RunLimit
    BY <2>1 DEF TokenInv
  <2>3. rows[run.url].deleteAfter \in Nat
    <3>1. rows[run.url] \in RowSet
      BY <2>1 DEF Leading
    <3>. QED  BY <2>1, <3>1 DEF RowSet, Time
  <2>4. clock \in Nat /\ RunLimit \in Nat /\ tokenLife[i] \in Nat
    BY ConstantsAssumption DEF Inv, TypeOK
  <2>. QED  BY <2>1, <2>2, <2>3, <2>4
<1>. QED  BY <1>1, <1>2, <1>3, RegistrarInvariant, SafeInvariant, LeadingInvariant, PurgedInvariant, PTL
          DEF Spec, TokensOutlived

-----------------------------------------------------------------------------
(* The user pool: what a step does to a client, and where a draft comes    *)
(* from.                                                                   *)

LEMMA ClientsChange ==
    ASSUME Inv, Moved, NEW i \in Ids
    PROVE  \/ cognito'[i] = cognito[i]
           \/ (Creates \/ Strays) /\ i = nextId
           \/ (Brands \/ Updates) /\ i = run.target.id /\ cognito[i] # None /\ cognito'[i] # None
           \/ /\ Ensures /\ cognito[i] # None /\ cognito'[i] # None
              /\ cognito'[i].branded /\ cognito'[i].uris = cognito[i].uris
           \/ \E c \in run.scan :
                 /\ DeletesBranding(c) /\ i = c.id /\ cognito[i] # None /\ cognito'[i] # None
                 /\ cognito'[i].uris = cognito[i].uris
           \/ DeletesClient /\ i = run.retire /\ cognito'[i] = None
<1>1. CASE Creates \/ Strays
  BY <1>1 DEF Creates, Strays, OnlyClient
<1>2. CASE Brands \/ Updates
  BY <1>2 DEF Brands, Updates, Calls, OnlyClient
<1>3. CASE Ensures
  BY <1>3 DEF Ensures, Calls, OnlyClient, Quiet
<1>4. ASSUME NEW c \in run.scan, DeletesBranding(c)
      PROVE  \/ cognito'[i] = cognito[i]
             \/ /\ i = c.id /\ cognito[i] # None /\ cognito'[i] # None
                /\ cognito'[i].uris = cognito[i].uris
  BY <1>4 DEF DeletesBranding, Calls, OnlyClient
<1>5. CASE DeletesClient
  BY <1>5 DEF DeletesClient, Inv, TypeOK
<1>6. CASE /\ ~Creates /\ ~Strays /\ ~Brands /\ ~Updates /\ ~Ensures /\ ~DeletesClient
           /\ ~\E c \in run.scan : DeletesBranding(c)
  <2>1. cognito' = cognito
    BY <1>6 DEF Moved, Waits, Tick, userPool, Begins, BeginsDelete, Ends, Fails, Considers, Skips,
         Passes, Replans, Fetches, Reacts, DraftsNew, DraftsSame, DraftsDisabled, Drafts, KeysFail,
         Moves, Puts, Quiet, Cleans, ScansRemoved, Retires, ScansExpired, DeletesRows
  <2>. QED  BY <2>1
<1>. QED  BY <1>1, <1>2, <1>3, <1>4, <1>5, <1>6

LEMMA DraftsComeFrom ==
    ASSUME Moved, run'.phase \in {"brand", "update", "put"}
    PROVE  \/ (Waits \/ Tick) /\ run' = run /\ cognito' = cognito
           \/ (\E u \in Urls : Replans(u)) \/ DraftsSame \/ DraftsDisabled
           \/ Creates \/ Brands \/ Updates
  BY DEF Moved, Waits, Quiet, Tick, userPool, Begins, BeginsDelete, Ends, Fails, Strays, Idle, Considers,
         Skips, Passes, Fetches, Reacts, DraftsNew, KeysFail, Moves, Puts, Ensures, Leaves,
         Cleans, ScansRemoved, Retires, ScansExpired, DeletesBranding, DeletesClient, DeletesRows

(* Every fault is counted, and nothing else is.                            *)
LEMMA FaultsCounted ==
    ASSUME Inv, Moved
    PROVE  /\ faults \in Nat /\ faults' \in Nat
           /\ IF Fails \/ Strays THEN faults' = faults + 1 ELSE faults' = faults
<1>1. faults \in Nat
  BY DEF Inv, TypeOK
<1>2. IF Fails \/ Strays THEN faults' = faults + 1 ELSE faults' = faults
  BY DEF Moved, Waits, Tick, Begins, BeginsDelete, Ends, Fails, Strays, Considers, Skips,
         Passes, Replans, Fetches, Reacts, DraftsNew, DraftsSame, DraftsDisabled, Drafts, KeysFail,
         Moves, Creates, Brands, Updates, Calls, Puts, Ensures, Quiet, Cleans, ScansRemoved, Retires,
         ScansExpired, Deletes, DeletesBranding, DeletesClient, DeletesRows
<1>. QED  BY <1>1, <1>2

-----------------------------------------------------------------------------
(* Orphans.                                                                *)

(* A row's client keeps a row as long as it is in the user pool.           *)
LEMMA ClientsKeepRows ==
    ASSUME ScansAreConsistent, Inv, SafeInv, OrphanInv, Moved,
           NEW k \in RowKeys, rows[k] # None, cognito'[rows[k].id] # None
    PROVE  \E j \in RowKeys : rows'[j] # None /\ rows'[j].id = rows[k].id
<1>. DEFINE i == rows[k].id
<1>0. rows[k] \in RowSet /\ i \in Ids
  <2>1. rows[k] \in RowSet
    BY DEF Inv, TypeOK
  <2>. QED  BY <2>1 DEF RowSet
<1>1. CASE Puts
  <2>1. /\ run.phase = "put"
        /\ PutClient(run.url, run.target, run.retire, run.now + AccessLifetime)
    BY <1>1 DEF Puts
  <2>2. /\ run.url \in Urls /\ run.target \in RowSet /\ run.retire \in Ids \cup {None}
        /\ PlansNewClient \/ PlansSameClient
    BY <2>1, PutFacts
  <2>3. /\ rows'[run.url] = run.target
        /\ \A j \in RowKeys : j # run.url /\ j # run.retire => rows'[j] = rows[j]
        /\ run.retire \in Ids => rows'[run.retire] = RetiredRow(run.retire, run.now + AccessLifetime)
    BY <2>1, <2>2, PutClientRows
  <2>4. ASSUME run.retire \in Ids, i = run.retire PROVE \E j \in RowKeys : rows'[j] # None /\ rows'[j].id = i
    <3>1. rows'[run.retire].id = i
      BY <2>3, <2>4, RetiredFields
    <3>2. rows'[run.retire] # None
      <4>1. RetiredRow(run.retire, run.now + AccessLifetime) \in RowSet
        <5>1. run.now + AccessLifetime \in Time
          BY ConstantsAssumption DEF Inv, TypeOK, RunSet, Time
        <5>. QED  BY <2>4, <5>1 DEF RetiredRow, RowSet, Time
      <4>. QED  BY <2>3, <2>4, <4>1, NoneAssumption
    <3>. QED  BY <2>4, <3>1, <3>2, IdsFacts
  <2>5. CASE k = run.url
    <3>1. CASE PlansSameClient
      BY <2>2, <2>3, <2>5, <3>1, NoneAssumption DEF PlansSameClient
    <3>2. CASE PlansNewClient
      <4>1. run.retire = i
        BY <2>5, <3>2 DEF PlansNewClient, RetiresStored
      <4>. QED  BY <1>0, <2>4, <4>1
    <3>. QED  BY <2>2, <3>1, <3>2
  <2>6. CASE k = run.retire
    <3>1. run.retire \in Ids /\ i = run.retire
      BY <2>2, <2>6, IdsFacts DEF Inv, IdsInv
    <3>. QED  BY <2>4, <3>1
  <2>7. CASE k # run.url /\ k # run.retire
    BY <2>3, <2>7
  <2>. QED  BY <2>5, <2>6, <2>7
<1>2. ASSUME NEW c \in run.scan, Retires(c)
      PROVE  \E j \in RowKeys : rows'[j] # None /\ rows'[j].id = i
  <2>. DEFINE row == Disabled(rows[c.key], run.now + AccessLifetime)
  <2>1. c.key \in Urls /\ rows[c.key] \in RowSet /\ PutClient(c.key, row, None, None)
    BY <1>2 DEF Retires
  <2>2. /\ rows'[c.key] = row
        /\ \A j \in RowKeys : j # c.key /\ j # None => rows'[j] = rows[j]
    BY <2>1, PutClientRows
  <2>3. row \in RowSet /\ row.id = rows[c.key].id
    <3>1. run.now + AccessLifetime \in Time
      BY ConstantsAssumption DEF Inv, TypeOK, RunSet, Time
    <3>. QED  BY <2>1, <3>1 DEF Disabled, RowSet
  <2>. HIDE DEF row
  <2>4. CASE k = c.key
    BY <2>2, <2>3, <2>4, NoneAssumption
  <2>5. CASE k # c.key
    BY <2>2, <2>5, IdsFacts
  <2>. QED  BY <2>4, <2>5
<1>3. CASE DeletesRows
  <2>1. /\ run.phase = "deleteRows" /\ cognito' = cognito
        /\ rows' = [rows EXCEPT ![run.url] = None]
    BY <1>3 DEF DeletesRows
  <2>2. cognito[run.retire] = None
    BY <2>1 DEF OrphanInv
  <2>3. rows[run.url].id = run.retire
    <3>. DEFINE c == [key |-> run.url, id |-> run.retire]
    <3>1. rows[c.key].id = c.id
      BY <2>1 DEF Inv, PurgeInv
    <3>. QED  BY <3>1
  <2>4. k # run.url
    BY <2>1, <2>2, <2>3
  <2>. QED  BY <2>1, <2>4 DEF Inv, TypeOK
<1>4. CASE rows' = rows
  BY <1>4
<1>5. rows' = rows \/ Puts \/ DeletesRows \/ \E c \in run.scan : Retires(c)
  BY DEF Moved, Waits, Tick, Begins, BeginsDelete, Ends, Fails, Strays, Considers, Skips, Passes, Replans,
         Fetches, Reacts, DraftsNew, DraftsSame, DraftsDisabled, Drafts, KeysFail, Moves, Creates,
         Brands, Updates, Calls, Ensures, Cleans, ScansRemoved, ScansExpired, DeletesBranding,
         DeletesClient, Quiet, TablesSame
<1>. QED  BY <1>1, <1>2, <1>3, <1>4, <1>5

(* A step without a fault leaves no client behind; a fault at most one: of *)
(* a client just created nobody learns, or the draft's is given up.        *)
Stranded == IF Strays THEN nextId ELSE run.target.id

LEMMA OrphansLeft ==
    ASSUME ScansAreConsistent, Inv, SafeInv, OrphanInv, Moved
    PROVE  /\ Orphans' \subseteq Orphans \cup {Stranded}
           /\ ~Fails /\ ~Strays => Orphans' \subseteq Orphans
<1>. SUFFICES ASSUME NEW i \in Ids, cognito'[i] # None,
                     \A k \in RowKeys : rows'[k] # None => rows'[k].id # i,
                     ~(run'.phase \in {"brand", "put"} /\ run'.target.id = i),
                     i \notin Orphans
              PROVE  (Fails \/ Strays) /\ i = Stranded
  BY DEF Orphans
<1>0. CASE Strays
  <2>1. CASE i = nextId
    BY <1>0, <2>1 DEF Stranded
  <2>2. CASE i # nextId
    <3>1. cognito[i] # None /\ rows' = rows /\ run' = run
      BY <1>0, <2>2 DEF Strays, OnlyClient, TablesSame
    <3>. QED  BY <3>1 DEF Orphans
  <2>. QED  BY <2>1, <2>2
<1>. SUFFICES ASSUME ~Strays PROVE Fails /\ i = run.target.id
  BY <1>0 DEF Stranded
<1>1. cognito[i] # None
  <2>1. ~(Creates /\ i = nextId)
    BY DEF Creates
  <2>. QED  BY <2>1, ClientsChange
<1>2. \A k \in RowKeys : rows[k] # None => rows[k].id # i
  BY ClientsKeepRows
<1>3. run.phase \in {"brand", "put"} /\ run.target.id = i
  BY <1>1, <1>2 DEF Orphans
<1>4. ~Puts
  <2>1. ASSUME Puts PROVE FALSE
    <3>1. /\ run.phase = "put"
          /\ PutClient(run.url, run.target, run.retire, run.now + AccessLifetime)
      BY <2>1 DEF Puts
    <3>2. run.url \in Urls /\ run.target \in RowSet
      BY <3>1, PutFacts
    <3>3. rows'[run.url] = run.target
      BY <3>1, <3>2, PutClientRows
    <3>. QED  BY <1>3, <3>2, <3>3, NoneAssumption, IdsFacts
  <2>. QED  BY <2>1
<1>5. ~Brands
  BY <1>3 DEF Brands
<1>6. ~(Waits \/ Tick)
  BY <1>3 DEF Waits, Tick
<1>. QED  BY <1>3, <1>4, <1>5, <1>6 DEF Moved, Begins, BeginsDelete, Ends, Considers, Skips, Passes,
         Replans, Fetches, Takes, Reacts, DraftsNew, DraftsSame, DraftsDisabled, Drafts, KeysFail,
         Moves, Creates, Updates, Ensures, Cleans, ScansRemoved, Retires, ScansExpired,
         DeletesBranding, DeletesClient, DeletesRows

LEMMA OrphanStep == ScansAreConsistent /\ Inv /\ SafeInv /\ OrphanInv /\ Moved => OrphanInv'
<1>. SUFFICES ASSUME ScansAreConsistent, Inv, SafeInv, OrphanInv, Moved PROVE OrphanInv'
  OBVIOUS
<1>1. IsFiniteSet(Orphans)
  <2>1. IsFiniteSet(Ids)
    BY FS_Interval, ConstantsAssumption DEF Ids
  <2>2. Orphans \in SUBSET Ids
    BY DEF Orphans
  <2>. QED  BY <2>1, <2>2, FS_Subset
<1>2. Cardinality(Orphans) \in Nat /\ faults \in Nat
  BY <1>1, FS_CardinalityType, FaultsCounted
<1>3. IF Fails \/ Strays THEN faults' = faults + 1 ELSE faults' = faults
  BY FaultsCounted
<1>4. Cardinality(Orphans') <= faults'
  <2>1. CASE ~Fails /\ ~Strays
    <3>0. Orphans' \in SUBSET Orphans
      BY <2>1, OrphansLeft
    <3>1. Cardinality(Orphans') <= Cardinality(Orphans)
      BY <1>1, <3>0, FS_Subset
    <3>2. IsFiniteSet(Orphans')
      BY <1>1, <3>0, FS_Subset
    <3>3. Cardinality(Orphans') \in Nat
      BY <3>2, FS_CardinalityType
    <3>. QED  BY <1>2, <1>3, <2>1, <3>1, <3>3 DEF OrphanInv
  <2>2. CASE Fails \/ Strays
    <3>. DEFINE more == Orphans \cup {Stranded}
    <3>1. IsFiniteSet(more) /\ Cardinality(more) <= Cardinality(Orphans) + 1
      <4>1. ASSUME NEW i
            PROVE  LET with == Orphans \cup {i}
                   IN  IsFiniteSet(with) /\ Cardinality(with) <= Cardinality(Orphans) + 1
        BY <1>1, <1>2, FS_AddElement
      <4>. QED  BY <4>1
    <3>2. Orphans' \in SUBSET more
      BY OrphansLeft
    <3>. HIDE DEF more
    <3>3. IsFiniteSet(Orphans') /\ Cardinality(Orphans') <= Cardinality(more)
      BY <3>1, <3>2, FS_Subset
    <3>4. Cardinality(Orphans') \in Nat /\ Cardinality(more) \in Nat
      BY <3>1, <3>3, FS_CardinalityType
    <3>. QED  BY <1>2, <1>3, <2>2, <3>1, <3>3, <3>4 DEF OrphanInv
  <2>. QED  BY <2>1, <2>2
<1>5. ASSUME run'.phase = "deleteRows" PROVE cognito'[run'.retire] = None
  <2>1. CASE Waits \/ Tick
    BY <1>5, <2>1 DEF Waits, Quiet, Tick, userPool, OrphanInv
  <2>2. CASE DeletesClient
    <3>1. /\ run.phase = "deleteClient" /\ run'.retire = run.retire
          /\ cognito' = [cognito EXCEPT ![run.retire] = None]
      BY <2>2 DEF DeletesClient
    <3>2. run.retire \in Ids
      BY <3>1 DEF Inv, ScanInv
    <3>. QED  BY <3>1, <3>2 DEF Inv, TypeOK
  <2>. QED  BY <1>5, <2>1, <2>2 DEF Moved, Begins, BeginsDelete, Ends, Fails, Strays, Idle, Considers,
         Skips, Passes, Replans, Fetches, Reacts, DraftsNew, DraftsSame, DraftsDisabled, KeysFail,
         Moves, Creates, Brands, Updates, Puts, Ensures, Leaves, Cleans, ScansRemoved, Retires,
         ScansExpired, DeletesBranding, DeletesRows
<1>. QED  BY <1>4, <1>5 DEF OrphanInv

(* As long as purges see the rows as they are, nothing is left behind in   *)
(* the user pool but by a call that raises or whose reply is lost, or a    *)
(* kill, and then at most one client.                                      *)
THEOREM RegistrarOrphansCostFaults == ScansAreConsistent => (Spec => []OrphansCostFaults)
<1>. SUFFICES ASSUME ScansAreConsistent PROVE Spec => []OrphansCostFaults
  OBVIOUS
<1>1. Init => OrphanInv
  <2>. SUFFICES ASSUME Init PROVE OrphanInv
    OBVIOUS
  <2>1. Orphans = {} /\ faults = 0
    BY DEF Init, Orphans
  <2>. QED  BY <2>1, FS_EmptySet DEF OrphanInv, Init, Idle
<1>2. Inv /\ SafeInv /\ OrphanInv /\ [Next]_vars => OrphanInv'
  BY OrphanStep, NextMoves
<1>3. OrphanInv => OrphansCostFaults
  BY DEF OrphanInv, OrphansCostFaults
<1>. QED  BY <1>1, <1>2, <1>3, RegistrarInvariant, SafeInvariant, PTL DEF Spec

-----------------------------------------------------------------------------
(* The redirect URIs of the clients.                                       *)

(* No two rows share a client, nor does a client that is only drafted have *)
(* a row, even if purges act on rows that are no longer there.             *)
UniqueInv ==
    /\ \A j, k \in RowKeys : rows[j] # None /\ rows[k] # None /\ rows[j].id = rows[k].id => j = k
    /\ run.phase = "brand" \/ (run.phase = "put" /\ ~PlansSameClient)
          => \A k \in RowKeys : rows[k] # None => rows[k].id # run.target.id

LEMMA RowIdsChange ==
    ASSUME Inv, SafeInv, Moved, NEW k \in RowKeys, rows'[k] # None
    PROVE  \/ Puts /\ k = run.url /\ rows'[k].id = run.target.id
           \/ Puts /\ k = run.retire /\ rows'[k].id = run.retire
           \/ rows[k] # None /\ rows'[k].id = rows[k].id /\ (Puts => k # run.url /\ k # run.retire)
<1>1. CASE Puts
  <2>1. /\ run.phase = "put"
        /\ PutClient(run.url, run.target, run.retire, run.now + AccessLifetime)
    BY <1>1 DEF Puts
  <2>2. run.url \in Urls /\ run.retire \in Ids \cup {None}
    BY <2>1, PutFacts
  <2>3. /\ rows'[run.url] = run.target
        /\ k # run.url /\ k # run.retire => rows'[k] = rows[k]
        /\ run.retire \in Ids => rows'[run.retire] = RetiredRow(run.retire, run.now + AccessLifetime)
    BY <2>1, <2>2, PutClientRows
  <2>. QED  BY <1>1, <2>2, <2>3, RetiredFields, IdsFacts
<1>2. CASE rows[k] \in RowSet /\ rows'[k] = Disabled(rows[k], run.now + AccessLifetime) /\ ~Puts
  BY <1>2, NoneAssumption DEF Disabled, RowSet
<1>3. CASE ~Puts /\ rows'[k] = rows[k]
  BY <1>3
<1>. QED  BY <1>1, <1>2, <1>3, RowsWritten

LEMMA UniqueStep == Inv /\ Inv' /\ SafeInv /\ UniqueInv /\ Moved => UniqueInv'
<1>. SUFFICES ASSUME Inv, Inv', SafeInv, UniqueInv, Moved PROVE UniqueInv'
  OBVIOUS
<1>1. ASSUME NEW j \in RowKeys, NEW k \in RowKeys, rows'[j] # None, rows'[k] # None,
             rows'[j].id = rows'[k].id
      PROVE  j = k
  <2>1. CASE Puts
    <3>1. /\ run.phase = "put" /\ run.url \in RowKeys /\ run.retire \in Ids \cup {None}
          /\ PlansNewClient \/ PlansSameClient
      BY <2>1, PutFacts, IdsFacts DEF Puts
    <3>2. ASSUME NEW i \in RowKeys, i # run.url, rows[i] # None PROVE rows[i].id # run.target.id
      BY <3>1, <3>2 DEF UniqueInv, PlansSameClient
    <3>3. ASSUME NEW i \in RowKeys, run.retire = i
          PROVE  rows[run.url] # None /\ rows[run.url].id = i /\ i # run.target.id
      <4>1. run.retire # None
        BY <3>3, IdsFacts
      <4>2. PlansNewClient /\ ~PlansSameClient
        BY <3>1, <4>1 DEF PlansSameClient
      <4>3. rows[run.url] # None /\ rows[run.url].id = i
        BY <3>3, <4>1, <4>2 DEF PlansNewClient, RetiresStored
      <4>4. rows[run.url].id # run.target.id
        BY <3>1, <4>2, <4>3 DEF UniqueInv
      <4>. QED  BY <4>3, <4>4
    <3>4. ASSUME NEW i \in RowKeys, i # run.url, rows[i] # None PROVE rows[i].id # run.retire
      <4>. SUFFICES ASSUME rows[i].id = run.retire PROVE FALSE
        OBVIOUS
      <4>1. rows[i].id \in Ids
        <5>1. rows[i] \in RowSet
          BY <3>4 DEF Inv, TypeOK
        <5>. QED  BY <5>1 DEF RowSet
      <4>2. rows[run.url] # None /\ rows[run.url].id = run.retire
        BY <3>3, <4>1, IdsFacts
      <4>. QED  BY <3>1, <3>4, <4>2 DEF UniqueInv
    <3>5. /\ \/ j = run.url /\ rows'[j].id = run.target.id
             \/ j = run.retire /\ rows'[j].id = run.retire
             \/ rows[j] # None /\ rows'[j].id = rows[j].id /\ j # run.url
          /\ \/ k = run.url /\ rows'[k].id = run.target.id
             \/ k = run.retire /\ rows'[k].id = run.retire
             \/ rows[k] # None /\ rows'[k].id = rows[k].id /\ k # run.url
      BY <1>1, <2>1, RowIdsChange
    <3>. QED  BY <1>1, <3>2, <3>3, <3>4, <3>5 DEF UniqueInv
  <2>2. CASE ~Puts
    BY <1>1, <2>2, RowIdsChange DEF UniqueInv
  <2>. QED  BY <2>1, <2>2
<1>2. ASSUME run'.phase = "brand" \/ (run'.phase = "put" /\ ~PlansSameClient'),
             NEW k \in RowKeys, rows'[k] # None
      PROVE  rows'[k].id # run'.target.id
  <2>0. ~Puts
    BY <1>2 DEF Puts, Leaves
  <2>1. rows[k] # None /\ rows'[k].id = rows[k].id
    BY <1>2, <2>0, RowIdsChange
  <2>2. run'.phase = "put" => run'.target # None
    BY DEF Inv, PlanInv, PlansNewClient, PlansSameClient
  <2>3. CASE Waits \/ Tick
    <3>1. run' = run /\ rows' = rows
      BY <2>3 DEF Waits, Quiet, TablesSame, Tick
    <3>. QED  BY <1>2, <2>1, <3>1 DEF UniqueInv, PlansSameClient
  <2>4. ASSUME NEW u \in Urls, Replans(u) PROVE FALSE
    BY <1>2, <2>2, <2>4 DEF Replans, Redrafts, Stored, Takes, Quiet, TablesSame, PlansSameClient
  <2>5. ~DraftsSame /\ ~DraftsDisabled
    BY <1>2, <2>2 DEF DraftsSame, DraftsDisabled, Drafts, Redrafts, Stored, Quiet, TablesSame, PlansSameClient
  <2>6. CASE Creates
    <3>1. rows[k].id < nextId /\ nextId \in Nat
      BY <2>1 DEF Inv, IdsInv, TypeOK
    <3>2. run'.target.id = nextId
      BY <2>6 DEF Creates
    <3>. QED  BY <2>1, <3>1, <3>2
  <2>7. CASE Brands
    BY <2>1, <2>7 DEF Brands, UniqueInv
  <2>8. ~Updates
    <3>1. ASSUME Updates PROVE PlansSameClient' /\ run'.phase = "put"
      <4>1. run.phase = "update" /\ rows' = rows
        BY <3>1 DEF Updates, Calls, TablesSame
      <4>2. PlansSameClient
        BY <4>1 DEF Inv, PlanInv
      <4>. QED  BY <3>1, <4>1, <4>2 DEF Updates, Carries, PlansSameClient
    <3>. QED  BY <1>2, <3>1
  <2>. QED  BY <1>2, <2>3, <2>4, <2>5, <2>6, <2>7, <2>8, DraftsComeFrom
<1>. QED  BY <1>1, <1>2 DEF UniqueInv

LEMMA UniqueInvariant == Spec => []UniqueInv
<1>1. Init => UniqueInv
  BY DEF Init, Idle, UniqueInv
<1>2. Inv /\ Inv' /\ SafeInv /\ UniqueInv /\ [Next]_vars => UniqueInv'
  BY UniqueStep, NextMoves
<1>. QED  BY <1>1, <1>2, RegistrarInvariant, SafeInvariant, PTL DEF Spec

LEMMA CallbackRows ==
    ASSUME Inv, SafeInv, UniqueInv, CallbackInv, Moved, faults = 0, ~Fails, ~Strays,
           NEW u \in Urls, rows'[u] # None, cognito'[rows'[u].id] # None
    PROVE  cognito'[rows'[u].id].uris = rows'[u].uris \/ (run'.phase = "put" /\ run'.url = u)
<1>0. u \in RowKeys /\ u \notin Ids /\ u # None
  BY IdsFacts
<1>1. CASE Puts /\ u = run.url /\ rows'[u] = run.target
  <2>1. run.phase = "put" /\ cognito' = cognito
    BY <1>1 DEF Puts
  <2>. QED  BY <1>1, <2>1 DEF CallbackInv
<1>2. ASSUME NEW c \in run.scan, Retires(c), c.key = u, rows[u] \in RowSet,
             rows'[u] = Disabled(rows[u], run.now + AccessLifetime)
      PROVE  cognito'[rows'[u].id].uris = rows'[u].uris
  <2>1. run.phase = "retire" /\ cognito' = cognito
    BY <1>2 DEF Retires
  <2>2. rows'[u].id = rows[u].id /\ rows'[u].uris = rows[u].uris
    BY <1>2 DEF Disabled, RowSet
  <2>3. Stored(u)
    BY <1>2, NoneAssumption DEF Stored
  <2>. QED  BY <2>1, <2>2, <2>3 DEF CallbackInv
<1>3. CASE rows'[u] = rows[u]
  <2>. DEFINE i == rows[u].id
  <2>0. i \in Ids /\ i < nextId /\ nextId \in Nat /\ Stored(u)
    <3>1. rows[u] \in RowSet
      BY <1>0, <1>3 DEF Inv, TypeOK
    <3>. QED  BY <1>0, <1>3, <3>1 DEF RowSet, Inv, TypeOK, IdsInv, Stored
  <2>1. CASE cognito'[i] = cognito[i]
    <3>1. cognito[i].uris = rows[u].uris \/ (run.phase = "put" /\ run.url = u)
      BY <1>3, <2>0, <2>1 DEF CallbackInv
    <3>2. CASE cognito[i].uris = rows[u].uris
      BY <1>3, <2>1, <3>2
    <3>3. CASE run.phase = "put" /\ run.url = u
      <4>1. CASE Waits \/ Tick
        BY <3>3, <4>1 DEF Waits, Tick
      <4>2. CASE Puts
        <5>1. PutClient(run.url, run.target, run.retire, run.now + AccessLifetime)
          BY <4>2 DEF Puts
        <5>2. rows'[u] = run.target
          BY <3>3, <5>1, PutClientRows
        <5>. QED  BY <1>1, <3>3, <4>2, <5>2
      <4>. QED  BY <3>3, <4>1, <4>2 DEF Moved, Begins, BeginsDelete, Ends, Considers,
             Skips, Passes, Replans, Fetches, Takes, Reacts, DraftsNew, DraftsSame, DraftsDisabled,
             Drafts, KeysFail, Moves, Creates, Brands, Updates, Ensures, Cleans, ScansRemoved,
             Retires, ScansExpired, DeletesBranding, DeletesClient, DeletesRows
    <3>. QED  BY <3>1, <3>2, <3>3
  <2>2. ~(Creates /\ i = nextId) /\ ~(DeletesClient /\ cognito'[i] = None)
    BY <1>3, <2>0
  <2>3. CASE Brands /\ i = run.target.id /\ cognito[i] # None
    <3>1. run.phase = "brand" /\ cognito'[i].uris = cognito[i].uris
      BY <2>3 DEF Brands
    <3>. QED  BY <1>3, <2>0, <2>3, <3>1 DEF CallbackInv
  <2>4. CASE Updates /\ i = run.target.id
    <3>1. run.phase = "update" /\ run'.phase = "put" /\ run'.url = run.url
      BY <2>4 DEF Updates, Carries
    <3>2. PlansSameClient /\ run.url \in RowKeys
      BY <3>1, IdsFacts DEF Inv, PlanInv
    <3>3. rows[run.url] # None /\ rows[run.url].id = i
      BY <2>4, <3>2 DEF PlansSameClient
    <3>4. run.url = u
      BY <1>0, <2>0, <3>2, <3>3 DEF UniqueInv, Stored
    <3>. QED  BY <3>1, <3>4
  <2>5. ASSUME cognito[i] # None, cognito'[i].uris = cognito[i].uris, run.phase # "put"
        PROVE  cognito'[i].uris = rows'[u].uris
    BY <1>3, <2>0, <2>5 DEF CallbackInv
  <2>6. Ensures \/ (\E c \in run.scan : DeletesBranding(c)) => run.phase # "put"
    BY DEF Ensures, DeletesBranding
  <2>. QED  BY <1>3, <2>0, <2>1, <2>2, <2>3, <2>4, <2>5, <2>6, ClientsChange
<1>4. u # run.retire \/ run.retire \notin Ids
  BY <1>0
<1>. QED  BY <1>0, <1>1, <1>2, <1>3, <1>4, RowsWritten

LEMMA CallbackDraft ==
    ASSUME Inv, Inv', SafeInv, CallbackInv, Moved, faults = 0,
           run'.phase \in {"brand", "put"}, cognito'[run'.target.id] # None
    PROVE  cognito'[run'.target.id].uris = run'.target.uris
<1>1. CASE run' = run /\ cognito' = cognito
  BY <1>1 DEF CallbackInv
<1>2. ASSUME NEW u \in Urls, run.phase # "put", cognito' = cognito, Stored(u),
             run'.target.id = rows[u].id, run'.target.uris = rows[u].uris
      PROVE  cognito'[run'.target.id].uris = run'.target.uris
  BY <1>2 DEF CallbackInv
<1>3. ASSUME NEW u \in Urls, Replans(u) PROVE cognito'[run'.target.id].uris = run'.target.uris
  BY <1>2, <1>3 DEF Replans, Redrafts, Quiet, Takes
<1>4. CASE DraftsSame
  <2>1. run.url \in Urls
    BY <1>4 DEF DraftsSame, Drafts, Inv, PlanInv
  <2>. QED  BY <1>2, <1>4, <2>1 DEF DraftsSame, Drafts, Quiet
<1>5. CASE DraftsDisabled
  <2>1. run.url \in Urls
    BY <1>5 DEF DraftsDisabled, Drafts, Inv, PlanInv
  <2>. QED  BY <1>2, <1>5, <2>1 DEF DraftsDisabled, Drafts, Quiet, Redrafts
<1>6. CASE Creates
  BY <1>6 DEF Creates, SameContent
<1>7. CASE Brands
  BY <1>7 DEF Brands, Calls, CallbackInv
<1>8. CASE Updates
  BY <1>8 DEF Updates
<1>. QED  BY <1>1, <1>3, <1>4, <1>5, <1>6, <1>7, <1>8, DraftsComeFrom

LEMMA CallbackStep ==
    Inv /\ Inv' /\ SafeInv /\ UniqueInv /\ CallbackInv /\ Moved => CallbackInv'
<1>. SUFFICES ASSUME Inv, Inv', SafeInv, UniqueInv, CallbackInv, Moved, faults' = 0
              PROVE  CallbackInv'
  BY DEF CallbackInv
<1>1. faults = 0 /\ ~Fails /\ ~Strays
  BY FaultsCounted
<1>2. \A u \in Urls :
         Stored(u)' /\ cognito'[rows'[u].id] # None
             => cognito'[rows'[u].id].uris = rows'[u].uris \/ (run'.phase = "put" /\ run'.url = u)
  BY <1>1, CallbackRows DEF Stored
<1>3. run'.phase \in {"brand", "put"} /\ cognito'[run'.target.id] # None
         => cognito'[run'.target.id].uris = run'.target.uris
  BY <1>1, CallbackDraft
<1>. QED  BY <1>2, <1>3 DEF CallbackInv

(* As long as nothing fails, Cognito accepts for an enabled client the     *)
(* very redirect URIs the proxy resolves against, but between the two      *)
(* writes of an update; whatever rows a purge's scan returns.              *)
THEOREM RegistrarCallbacksMatchRow == Spec => []CallbacksMatchRow
<1>1. Init => CallbackInv
  <2>. SUFFICES ASSUME Init PROVE CallbackInv
    OBVIOUS
  <2>1. \A u \in Urls : ~Stored(u)
    BY IdsFacts DEF Init, Stored
  <2>2. run.phase = "idle"
    BY DEF Init, Idle
  <2>. QED  BY <2>1, <2>2 DEF CallbackInv
<1>2. Inv /\ Inv' /\ SafeInv /\ UniqueInv /\ CallbackInv /\ [Next]_vars => CallbackInv'
  BY CallbackStep, NextMoves
<1>3. Inv /\ CallbackInv => CallbacksMatchRow
  BY DEF CallbackInv, CallbacksMatchRow, Enabled, Inv, TypeOK
<1>. QED  BY <1>1, <1>2, <1>3, RegistrarInvariant, SafeInvariant, UniqueInvariant, PTL DEF Spec

-----------------------------------------------------------------------------
(* Clients that are served exist.                                          *)

(* Branded, of a client after the step.                                    *)
StillBranded(i) == cognito'[i] # None /\ (cognito'[i].branded \/ faults' > 0)

LEMMA DeletesDisabled ==
    ASSUME ScansAreConsistent, StackIsKept, Inv, Leading, PurgedInv, NEW i \in Ids,
           \/ DeletesClient /\ i = run.retire
           \/ \E c \in run.scan : DeletesBranding(c) /\ i = c.id
    PROVE  ~index[i].enabled
<1>1. run.kind # "delete"
  BY DEF StackIsKept, Inv, TypeOK, RunSet
<1>2. PICK c \in run.scan : c.id = i /\ c.key \in RowKeys /\ Purging
  <2>1. CASE DeletesClient /\ i = run.retire
    <3>. DEFINE d == [key |-> run.url, id |-> run.retire]
    <3>1. run.phase = "deleteClient"
      BY <2>1 DEF DeletesClient
    <3>2. d \in run.scan /\ d.key \in RowKeys /\ d.id = i
      BY <2>1, <3>1 DEF Inv, PurgeInv, ScanInv
    <3>. QED  BY <3>1, <3>2 DEF Purging
  <2>2. CASE \E c \in run.scan : DeletesBranding(c) /\ i = c.id
    BY <2>2 DEF DeletesBranding, Purging, Inv, TypeOK, RunSet, Scans
  <2>. QED  BY <2>1, <2>2
<1>3. rows[c.key] # None /\ rows[c.key].id = i
  BY <1>2 DEF Inv, PurgeInv, Purging
<1>4. ~rows[c.key].enabled
  BY <1>1, <1>2 DEF PurgedInv
<1>. QED  BY <1>2, <1>3, <1>4 DEF Leading

(* A client with a login page keeps it, but while it is being deleted.     *)
LEMMA BrandedStays ==
    ASSUME Inv, Moved, NEW i \in Ids, Branded(i),
           ~(DeletesClient /\ i = run.retire),
           ~\E c \in run.scan : DeletesBranding(c) /\ i = c.id
    PROVE  StillBranded(i)
<1>1. faults \in Nat /\ (faults' = faults \/ faults' = faults + 1)
  BY FaultsCounted
<1>2. CASE cognito'[i] = cognito[i]
  BY <1>1, <1>2 DEF Branded, StillBranded
<1>3. CASE (Creates \/ Strays) /\ i = nextId
  <2>1. i < nextId /\ nextId \in Nat
    BY DEF Branded, StillBranded, Inv, IdsInv, TypeOK
  <2>. QED  BY <1>3, <2>1
<1>4. CASE (Brands \/ Updates) /\ i = run.target.id /\ cognito'[i] # None
  <2>1. cognito'[i].branded \/ cognito'[i].branded = cognito[i].branded
    BY <1>4 DEF Brands, Updates
  <2>. QED  BY <1>1, <1>4, <2>1 DEF Branded, StillBranded
<1>5. CASE Ensures /\ cognito'[i] # None /\ cognito'[i].branded
  BY <1>5 DEF Branded, StillBranded
<1>. QED  BY <1>2, <1>3, <1>4, <1>5, ClientsChange

LEMMA ExistRows ==
    ASSUME ScansAreConsistent, StackIsKept, Inv, SafeInv, Leading, ExistInv, Moved,
           NEW k \in RowKeys, rows'[k] # None, cognito'[rows'[k].id] # None
    PROVE  \/ StillBranded(rows'[k].id)
           \/ run'.phase = "deleteClient" /\ run'.retire = rows'[k].id
<1>. DEFINE i == rows'[k].id
<1>1. ASSUME NEW j \in RowKeys, rows[j] # None, rows[j].id = i
      PROVE  StillBranded(i) \/ (run'.phase = "deleteClient" /\ run'.retire = i)
  <2>0. i \in Ids /\ i < nextId /\ nextId \in Nat
    BY <1>1 DEF Leading, Inv, TypeOK, IdsInv
  <2>1. cognito[i] # None
    BY <2>0, ClientsChange
  <2>2. Branded(i) \/ (run.phase = "deleteClient" /\ run.retire = i)
    BY <1>1, <2>1 DEF ExistInv
  <2>3. CASE DeletesClient /\ i = run.retire
    BY <2>0, <2>3 DEF DeletesClient, Inv, TypeOK
  <2>4. CASE \E c \in run.scan : DeletesBranding(c) /\ i = c.id
    BY <2>4 DEF DeletesBranding
  <2>5. CASE Branded(i) /\ ~(DeletesClient /\ i = run.retire)
             /\ ~\E c \in run.scan : DeletesBranding(c) /\ i = c.id
    BY <2>0, <2>5, BrandedStays
  <2>6. CASE run.phase = "deleteClient" /\ run.retire = i
    <3>1. CASE Waits \/ Strays \/ Tick
      BY <2>6, <3>1 DEF Waits, Strays, Tick
    <3>2. CASE Fails
      <4>1. faults' > 0
        BY <3>2, FaultsCounted
      <4>. QED  BY <4>1 DEF Branded, StillBranded
    <3>. QED  BY <2>3, <2>6, <3>1, <3>2 DEF Moved, Begins, BeginsDelete, Ends, Considers,
           Skips, Passes, Replans, Fetches, Takes, Reacts, DraftsNew, DraftsSame, DraftsDisabled,
           Drafts, KeysFail, Moves, Creates, Brands, Updates, Puts, Ensures, Cleans, ScansRemoved,
           Retires, ScansExpired, DeletesBranding, DeletesRows
  <2>. QED  BY <2>2, <2>3, <2>4, <2>5, <2>6
<1>2. CASE Puts /\ k = run.url /\ rows'[k] = run.target
  <2>1. /\ run.phase = "put" /\ cognito' = cognito /\ faults' = faults
        /\ run.url \in Urls /\ run.url \in RowKeys
    BY <1>2, PutFacts, IdsFacts DEF Puts
  <2>2. CASE run.target.enabled
    <3>1. Branded(i)
      BY <1>2, <2>1, <2>2 DEF ExistInv
    <3>. QED  BY <2>1, <3>1 DEF Branded, StillBranded
  <2>3. CASE ~run.target.enabled
    <3>1. PlansSameClient
      BY <2>1, <2>3 DEF SafeInv, DraftInv, Drafting, KeepsDisabled
    <3>. QED  BY <1>1, <1>2, <2>1, <3>1 DEF PlansSameClient
  <2>. QED  BY <2>2, <2>3
<1>3. CASE Puts /\ run.retire \in Ids /\ rows'[k] = RetiredRow(run.retire, run.now + AccessLifetime)
  <2>1. i = run.retire /\ run.retire # None
    BY <1>3, RetiredFields, IdsFacts
  <2>2. run.url \in RowKeys /\ (PlansNewClient \/ PlansSameClient)
    BY <1>3, PutFacts, IdsFacts DEF Puts
  <2>3. rows[run.url] # None /\ rows[run.url].id = i
    BY <2>1, <2>2 DEF PlansNewClient, PlansSameClient, RetiresStored
  <2>. QED  BY <1>1, <2>2, <2>3
<1>4. CASE rows[k] \in RowSet /\ rows'[k] = Disabled(rows[k], run.now + AccessLifetime)
  <2>1. rows[k].id = i /\ rows[k] # None
    BY <1>4, NoneAssumption DEF Disabled, RowSet
  <2>. QED  BY <1>1, <2>1
<1>5. CASE rows'[k] = rows[k]
  BY <1>1, <1>5
<1>. QED  BY <1>2, <1>3, <1>4, <1>5, RowsWritten

LEMMA ExistDraft ==
    ASSUME ScansAreConsistent, StackIsKept, Inv, Inv', SafeInv, Leading, ExistInv, Moved,
           run'.phase \in {"update", "put"}, run'.target.enabled
    PROVE  StillBranded(run'.target.id)
<1>0. faults \in Nat /\ (faults' = faults \/ faults' = faults + 1)
  BY FaultsCounted
<1>1. CASE run' = run /\ cognito' = cognito
  BY <1>0, <1>1 DEF ExistInv, Branded, StillBranded
<1>2. ASSUME NEW u \in Urls, Replans(u) PROVE StillBranded(run'.target.id)
  <2>1. Enabled(u) /\ run'.target.id = rows[u].id /\ cognito' = cognito /\ u \in RowKeys
    BY <1>2, IdsFacts DEF Replans, Redrafts, Quiet
  <2>2. Branded(run'.target.id)
    BY <2>1 DEF Leading, ExistInv, Enabled, Stored
  <2>. QED  BY <1>0, <2>1, <2>2 DEF Branded, StillBranded
<1>3. CASE DraftsSame
  <2>1. /\ Stored(run.url) /\ cognito[rows[run.url].id] # None /\ run.phase = "jwks"
        /\ run'.target.id = rows[run.url].id /\ cognito' = cognito /\ run.url \in RowKeys
    BY <1>3, IdsFacts DEF DraftsSame, Drafts, Quiet, Inv, PlanInv
  <2>2. Branded(run'.target.id)
    BY <2>1 DEF ExistInv, Stored
  <2>. QED  BY <1>0, <2>1, <2>2 DEF Branded, StillBranded
<1>4. CASE DraftsDisabled
  BY <1>4 DEF DraftsDisabled
<1>5. CASE Creates
  BY <1>5 DEF Creates
<1>6. CASE Brands
  BY <1>6 DEF Brands, Calls, Branded, StillBranded
<1>7. CASE Updates
  <2>1. run.phase = "update" /\ run'.target = run.target
    BY <1>7 DEF Updates
  <2>2. Branded(run.target.id)
    BY <2>1 DEF ExistInv
  <2>. QED  BY <1>0, <1>7, <2>1, <2>2 DEF Updates, Calls, Branded, StillBranded
<1>. QED  BY <1>1, <1>2, <1>3, <1>4, <1>5, <1>6, <1>7, DraftsComeFrom

LEMMA ExistStep ==
    ScansAreConsistent /\ StackIsKept /\ Inv /\ Inv' /\ SafeInv /\ Leading /\ Leading' /\ PurgedInv
      /\ ExistInv /\ Moved => ExistInv'
<1>. SUFFICES ASSUME ScansAreConsistent, StackIsKept, Inv, Inv', SafeInv, Leading, PurgedInv,
                     ExistInv, Moved
              PROVE  ExistInv'
  OBVIOUS
<1>1. ASSUME NEW i \in Ids, index'[i] # None, index'[i].enabled PROVE StillBranded(i)
  <2>1. CASE Puts
    <3>1. /\ run.phase = "put" /\ cognito' = cognito /\ faults' = faults
          /\ PutClient(run.url, run.target, run.retire, run.now + AccessLifetime)
      BY <2>1 DEF Puts
    <3>2. CASE i = run.target.id
      <4>1. run.target.enabled
        BY <1>1, <3>1, <3>2 DEF PutClient
      <4>2. Branded(i)
        BY <3>1, <3>2, <4>1 DEF ExistInv
      <4>. QED  BY <3>1, <4>2 DEF Branded, StillBranded
    <3>3. CASE i # run.target.id
      <4>1. index'[i] = index[i]
        BY <1>1, <3>1, <3>3 DEF PutClient
      <4>2. Branded(i)
        BY <1>1, <4>1 DEF ExistInv
      <4>. QED  BY <3>1, <4>2 DEF Branded, StillBranded
    <3>. QED  BY <3>2, <3>3
  <2>2. ASSUME NEW c \in run.scan, Retires(c) PROVE StillBranded(i)
    <3>. DEFINE row == Disabled(rows[c.key], run.now + AccessLifetime)
    <3>1. /\ cognito' = cognito /\ faults' = faults
          /\ PutClient(c.key, row, None, None) /\ rows[c.key] \in RowSet
      BY <2>2 DEF Retires
    <3>2. ~row.enabled
      <4>1. run.now + AccessLifetime \in Time
        BY ConstantsAssumption DEF Inv, TypeOK, RunSet, Time
      <4>. QED  BY <3>1, <4>1, DisabledFields
    <3>. HIDE DEF row
    <3>3. index'[i] = index[i]
      BY <1>1, <3>1, <3>2, IdsFacts DEF PutClient
    <3>4. Branded(i)
      BY <1>1, <3>3 DEF ExistInv
    <3>. QED  BY <3>1, <3>4 DEF Branded, StillBranded
  <2>3. CASE index'[i] = index[i]
    <3>1. Branded(i)
      BY <1>1, <2>3 DEF ExistInv
    <3>2. /\ ~(DeletesClient /\ i = run.retire)
          /\ ~\E c \in run.scan : DeletesBranding(c) /\ i = c.id
      BY <1>1, <2>3, DeletesDisabled
    <3>. QED  BY <3>1, <3>2, BrandedStays
  <2>4. CASE DeletesRows
    <3>1. index'[i] = index[i]
      BY <1>1, <2>4 DEF DeletesRows, Inv, TypeOK
    <3>. QED  BY <2>3, <3>1
  <2>5. index' = index \/ Puts \/ DeletesRows \/ \E c \in run.scan : Retires(c)
    BY DEF Moved, Waits, Tick, Begins, BeginsDelete, Ends, Fails, Strays, Considers, Skips, Passes, Replans,
           Fetches, Reacts, DraftsNew, DraftsSame, DraftsDisabled, Drafts, KeysFail, Moves, Creates,
           Brands, Updates, Calls, Ensures, Cleans, ScansRemoved, ScansExpired, DeletesBranding,
           DeletesClient, Quiet, TablesSame
  <2>. QED  BY <2>1, <2>2, <2>3, <2>4, <2>5
<1>2. run'.phase \in {"update", "put"} /\ run'.target.enabled => StillBranded(run'.target.id)
  BY ExistDraft
<1>3. ASSUME NEW k \in RowKeys, rows'[k] # None, cognito'[rows'[k].id] # None
      PROVE  \/ StillBranded(rows'[k].id)
             \/ run'.phase = "deleteClient" /\ run'.retire = rows'[k].id
  BY <1>3, ExistRows
<1>. QED  BY <1>1, <1>2, <1>3 DEF ExistInv, Branded, StillBranded

(* As long as purges see the rows as they are, a client the verifier       *)
(* accepts exists in the user pool, whatever fails; and if nothing has     *)
(* failed its login page exists too.                                       *)
THEOREM RegistrarServedClientsExist == ScansAreConsistent => (Spec => []ServedClientsExist)
<1>. SUFFICES ASSUME ScansAreConsistent PROVE Spec => []ServedClientsExist
  OBVIOUS
<1>1. CASE StackIsKept
  <2>1. Init => ExistInv
    BY IdsFacts DEF Init, Idle, ExistInv
  <2>2. Inv /\ Inv' /\ SafeInv /\ Leading /\ Leading' /\ PurgedInv /\ ExistInv /\ [Next]_vars => ExistInv'
    BY <1>1, ExistStep, NextMoves
  <2>3. ExistInv => ServedClientsExist
    BY DEF ExistInv, ServedClientsExist, Branded, StillBranded
  <2>. QED  BY <2>1, <2>2, <2>3, RegistrarInvariant, SafeInvariant, LeadingInvariant, PurgedInvariant,
               PTL DEF Spec
<1>2. CASE ~StackIsKept
  <2>1. ServedClientsExist
    BY <1>2 DEF StackIsKept, ServedClientsExist
  <2>. QED  BY <2>1, PTL
<1>. QED  BY <1>1, <1>2

-----------------------------------------------------------------------------
(* What a run without an error has repaired.                               *)

(* Whole, of a client after the step.                                      *)
StillWhole(i) == cognito'[i] # None /\ cognito'[i].branded

(* Only a purge takes a client's login page away, or the client.           *)
LEMMA WholeStays == ASSUME Inv, Moved, ~Purging, NEW i \in Ids, Whole(i) PROVE StillWhole(i)
<1>1. ~DeletesClient /\ ~\E c \in run.scan : DeletesBranding(c)
  BY DEF DeletesClient, DeletesBranding, Purging
<1>2. ~((Creates \/ Strays) /\ i = nextId)
  <2>1. i < nextId /\ nextId \in Nat
    BY DEF Whole, Inv, IdsInv, TypeOK
  <2>. QED  BY <2>1
<1>3. CASE (Brands \/ Updates) /\ i = run.target.id /\ cognito'[i] # None
  <2>1. cognito'[i].branded \/ cognito'[i].branded = cognito[i].branded
    BY <1>3 DEF Brands, Updates
  <2>. QED  BY <1>3, <2>1 DEF Whole, StillWhole
<1>. QED  BY <1>1, <1>2, <1>3, ClientsChange DEF Whole, StillWhole

LEMMA RepairRows ==
    ASSUME Inv, Inv', SafeInv, RepairInv, Moved,
           run'.phase # "idle", ~Purging', run'.kind # "revalidate", ~run'.errors,
           NEW u \in run'.allow \ run'.todo, Handling' => u # run'.url, Enabled(u)'
    PROVE  StillWhole(rows'[u].id)
<1>1. u \in RowKeys /\ u \in Urls /\ (rows[u] # None => rows[u] \in RowSet /\ rows[u].id \in Ids)
  <2>1. run \in RunSet /\ run' \in RunSet
    BY DEF Inv, TypeOK
  <2>2. u \in RowKeys /\ u \in Urls
    BY <2>1, IdsFacts DEF RunSet, UrlSets
  <2>3. rows[u] # None => rows[u] \in RowSet
    BY <2>2 DEF Inv, TypeOK
  <2>. QED  BY <2>2, <2>3 DEF RowSet
<1>2. rows'[u] # None /\ rows'[u].enabled
  BY DEF Enabled, Stored
<1>3. ASSUME SameRound, run.phase # "idle", ~Purging, u \notin run.todo,
             Handling => u # run.url, rows'[u] = rows[u]
      PROVE  StillWhole(rows'[u].id)
  <2>1. Whole(rows[u].id)
    BY <1>2, <1>3 DEF RepairInv, SameRound, Enabled, Stored
  <2>. QED  BY <1>1, <1>2, <1>3, <2>1, WholeStays
<1>4. CASE Waits \/ Strays \/ Tick
  <2>1. run' = run /\ rows' = rows
    BY <1>4 DEF Waits, Strays, Tick, Quiet, TablesSame
  <2>. QED  BY <1>3, <2>1 DEF SameRound, Handling, Working, Purging
<1>5. CASE Begins \/ BeginsDelete \/ Ends \/ Fails
  <2>1. Idle.phase = "idle"
    BY DEF Idle
  <2>. QED  BY <1>5, <2>1 DEF Begins, BeginsDelete, Ends, Fails, Purging
<1>6. ASSUME NEW v \in Urls, Considers(v) PROVE StillWhole(rows'[u].id)
  <2>1. /\ rows' = rows /\ run.phase = "next" /\ SameRound /\ run'.todo = run.todo \ {v}
    BY <1>6 DEF Considers, Skips, Passes, Replans, Fetches, Takes, Leaves, Quiet, TablesSame
  <2>2. CASE u # v
    BY <1>3, <2>1, <2>2 DEF Handling, Working, Purging
  <2>3. CASE u = v
    BY <1>2, <1>6, <2>1, <2>3 DEF Considers, Skips, Passes, Replans, Fetches, Takes, Handling, Working,
       Enabled, Stored
  <2>. QED  BY <2>2, <2>3
<1>7. CASE Reacts
  <2>1. ~KeysFail
    BY DEF KeysFail
  <2>2. /\ rows' = rows /\ run.phase = "jwks" /\ SameRound /\ run'.todo = run.todo
        /\ run'.url = run.url /\ Working'
    BY <1>7, <2>1 DEF Reacts, DraftsNew, DraftsSame, DraftsDisabled, Drafts, Quiet, TablesSame, Working
  <2>. QED  BY <1>3, <2>2 DEF Handling, Purging
<1>8. CASE Creates \/ Brands \/ Updates
  <2>1. /\ rows' = rows /\ run.phase \in {"create", "brand", "update"} /\ SameRound
        /\ run'.todo = run.todo /\ run'.url = run.url /\ Working'
    BY <1>8 DEF Creates, Brands, Updates, Carries, Calls, TablesSame, Working
  <2>. QED  BY <1>3, <2>1 DEF Handling, Purging
<1>9. CASE Puts
  <2>1. /\ run.phase = "put" /\ cognito' = cognito /\ SameRound /\ run'.todo = run.todo
        /\ PutClient(run.url, run.target, run.retire, run.now + AccessLifetime)
        /\ (run'.phase = "ensure" /\ run'.url = run.url) \/ run.after = "next"
    BY <1>9 DEF Puts, Leaves
  <2>2. /\ run.url \in Urls /\ run.retire \in Ids \cup {None}
        /\ rows'[run.url] = run.target
        /\ \A k \in RowKeys : k # run.url /\ k # run.retire => rows'[k] = rows[k]
    BY <2>1, PutFacts, PutClientRows
  <2>3. CASE u # run.url
    <3>1. rows'[u] = rows[u]
      BY <1>1, <2>2, <2>3, IdsFacts
    <3>. QED  BY <1>3, <2>1, <2>3, <3>1 DEF Purging
  <2>4. CASE u = run.url
    <3>1. run.after = "next" /\ run.target.enabled
      BY <1>2, <2>1, <2>2, <2>4 DEF Handling
    <3>2. Whole(run.target.id)
      BY <2>1, <3>1 DEF RepairInv
    <3>. QED  BY <2>1, <2>2, <2>4, <3>2 DEF Whole, StillWhole
  <2>. QED  BY <2>3, <2>4
<1>10. CASE Ensures
  <2>1. /\ run.phase = "ensure" /\ SameRound /\ run'.todo = run.todo /\ rows' = rows
        /\ cognito'[rows[run.url].id] # None /\ cognito'[rows[run.url].id].branded
    BY <1>10 DEF Ensures, Leaves, Calls, TablesSame
  <2>2. CASE u # run.url
    BY <1>3, <2>1, <2>2 DEF Purging
  <2>3. CASE u = run.url
    BY <2>1, <2>3 DEF StillWhole
  <2>. QED  BY <2>2, <2>3
<1>11. CASE Cleans
  <2>1. CASE ScansRemoved
    BY <1>3, <2>1 DEF ScansRemoved, Quiet, TablesSame, Handling, Working, Purging
  <2>2. ASSUME NEW c \in run.scan, Retires(c) PROVE StillWhole(rows'[u].id)
    <3>1. /\ c.key \in Urls /\ rows[c.key] \in RowSet /\ run.phase = "retire" /\ SameRound
          /\ PutClient(c.key, Disabled(rows[c.key], run.now + AccessLifetime), None, None)
          /\ run'.todo = run.todo
      BY <2>2 DEF Retires
    <3>2. /\ rows'[c.key] = Disabled(rows[c.key], run.now + AccessLifetime)
          /\ \A j \in RowKeys : j # c.key /\ j # None => rows'[j] = rows[j]
      BY <3>1, PutClientRows
    <3>3. ~rows'[c.key].enabled
      <4>1. run.now + AccessLifetime \in Time
        BY ConstantsAssumption DEF Inv, TypeOK, RunSet, Time
      <4>. QED  BY <3>1, <3>2, <4>1, DisabledFields
    <3>4. rows'[u] = rows[u]
      BY <1>1, <1>2, <3>2, <3>3, IdsFacts
    <3>. QED  BY <1>3, <3>1, <3>4 DEF Handling, Working, Purging
  <2>3. ~(ScansExpired \/ (\E c \in run.scan : DeletesBranding(c)) \/ DeletesClient \/ DeletesRows)
    BY DEF ScansExpired, DeletesBranding, DeletesClient, DeletesRows, Purging
  <2>. QED  BY <1>11, <2>1, <2>2, <2>3 DEF Cleans
<1>. QED  BY <1>4, <1>5, <1>6, <1>7, <1>8, <1>9, <1>10, <1>11 DEF Moved, Moves

LEMMA RepairDraft ==
    ASSUME Inv, SafeInv, RepairInv, Moved,
           run'.phase \in {"update", "put"}, run'.target.enabled, run'.after = "next"
    PROVE  StillWhole(run'.target.id)
<1>1. CASE run' = run /\ cognito' = cognito
  BY <1>1 DEF RepairInv, Whole, StillWhole
<1>2. ~DraftsSame /\ ~DraftsDisabled /\ ~\E u \in Urls : Replans(u)
  BY DEF DraftsSame, DraftsDisabled, Replans
<1>3. ~Creates
  BY DEF Creates
<1>4. CASE Brands
  BY <1>4 DEF Brands, Calls, StillWhole
<1>5. CASE Updates
  <2>1. Whole(run.target.id)
    BY <1>5 DEF Updates, Carries, RepairInv
  <2>. QED  BY <1>5, <2>1 DEF Updates, Calls, Whole, StillWhole
<1>. QED  BY <1>1, <1>2, <1>3, <1>4, <1>5, DraftsComeFrom

LEMMA RepairStep == Inv /\ Inv' /\ SafeInv /\ RepairInv /\ Moved => RepairInv'
  BY RepairRows, RepairDraft DEF RepairInv, Whole, StillWhole

(* Whatever was left half done before it, and whatever a purge's scan is   *)
(* given: of a run that has gone through its list and noted no error,      *)
(* every client it leaves enabled exists and has its login page.           *)
THEOREM RegistrarCleanRunRepairs == Spec => []CleanRunRepairs
<1>1. Init => RepairInv
  BY DEF Init, Idle, RepairInv
<1>2. Inv /\ Inv' /\ SafeInv /\ RepairInv /\ [Next]_vars => RepairInv'
  BY RepairStep, NextMoves
<1>3. SafeInv /\ RepairInv => CleanRunRepairs
  BY DEF SafeInv, RoundInv, Cleaning, Purging, Handling, Working, RepairInv, Whole, CleanRunRepairs
<1>. QED  BY <1>1, <1>2, <1>3, RegistrarInvariant, SafeInvariant, PTL DEF Spec
=============================================================================
