---------------------------- MODULE Proxy_proofs ----------------------------
(* Theorems about the proxy in front of any registrar that keeps the       *)
(* promises of Registration: for any number of requests, URLs and writes   *)
(* of the table, and any times.                                            *)
EXTENDS Proxy, FiniteSetTheorems, TLAPS

RequestSet ==
    [kind : AllKinds \cup {None}, url : Urls \cup {None}, given : Uris \cup {None},
     valid : BOOLEAN, phase : {"none", "load", "ask", "reload", "check", "forward", "done"},
     started : 0 .. MaxClock, spent : SUBSET ClientIds, row : Mappings \cup {None},
     uri : Uris \cup {None}, asked : (0 .. MaxClock) \cup {None}, refused : BOOLEAN,
     outcome : Outcomes \cup {None}]

-----------------------------------------------------------------------------
(* The registrar's side: an identifier belongs to one URL and does not come *)
(* back, and what was deleted was deleted in the past.                     *)

TableInv ==
    /\ \A u \in Urls : Known(u) => mapping[u].id \notin spent
    /\ \A u, w \in Urls : Known(u) /\ Known(w) /\ mapping[u].id = mapping[w].id => u = w

(* A lower bound for every fetch that a row of u may rest on from now on.  *)
Since(u) == IF Known(u) THEN mapping[u].fetchedAt ELSE deletedAt[u]

-----------------------------------------------------------------------------
(* The proxy's side: what holds of a request q that has seen the Faces in  *)
(* `seen'.                                                                 *)

Holding(q) == q.phase \in {"ask", "reload", "check", "forward"}
WasSent(q) == q.outcome \in {"cognito", "unreachable"}

(* Its row is one it has seen enabled, of a client not given up before.    *)
Backed(q, seen) ==
    Holding(q) \/ WasSent(q)
        => Usable(q.row) /\ Face(q.row) \in seen /\ q.row.id \notin q.spent

Paired(q) ==
    q.phase = "forward" \/ WasSent(q)
        => (q.kind \in BrowserKinds \cup {"code"} => q.uri \in q.row.uris)

Listed(q, seen) ==
    q.kind \in BrowserKinds /\ (Holding(q) \/ (q.phase = "done" /\ q.uri # None))
        => \E f \in seen : f # None /\ q.uri \in f.uris

Refusable(q, seen) == q.outcome = "invalid_client" => q.refused \/ None \in seen

(* Its row was within its lifetime, or has been fetched since it asked.    *)
Current(q) ==
    (q.phase \in {"check", "forward"} \/ WasSent(q)) /\ q.kind # "revoke"
        => \/ q.started < q.row.cacheUntil
           \/ q.asked # None /\ q.row.fetchedAt >= q.asked

Served(q, seen, now, gone) ==
    /\ q \in RequestSet
    /\ q.phase # "none" => q.url \in Urls /\ q.kind \in AllKinds
    /\ q.outcome # None => q.phase = "done"
    /\ q.phase \in {"ask", "reload"} => q.asked \in 0 .. now /\ q.kind # "revoke"
    /\ q.started <= now /\ q.spent \subseteq gone
    /\ Backed(q, seen) /\ Paired(q) /\ Listed(q, seen) /\ Refusable(q, seen) /\ Current(q)

(* What a request that is under way has seen is the row as it is now, and  *)
(* a row that the registrar has confirmed stays recent until it is read.   *)
Watching(q, seen) ==
    q.phase \notin {"none", "done"}
        => /\ Face(mapping[q.url]) \in seen
           /\ q.phase = "reload" => Since(q.url) >= q.asked

RequestInv == \A r \in Requests : Served(req[r], during[r], clock, spent) /\ Watching(req[r], during[r])

ProxyInv == TypeOK /\ TableInv /\ RequestInv
-----------------------------------------------------------------------------
(* The table.                                                              *)

LEMMA FaceOfUsable ==
    ASSUME NEW m \in Mappings \cup {None}
    PROVE  /\ Face(m) \in Faces
           /\ Usable(m) => m \in Mappings /\ Face(m) # None /\ Face(m).uris = m.uris
           /\ ~Usable(m) => Face(m) = None
  BY ProxyAssumption DEF Face, Faces, Usable, Mappings

LEMMA WriteStep ==
    ASSUME TypeOK, NEW u \in Urls, NEW m \in Mappings \cup {None}, Write(u, m)
    PROVE  /\ mapping' \in [Urls -> Mappings \cup {None}]
           /\ mapping'[u] = m /\ \A w \in Urls \ {u} : mapping'[w] = mapping[w]
           /\ accepted' \subseteq ClientIds
           /\ clock' = clock
<1>1. mapping' \in [Urls -> Mappings \cup {None}]
  BY DEF TypeOK, Write
<1>2. mapping'[u] = m /\ \A w \in Urls \ {u} : mapping'[w] = mapping[w]
  BY DEF TypeOK, Write
<1>3. m # None => m.id \in ClientIds
  BY DEF Mappings
<1>4. accepted' \subseteq ClientIds
  BY <1>3 DEF TypeOK, Write
<1> QED
  BY <1>1, <1>2, <1>4 DEF Write

(* What a write of the registrar leaves true of the table, and for how     *)
(* recent a row a reader may wait.                                         *)
TableKept(u) ==
    /\ TableInv'
    /\ mapping' \in [Urls -> Mappings \cup {None}]
    /\ accepted' \subseteq ClientIds /\ spent' \subseteq ClientIds /\ spent \subseteq spent'
    /\ deletedAt' \in [Urls -> 0 .. MaxClock]
    /\ clock' = clock
    /\ \A w \in Urls \ {u} : mapping'[w] = mapping[w] /\ deletedAt'[w] = deletedAt[w]
    /\ \A a \in 0 .. clock : Since(u) >= a => Since(u)' >= a

LEMMA ConfirmStep ==
    ASSUME TypeOK, TableInv, NEW u \in Urls, NEW m \in Mappings, Confirm(u, m)
    PROVE  TableKept(u)
<1> USE DEF TableInv, Known
<1>1. m # None /\ m.fetchedAt \in Nat /\ m.id \in ClientIds /\ Write(u, m) /\ deletedAt' = deletedAt
  BY ProxyAssumption DEF Confirm, Register, Refresh, Rotate, Mappings
<1>2. /\ mapping' \in [Urls -> Mappings \cup {None}]
      /\ mapping'[u] = m /\ \A w \in Urls \ {u} : mapping'[w] = mapping[w]
      /\ accepted' \subseteq ClientIds
      /\ clock' = clock
  BY <1>1, WriteStep
<1>3. spent' \subseteq ClientIds /\ spent \subseteq spent'
  BY DEF Confirm, Register, Refresh, Rotate, TypeOK, Mappings
<1>4. TableInv'
  BY <1>1, <1>2 DEF Confirm, Register, Refresh, Rotate, New
<1>5. m.fetchedAt >= Since(u) /\ Since(u)' = m.fetchedAt
  BY <1>1, <1>2 DEF Confirm, Register, Refresh, Rotate, Since
<1>6. Since(u) \in Nat /\ clock \in Nat
  BY ProxyAssumption DEF Since, TypeOK, Mappings
<1> QED
  BY <1>1, <1>2, <1>3, <1>4, <1>5, <1>6 DEF TableKept, TypeOK

LEMMA DisableStep ==
    ASSUME TypeOK, TableInv, NEW u \in Urls, Disable(u)
    PROVE  TableKept(u)
<1> USE DEF TableInv, Known
<1> DEFINE m == [mapping[u] EXCEPT !.enabled = FALSE]
<1>1. mapping[u] \in Mappings
  BY DEF Disable, TypeOK
<1>2. /\ m \in Mappings /\ m.fetchedAt = mapping[u].fetchedAt /\ m.id = mapping[u].id
      /\ m # None
  BY <1>1, ProxyAssumption DEF Mappings
<1>3. Write(u, m) /\ mapping[u] # None /\ UNCHANGED <<spent, deletedAt>>
  BY DEF Disable
<1> HIDE DEF m
<1>4. /\ mapping' \in [Urls -> Mappings \cup {None}]
      /\ mapping'[u] = m /\ \A w \in Urls \ {u} : mapping'[w] = mapping[w]
      /\ accepted' \subseteq ClientIds
      /\ clock' = clock
  BY <1>2, <1>3, WriteStep
<1>5. TableInv'
  BY <1>2, <1>3, <1>4
<1>6. Since(u)' = Since(u)
  BY <1>2, <1>3, <1>4 DEF Since
<1> QED
  BY <1>2, <1>3, <1>4, <1>5, <1>6 DEF TableKept, TypeOK

LEMMA DeleteStep ==
    ASSUME TypeOK, TableInv, NEW u \in Urls, Delete(u)
    PROVE  TableKept(u)
<1> USE DEF TableInv, Known
<1>1. /\ Write(u, None) /\ mapping[u] \in Mappings /\ mapping[u].id \in ClientIds
      /\ mapping[u] # None
      /\ spent' = spent \cup {mapping[u].id}
      /\ deletedAt' = [deletedAt EXCEPT ![u] = clock]
  BY DEF Delete, TypeOK, Mappings
<1>2. /\ mapping' \in [Urls -> Mappings \cup {None}]
      /\ mapping'[u] = None /\ \A w \in Urls \ {u} : mapping'[w] = mapping[w]
      /\ accepted' \subseteq ClientIds
      /\ clock' = clock
  BY <1>1, WriteStep
<1>3. TableInv'
  BY <1>1, <1>2
<1>4. Since(u)' = clock
  BY <1>1, <1>2 DEF Since, TypeOK
<1>5. clock \in Nat
  BY ProxyAssumption DEF TypeOK
<1> QED
  <2>1. \A a \in 0 .. clock : Since(u)' >= a
    BY <1>4, <1>5
  <2>2. deletedAt' \in [Urls -> 0 .. MaxClock]
    BY <1>1, <1>5 DEF TypeOK
  <2>3. \A w \in Urls \ {u} : mapping'[w] = mapping[w] /\ deletedAt'[w] = deletedAt[w]
    BY <1>1, <1>2 DEF TypeOK
  <2> QED
    BY <1>1, <1>2, <1>3, <2>1, <2>2, <2>3 DEF TableKept, TypeOK

-----------------------------------------------------------------------------
(* A request keeps what it has while it waits.                             *)
LEMMA ServedStays ==
    ASSUME NEW q, NEW seen, NEW more, NEW now \in Nat, NEW later \in Nat, NEW gone, NEW goneLater,
           seen \subseteq more, now <= later, gone \subseteq goneLater,
           Served(q, seen, now, gone)
    PROVE  Served(q, more, later, goneLater)
<1>1. q.started \in Nat
  BY ProxyAssumption DEF Served, RequestSet
<1>2. Backed(q, more) /\ Listed(q, more) /\ Refusable(q, more)
  BY DEF Served, Backed, Listed, Refusable
<1> QED
  BY <1>1, <1>2 DEF Served

LEMMA WriteKeepsInv ==
    ASSUME ProxyInv, NEW u \in Urls, RegistrarWrites(u)
    PROVE  ProxyInv'
<1> USE DEF ProxyInv
<1>1. TableKept(u)
  BY ConfirmStep, DisableStep, DeleteStep DEF RegistrarWrites
<1>2. /\ req' = req /\ writes' \in 0 .. MaxWrites
      /\ \A r \in Requests :
            during'[r] = IF Active(r) /\ req[r].url = u THEN during[r] \cup {Face(mapping'[u])}
                         ELSE during[r]
  BY ProxyAssumption DEF RegistrarWrites, TypeOK
<1>3. during' \in [Requests -> SUBSET Faces]
  <2>1. Face(mapping'[u]) \in Faces
    BY <1>1, FaceOfUsable DEF TableKept
  <2> QED
    BY <1>2, <2>1 DEF TypeOK, RegistrarWrites
<1>4. TypeOK'
  BY <1>1, <1>2, <1>3 DEF TypeOK, TableKept
<1>5. ASSUME NEW r \in Requests
      PROVE  Served(req[r], during'[r], clock, spent')
  <2>1. during[r] \subseteq during'[r]
    BY <1>2
  <2>2. clock \in Nat /\ clock <= clock /\ spent \subseteq spent'
    BY <1>1, ProxyAssumption DEF TypeOK, TableKept
  <2>3. Served(req[r], during[r], clock, spent)
    BY DEF RequestInv
  <2> QED
    BY <2>1, <2>2, <2>3, ServedStays
<1>6. ASSUME NEW r \in Requests
      PROVE  Watching(req[r], during[r])'
  <2> SUFFICES ASSUME req[r].phase \notin {"none", "done"}
               PROVE  /\ Face(mapping'[req[r].url]) \in during'[r]
                      /\ req[r].phase = "reload" => Since(req[r].url)' >= req[r].asked
    BY <1>2 DEF Watching, Since
  <2>1. req[r].url \in Urls /\ (req[r].phase = "reload" => req[r].asked \in 0 .. clock)
    BY DEF RequestInv, Served
  <2>2. /\ Face(mapping[req[r].url]) \in during[r]
        /\ req[r].phase = "reload" => Since(req[r].url) >= req[r].asked
    BY DEF RequestInv, Watching
  <2>3. CASE req[r].url = u
    BY <1>1, <1>2, <2>1, <2>2, <2>3 DEF TableKept, Active
  <2>4. CASE req[r].url # u
    BY <1>1, <1>2, <2>1, <2>2, <2>4 DEF TableKept, Active, Since, Known
  <2> QED
    BY <2>3, <2>4
<1> QED
  BY <1>1, <1>2, <1>4, <1>5, <1>6 DEF RequestInv, TableKept

LEMMA TickKeepsInv ==
    ASSUME ProxyInv, Tick
    PROVE  ProxyInv'
<1> USE DEF ProxyInv
<1>1. clock \in Nat /\ clock' = clock + 1 /\ clock' \in 0 .. MaxClock
  BY ProxyAssumption DEF Tick, Pass, TypeOK
<1>2. UNCHANGED <<registration, writes, req, during>>
  BY DEF Tick, Pass
<1>3. TypeOK' /\ TableInv'
  BY <1>1, <1>2 DEF TypeOK, TableInv, Known, registration
<1>4. ASSUME NEW r \in Requests
      PROVE  Served(req[r], during[r], clock', spent) /\ Watching(req[r], during[r])'
  <2>1. Served(req[r], during[r], clock, spent) /\ Watching(req[r], during[r])
    BY DEF RequestInv
  <2>2. Served(req[r], during[r], clock', spent)
    BY <1>1, <2>1, ServedStays
  <2> QED
    BY <1>2, <2>1, <2>2 DEF Watching, Since, Known, registration
<1> QED
  BY <1>2, <1>3, <1>4 DEF RequestInv, registration

-----------------------------------------------------------------------------
(* A step of one request.                                                  *)

(* Request r becomes q and nothing else changes.                           *)
Becomes(r, q) ==
    req' = [req EXCEPT ![r] = q] /\ UNCHANGED <<clock, registration, writes, during>>

LEMMA RequestStep ==
    ASSUME ProxyInv, NEW r \in Requests, NEW q, Becomes(r, q),
           Served(q, during[r], clock, spent), Watching(q, during[r])
    PROVE  ProxyInv'
<1> USE DEF ProxyInv
<1>1. /\ UNCHANGED <<clock, mapping, accepted, spent, deletedAt, writes, during>>
      /\ req'[r] = q /\ \A s \in Requests \ {r} : req'[s] = req[s]
  BY DEF Becomes, registration, TypeOK
<1>2. TypeOK'
  BY <1>1 DEF Becomes, Served, RequestSet, TypeOK
<1>3. TableInv'
  BY <1>1 DEF TableInv, Known
<1>4. ASSUME NEW s \in Requests
      PROVE  Served(req'[s], during[s], clock, spent) /\ Watching(req[s], during[s])'
  <2>1. Served(req'[s], during[s], clock, spent) /\ Watching(req'[s], during[s])
    BY <1>1 DEF RequestInv
  <2> QED
    BY <1>1, <2>1 DEF Watching, Since, Known
<1> QED
  BY <1>1, <1>2, <1>3, <1>4 DEF RequestInv

(* The parts of a request that no step changes.                            *)
Asks(p) == <<p.kind, p.url, p.given, p.started, p.spent>>

LEMMA EndStep ==
    ASSUME ProxyInv, NEW r \in Requests, Active(r), NEW q \in RequestSet, Becomes(r, q),
           Asks(q) = Asks(req[r]), q.phase = "done", q.outcome # None,
           q.outcome \in {"cognito", "unreachable"} =>
              req[r].phase = "forward" /\ q.row = req[r].row /\ q.uri = req[r].uri /\ q.asked = req[r].asked,
           q.outcome = "invalid_client" => q.refused \/ None \in during[r],
           Browser(r) /\ q.uri # None => \E f \in during[r] : f # None /\ q.uri \in f.uris
    PROVE  ProxyInv'
<1>1. Served(req[r], during[r], clock, spent)
  BY DEF ProxyInv, RequestInv
<1>2. Backed(q, during[r]) /\ Paired(q) /\ Current(q)
  BY <1>1 DEF Served, Backed, Paired, Current, Holding, WasSent, Asks
<1>3. Listed(q, during[r]) /\ Refusable(q, during[r])
  BY DEF Listed, Refusable, Holding, Browser, Asks
<1>4. Served(q, during[r], clock, spent)
  BY <1>1, <1>2, <1>3 DEF Served, Active, Asks
<1> QED
  BY <1>4, RequestStep DEF Watching

LEMMA GoOnStep ==
    ASSUME ProxyInv, NEW r \in Requests, Active(r), NEW q \in RequestSet, Becomes(r, q),
           Asks(q) = Asks(req[r]), Holding(q), q.outcome = req[r].outcome,
           Usable(q.row), Face(q.row) \in during[r], q.row.id \notin q.spent,
           q.phase \in {"ask", "reload"} => q.asked \in 0 .. clock /\ q.kind # "revoke",
           q.phase = "reload" => Since(q.url) >= q.asked,
           q.phase = "forward" /\ q.kind \in BrowserKinds \cup {"code"} => q.uri \in q.row.uris,
           Browser(r) => \E f \in during[r] : f # None /\ q.uri \in f.uris,
           q.phase \in {"check", "forward"} /\ q.kind # "revoke" =>
              q.started < q.row.cacheUntil \/ (q.asked # None /\ q.row.fetchedAt >= q.asked)
    PROVE  ProxyInv'
<1>1. Served(req[r], during[r], clock, spent) /\ Watching(req[r], during[r])
  BY DEF ProxyInv, RequestInv
<1>2. req[r].outcome = None
  BY <1>1 DEF Served, Active
<1>3. Backed(q, during[r]) /\ Paired(q) /\ Current(q) /\ Refusable(q, during[r])
  BY <1>2, ProxyAssumption DEF Backed, Paired, Current, Refusable, Holding, WasSent, Outcomes
<1>4. Listed(q, during[r])
  BY DEF Listed, Browser, Asks, Holding
<1>5. Served(q, during[r], clock, spent)
  BY <1>1, <1>2, <1>3, <1>4 DEF Served, Active, Asks
<1>6. Watching(q, during[r])
  BY <1>1 DEF Watching, Active, Asks
<1> QED
  BY <1>5, <1>6, RequestStep

(* What is known of a request that is under way.                           *)
LEMMA UnderWay ==
    ASSUME ProxyInv, NEW r \in Requests, Active(r)
    PROVE  /\ req[r] \in RequestSet /\ req[r].url \in Urls /\ req[r].kind \in AllKinds
           /\ req[r].outcome = None
           /\ Face(mapping[req[r].url]) \in during[r]
           /\ mapping[req[r].url] \in Mappings \cup {None}
           /\ clock \in 0 .. MaxClock /\ clock \in Nat /\ req[r].started \in Nat /\ req[r].started <= clock
           /\ req[r].spent \subseteq spent
           /\ Usable(mapping[req[r].url]) =>
                 /\ mapping[req[r].url] \in Mappings
                 /\ mapping[req[r].url].id \notin req[r].spent
<1>1. Served(req[r], during[r], clock, spent) /\ Watching(req[r], during[r])
  BY DEF ProxyInv, RequestInv
<1>2. req[r].url \in Urls /\ req[r] \in RequestSet
  BY <1>1 DEF Served, Active
<1>3. mapping[req[r].url] \in Mappings \cup {None}
  BY <1>2 DEF ProxyInv, TypeOK
<1>4. clock \in 0 .. MaxClock /\ clock \in Nat /\ req[r].started \in Nat
  BY <1>2, ProxyAssumption DEF ProxyInv, TypeOK, RequestSet
<1>5. Usable(mapping[req[r].url]) =>
        mapping[req[r].url] \in Mappings /\ mapping[req[r].url].id \notin req[r].spent
  BY <1>1, <1>2, <1>3 DEF ProxyInv, TableInv, Known, Usable, Served
<1> QED
  BY <1>1, <1>2, <1>3, <1>4, <1>5 DEF Served, Watching, Active

LEMMA RespondStep ==
    ASSUME ProxyInv, NEW r \in Requests, Active(r), At(r, req[r].phase),
           NEW outcome \in Outcomes, NEW uri \in Uris \cup {None}, Respond(r, outcome, uri),
           outcome \in {"cognito", "unreachable"} => req[r].phase = "forward" /\ uri = req[r].uri,
           outcome = "invalid_client" => None \in during[r],
           Browser(r) /\ uri # None => \E f \in during[r] : f # None /\ uri \in f.uris
    PROVE  ProxyInv'
<1> DEFINE q == [req[r] EXCEPT !.phase = "done", !.outcome = outcome, !.uri = uri]
<1>1. req[r] \in RequestSet
  BY UnderWay
<1>2. /\ q \in RequestSet /\ Asks(q) = Asks(req[r])
      /\ q.phase = "done" /\ q.outcome = outcome /\ q.uri = uri
      /\ q.row = req[r].row /\ q.asked = req[r].asked
  BY <1>1 DEF RequestSet, Asks
<1>3. Becomes(r, q)
  BY DEF Respond, At, Becomes
<1>4. q.outcome # None
  BY <1>2, ProxyAssumption DEF Outcomes
<1> QED
  BY <1>2, <1>3, <1>4, EndStep

-----------------------------------------------------------------------------
(* One action after the other.                                             *)

LEMMA ArriveKeepsInv ==
    ASSUME ProxyInv, NEW r \in Requests, NEW kind \in AllKinds, NEW u \in Urls,
           NEW given \in Uris \cup {None}, NEW valid \in BOOLEAN, Arrive(r, kind, u, given, valid)
    PROVE  ProxyInv'
<1> DEFINE q == [NoRequest EXCEPT !.kind = kind, !.url = u, !.given = given, !.valid = valid,
                                  !.phase = "load", !.started = clock, !.spent = spent]
           seen == {Face(mapping[u])}
<1>1. clock \in 0 .. MaxClock /\ clock \in Nat /\ spent \subseteq ClientIds /\ mapping[u] \in Mappings \cup {None}
  BY ProxyAssumption DEF ProxyInv, TypeOK
<1>2. q \in RequestSet
  BY <1>1, ProxyAssumption DEF RequestSet, NoRequest
<1>3. /\ q.phase = "load" /\ q.url = u /\ q.kind = kind /\ q.outcome = None
      /\ q.started = clock /\ q.spent = spent
  BY DEF NoRequest
<1>4. /\ UNCHANGED <<clock, mapping, accepted, spent, deletedAt, writes>>
      /\ req' = [req EXCEPT ![r] = q] /\ during' = [during EXCEPT ![r] = seen]
  BY DEF Arrive, registration
<1> HIDE DEF q
<1>5. Served(q, seen, clock, spent)
  BY <1>1, <1>2, <1>3, ProxyAssumption
     DEF Served, Backed, Paired, Listed, Refusable, Current, Holding, WasSent, Outcomes
<1>6. Watching(q, seen)
  BY <1>3 DEF Watching
<1>7. seen \in SUBSET Faces
  BY <1>1, FaceOfUsable
<1> HIDE DEF seen
<1>8. /\ req'[r] = q /\ during'[r] = seen
      /\ \A s \in Requests \ {r} : req'[s] = req[s] /\ during'[s] = during[s]
  BY <1>4 DEF ProxyInv, TypeOK
<1>9. TypeOK' /\ TableInv'
  BY <1>2, <1>4, <1>7 DEF ProxyInv, TypeOK, RequestSet, TableInv, Known
<1>10. ASSUME NEW s \in Requests
       PROVE  Served(req'[s], during'[s], clock, spent) /\ Watching(req[s], during[s])'
  <2>1. Served(req'[s], during'[s], clock, spent) /\ Watching(req'[s], during'[s])
    BY <1>5, <1>6, <1>8 DEF ProxyInv, RequestInv
  <2> QED
    BY <1>4, <2>1 DEF Watching, Since, Known
<1> QED
  BY <1>4, <1>9, <1>10 DEF ProxyInv, RequestInv

LEMMA TurnedDownKeepsInv ==
    ASSUME ProxyInv, NEW r \in Requests, Malformed(r) \/ BadClientId(r) \/ Die(r)
    PROVE  ProxyInv'
<1>1. PICK outcome \in {"invalid_request", "server_error"} :
         Active(r) /\ At(r, req[r].phase) /\ Respond(r, outcome, None)
  BY DEF Malformed, BadClientId, Die, Active, At
<1> QED
  BY <1>1, RespondStep DEF Outcomes

LEMMA InvalidClientKeepsInv ==
    ASSUME ProxyInv, NEW r \in Requests, NEW phase \in {"load", "reload"}, InvalidClient(r, phase)
    PROVE  ProxyInv'
<1>1. Active(r) /\ At(r, req[r].phase) /\ Respond(r, "invalid_client", None)
  BY DEF InvalidClient, At, Active
<1>2. ~Usable(mapping[req[r].url])
  BY DEF InvalidClient
<1>3. None \in during[r]
  BY <1>1, <1>2, UnderWay, FaceOfUsable
<1> QED
  BY <1>1, <1>3, RespondStep DEF Outcomes

LEMMA ResolvedIsListed ==
    ASSUME NEW given, NEW uris, Resolved(given, uris) # None
    PROVE  Resolved(given, uris) \in uris
  BY FS_EmptySet DEF Resolved

LEMMA FreshOrAskStep ==
    ASSUME ProxyInv, NEW r \in Requests, At(r, "load"), Usable(mapping[req[r].url]),
           req[r].kind # "revoke", NEW uri \in Uris \cup {None},
           Browser(r) => uri \in mapping[req[r].url].uris,
           FreshOrAsk(r, mapping[req[r].url], uri)
    PROVE  ProxyInv'
<1> DEFINE m == mapping[req[r].url]
           held == [req[r] EXCEPT !.phase = "check", !.row = m, !.uri = uri]
           asking == [req[r] EXCEPT !.phase = "ask", !.row = m, !.uri = uri, !.asked = clock]
<1>1. Active(r)
  BY DEF At, Active
<1>2. /\ req[r] \in RequestSet /\ m \in Mappings /\ Face(m) \in during[r] /\ m.id \notin req[r].spent
      /\ clock \in 0 .. MaxClock /\ clock \in Nat /\ req[r].started \in Nat /\ req[r].started <= clock
  BY <1>1, UnderWay
<1>3. Browser(r) => \E f \in during[r] : f # None /\ uri \in f.uris
  BY <1>2, FaceOfUsable
<1>4. CASE Fresh(m)
  <2>1. /\ held \in RequestSet /\ Asks(held) = Asks(req[r])
        /\ held.phase = "check" /\ held.row = m /\ held.uri = uri /\ held.outcome = req[r].outcome
        /\ held.spent = req[r].spent /\ held.started = req[r].started
    BY <1>2 DEF RequestSet, Asks
  <2>2. Becomes(r, held)
    BY <1>4 DEF FreshOrAsk, Continue, At, Becomes
  <2>3. held.started < held.row.cacheUntil
    BY <1>2, <1>4, <2>1, ProxyAssumption DEF Fresh, Mappings
  <2> HIDE DEF held, m
  <2> QED
    BY <1>1, <1>2, <1>3, <2>1, <2>2, <2>3, GoOnStep DEF Holding, m
<1>5. CASE ~Fresh(m)
  <2>1. /\ asking \in RequestSet /\ Asks(asking) = Asks(req[r])
        /\ asking.phase = "ask" /\ asking.row = m /\ asking.uri = uri /\ asking.outcome = req[r].outcome
        /\ asking.spent = req[r].spent /\ asking.asked = clock /\ asking.kind = req[r].kind
    BY <1>2 DEF RequestSet, Asks
  <2>2. Becomes(r, asking)
    BY <1>5 DEF FreshOrAsk, At, Becomes
  <2>3. asking.asked \in 0 .. clock
    BY <1>2, <2>1
  <2> HIDE DEF asking, m
  <2> QED
    BY <1>1, <1>2, <1>3, <2>1, <2>2, <2>3, GoOnStep DEF Holding, m
<1> QED
  BY <1>4, <1>5

LEMMA LoadKeepsInv ==
    ASSUME ProxyInv, NEW r \in Requests, LoadBrowser(r) \/ LoadToken(r) \/ LoadRevoke(r)
    PROVE  ProxyInv'
<1> DEFINE m == mapping[req[r].url]
           uri == Resolved(req[r].given, m.uris)
           last == [req[r] EXCEPT !.phase = "forward", !.row = m, !.uri = None]
<1>1. Active(r) /\ At(r, "load") /\ At(r, req[r].phase) /\ Usable(m)
  BY DEF LoadBrowser, LoadToken, LoadRevoke, At, Active
<1>2. /\ req[r] \in RequestSet /\ m \in Mappings /\ Face(m) \in during[r] /\ m.id \notin req[r].spent
  BY <1>1, UnderWay
<1>3. CASE LoadBrowser(r)
  <2>1. uri # None => uri \in m.uris /\ uri \in Uris
    BY <1>2, ResolvedIsListed, ProxyAssumption DEF Mappings
  <2>2. uri # None => \E f \in during[r] : f # None /\ uri \in f.uris
    BY <1>1, <1>2, <2>1, FaceOfUsable
  <2>3. Browser(r) /\ req[r].kind # "revoke"
    BY <1>3 DEF LoadBrowser, Browser, BrowserKinds
  <2> HIDE DEF uri
  <2>4. CASE uri = None /\ Respond(r, "invalid_request", None)
    BY <1>1, <2>4, RespondStep DEF Outcomes
  <2>5. CASE uri # None /\ Respond(r, "rejected", uri)
    BY <1>1, <2>1, <2>2, <2>5, RespondStep DEF Outcomes
  <2>6. CASE uri # None /\ FreshOrAsk(r, m, uri)
    BY <1>1, <2>1, <2>3, <2>6, FreshOrAskStep
  <2> QED
    BY <1>3, <2>4, <2>5, <2>6 DEF LoadBrowser, uri
<1>4. CASE LoadToken(r)
  <2>1. ~Browser(r) /\ req[r].kind # "revoke" /\ FreshOrAsk(r, m, None)
    BY <1>4 DEF LoadToken, Browser, BrowserKinds, TokenKinds
  <2> QED
    BY <1>1, <2>1, FreshOrAskStep
<1>5. CASE LoadRevoke(r)
  <2>1. req[r].kind = "revoke" /\ Becomes(r, last)
    BY <1>5 DEF LoadRevoke, Continue, At, Becomes
  <2>2. /\ last \in RequestSet /\ Asks(last) = Asks(req[r])
        /\ last.phase = "forward" /\ last.row = m /\ last.outcome = req[r].outcome
        /\ last.spent = req[r].spent /\ last.kind = req[r].kind
    BY <1>2 DEF RequestSet, Asks
  <2>3. ~Browser(r) /\ last.kind \notin BrowserKinds \cup {"code"}
    BY <2>1, <2>2 DEF Browser, BrowserKinds
  <2> HIDE DEF last, m
  <2> QED
    BY <1>1, <1>2, <2>1, <2>2, <2>3, GoOnStep DEF Holding, m
<1> QED
  BY <1>3, <1>4, <1>5

(* What a request that has read a row holds.                               *)
LEMMA HeldRow ==
    ASSUME ProxyInv, NEW r \in Requests, Holding(req[r])
    PROVE  /\ Active(r) /\ req[r] \in RequestSet
           /\ Usable(req[r].row) /\ Face(req[r].row) \in during[r] /\ req[r].row.id \notin req[r].spent
           /\ Browser(r) => \E f \in during[r] : f # None /\ req[r].uri \in f.uris
           /\ req[r].phase \in {"ask", "reload"} => req[r].asked \in 0 .. clock /\ req[r].kind # "revoke"
           /\ req[r].phase = "reload" => Since(req[r].url) >= req[r].asked
           /\ req[r].phase \in {"check", "forward"} => Paired(req[r]) /\ Current(req[r])
<1>1. Served(req[r], during[r], clock, spent) /\ Watching(req[r], during[r])
  BY DEF ProxyInv, RequestInv
<1> QED
  BY <1>1 DEF Served, Watching, Backed, Listed, Holding, Active, Browser

LEMMA AnsweredKeepsInv ==
    ASSUME ProxyInv, NEW r \in Requests, Answered(r)
    PROVE  ProxyInv'
<1> DEFINE m == mapping[req[r].url]
<1>1. Holding(req[r]) /\ req[r].phase = "ask" /\ At(r, req[r].phase)
  BY DEF Answered, At, Holding
<1>2. PICK a \in Answers(m, req[r].asked) :
         \/ /\ Refusal(a)
            /\ req' = [req EXCEPT ![r] = [@ EXCEPT !.phase = "done", !.uri = None,
                          !.outcome = "invalid_client", !.refused = (a.status = "not_allowed")]]
         \/ ~Refusal(a) /\ ~Confirmation(a) /\ Fail(r, "temporarily_unavailable")
         \/ Confirmation(a) /\ Continue(r, "reload", req[r].row, req[r].uri)
  BY DEF Answered
<1>3. Active(r) /\ req[r] \in RequestSet /\ m \in Mappings \cup {None} /\ Face(m) \in during[r]
  BY <1>1, HeldRow, UnderWay
<1>4. CASE /\ Refusal(a)
           /\ req' = [req EXCEPT ![r] = [@ EXCEPT !.phase = "done", !.uri = None,
                         !.outcome = "invalid_client", !.refused = (a.status = "not_allowed")]]
  <2>0. PICK refused \in BOOLEAN : refused = (a.status = "not_allowed")
    BY Zenon
  <2> DEFINE q == [req[r] EXCEPT !.phase = "done", !.uri = None,
                      !.outcome = "invalid_client", !.refused = refused]
  <2>1. /\ q \in RequestSet /\ Asks(q) = Asks(req[r])
        /\ q.phase = "done" /\ q.outcome = "invalid_client" /\ q.uri = None
        /\ q.refused = refused
    BY <1>3 DEF RequestSet, Asks, Outcomes
  <2>2. Becomes(r, q)
    BY <1>1, <1>4, <2>0, Zenon DEF At, Becomes
  <2>3. a.status # "not_allowed" => ~Usable(m)
    BY <1>4 DEF Refusal, Answers
  <2>4. q.refused \/ None \in during[r]
    BY <1>3, <2>0, <2>1, <2>3, FaceOfUsable
  <2>5. q.outcome # None
    BY <2>1, ProxyAssumption DEF Outcomes
  <2> HIDE DEF q
  <2> QED
    BY <1>3, <2>1, <2>2, <2>4, <2>5, EndStep
<1>5. CASE ~Refusal(a) /\ ~Confirmation(a) /\ Fail(r, "temporarily_unavailable")
  <2>1. req[r].uri \in Uris \cup {None} /\ Respond(r, "temporarily_unavailable", req[r].uri)
    BY <1>3, <1>5 DEF RequestSet, Fail
  <2> QED
    BY <1>1, <1>3, <2>1, HeldRow, RespondStep DEF Outcomes
<1>6. CASE Confirmation(a) /\ Continue(r, "reload", req[r].row, req[r].uri)
  <2> DEFINE q == [req[r] EXCEPT !.phase = "reload", !.row = req[r].row, !.uri = req[r].uri]
  <2>1. /\ q \in RequestSet /\ Asks(q) = Asks(req[r])
        /\ q.phase = "reload" /\ q.row = req[r].row /\ q.uri = req[r].uri /\ q.outcome = req[r].outcome
        /\ q.asked = req[r].asked /\ q.spent = req[r].spent /\ q.url = req[r].url /\ q.kind = req[r].kind
    BY <1>3 DEF RequestSet, Asks
  <2>2. Becomes(r, q)
    BY <1>1, <1>6 DEF Continue, At, Becomes
  <2>3. Usable(m) /\ m.fetchedAt >= req[r].asked
    BY <1>6 DEF Confirmation, Answers
  <2>4. Since(req[r].url) >= req[r].asked
    BY <2>3 DEF Since, Known, Usable
  <2> HIDE DEF q
  <2> QED
    BY <1>1, <1>3, <2>1, <2>2, <2>4, HeldRow, GoOnStep DEF Holding
<1> QED
  BY <1>2, <1>4, <1>5, <1>6

LEMMA ReloadKeepsInv ==
    ASSUME ProxyInv, NEW r \in Requests, Reload(r)
    PROVE  ProxyInv'
<1> DEFINE m == mapping[req[r].url]
           q == [req[r] EXCEPT !.phase = "check", !.row = m, !.uri = req[r].uri]
<1>1. Holding(req[r]) /\ req[r].phase = "reload" /\ Usable(m) /\ Becomes(r, q)
  BY DEF Reload, At, Holding, Continue, Becomes
<1>2. /\ Active(r) /\ req[r] \in RequestSet /\ m \in Mappings /\ Face(m) \in during[r]
      /\ m.id \notin req[r].spent
  BY <1>1, HeldRow, UnderWay
<1>3. /\ q \in RequestSet /\ Asks(q) = Asks(req[r])
      /\ q.phase = "check" /\ q.row = m /\ q.uri = req[r].uri /\ q.outcome = req[r].outcome
      /\ q.asked = req[r].asked /\ q.spent = req[r].spent
  BY <1>2 DEF RequestSet, Asks
<1>4. q.asked # None /\ m.fetchedAt >= q.asked
  <2>1. req[r].asked \in 0 .. clock /\ Since(req[r].url) >= req[r].asked
    BY <1>1, HeldRow
  <2>2. Since(req[r].url) = m.fetchedAt
    BY <1>1 DEF Since, Known, Usable
  <2>3. None \notin 0 .. clock
    BY ProxyAssumption
  <2> QED
    BY <1>3, <2>1, <2>2, <2>3
<1> HIDE DEF q, m
<1> QED
  BY <1>1, <1>2, <1>3, <1>4, HeldRow, GoOnStep DEF Holding

LEMMA CheckKeepsInv ==
    ASSUME ProxyInv, NEW r \in Requests, CheckBrowser(r) \/ CheckToken(r)
    PROVE  ProxyInv'
<1> DEFINE q(uri) == [req[r] EXCEPT !.phase = "forward", !.row = req[r].row, !.uri = uri]
<1>1. Holding(req[r]) /\ req[r].phase = "check" /\ At(r, "check") /\ At(r, req[r].phase)
  BY DEF CheckBrowser, CheckToken, At, Holding
<1>2. Active(r) /\ req[r] \in RequestSet /\ req[r].uri \in Uris \cup {None} /\ req[r].given \in Uris \cup {None}
  BY <1>1, HeldRow DEF RequestSet
<1>3. ASSUME NEW outcome \in {"invalid_request", "page", "invalid_grant"}, Respond(r, outcome, None)
      PROVE  ProxyInv'
  BY <1>1, <1>2, <1>3, RespondStep DEF Outcomes
<1>4. CASE Fail(r, "access_denied")
  <2>1. Respond(r, "access_denied", req[r].uri)
    BY <1>4 DEF Fail
  <2> QED
    BY <1>1, <1>2, <2>1, HeldRow, RespondStep DEF Outcomes
<1>5. ASSUME NEW uri \in Uris \cup {None}, Continue(r, "forward", req[r].row, uri),
             req[r].kind \in BrowserKinds \cup {"code"} => uri \in req[r].row.uris,
             Browser(r) => uri = req[r].uri
      PROVE  ProxyInv'
  <2>1. /\ q(uri) \in RequestSet /\ Asks(q(uri)) = Asks(req[r])
        /\ q(uri).phase = "forward" /\ q(uri).row = req[r].row /\ q(uri).uri = uri
        /\ q(uri).outcome = req[r].outcome /\ q(uri).asked = req[r].asked /\ q(uri).kind = req[r].kind
        /\ q(uri).spent = req[r].spent /\ q(uri).started = req[r].started
    BY <1>2 DEF RequestSet, Asks
  <2>2. Becomes(r, q(uri))
    BY <1>1, <1>5 DEF Continue, At, Becomes
  <2>3. Current(req[r])
    BY <1>1, HeldRow
  <2>4. q(uri).kind # "revoke" =>
          \/ q(uri).started < q(uri).row.cacheUntil
          \/ q(uri).asked # None /\ q(uri).row.fetchedAt >= q(uri).asked
    BY <1>1, <2>1, <2>3 DEF Current
  <2> HIDE DEF q
  <2> QED
    BY <1>1, <1>2, <1>5, <2>1, <2>2, <2>4, HeldRow, GoOnStep DEF Holding
<1>6. CASE CheckBrowser(r)
  BY <1>2, <1>3, <1>4, <1>5, <1>6 DEF CheckBrowser, StillRegistered
<1>7. CASE CheckToken(r)
  <2>1. ~Browser(r) /\ (req[r].kind \in BrowserKinds \cup {"code"} => req[r].kind = "code")
    BY <1>7 DEF CheckToken, Browser, BrowserKinds, TokenKinds
  <2>2. CASE Respond(r, "invalid_request", None) \/ Respond(r, "invalid_grant", None)
    BY <1>3, <2>2
  <2>3. CASE /\ req[r].kind = "code" => req[r].given \in req[r].row.uris
             /\ Continue(r, "forward", req[r].row, req[r].given)
    BY <1>2, <1>5, <2>1, <2>3
  <2> QED
    BY <1>7, <2>2, <2>3 DEF CheckToken
<1> QED
  BY <1>6, <1>7

LEMMA ForwardKeepsInv ==
    ASSUME ProxyInv, NEW r \in Requests, Forward(r)
    PROVE  ProxyInv'
<1>1. Holding(req[r]) /\ req[r].phase = "forward" /\ At(r, req[r].phase)
  BY DEF Forward, At, Holding
<1>2. Active(r) /\ req[r].uri \in Uris \cup {None}
  BY <1>1, HeldRow DEF RequestSet
<1>3. PICK outcome \in {"cognito", "unreachable"} : Respond(r, outcome, req[r].uri)
  BY DEF Forward
<1> QED
  BY <1>1, <1>2, <1>3, HeldRow, RespondStep DEF Outcomes

-----------------------------------------------------------------------------
(* The invariant, and what follows from it.                                *)

LEMMA ProxyInvariant == Spec => []ProxyInv
<1>1. Init => ProxyInv
  <2> SUFFICES ASSUME Init
               PROVE  ProxyInv
    OBVIOUS
  <2>1. NoRequest \in RequestSet
    BY ProxyAssumption DEF NoRequest, RequestSet
  <2>2. /\ NoRequest.phase = "none" /\ NoRequest.outcome = None
        /\ NoRequest.started = 0 /\ NoRequest.spent = {}
    BY DEF NoRequest
  <2>3. TypeOK /\ TableInv
    BY <2>1, ProxyAssumption DEF Init, RegistrationInit, TypeOK, TableInv, Known, RequestSet
  <2>4. Served(NoRequest, {}, 0, {}) /\ Watching(NoRequest, {})
    BY <2>1, <2>2, ProxyAssumption
       DEF Served, Backed, Paired, Listed, Refusable, Current, Holding, WasSent, Watching, Outcomes
  <2> QED
    BY <2>3, <2>4 DEF Init, RegistrationInit, ProxyInv, RequestInv
<1>2. ProxyInv /\ [Next]_vars => ProxyInv'
  <2> SUFFICES ASSUME ProxyInv, [Next]_vars
               PROVE  ProxyInv'
    OBVIOUS
  <2>1. CASE Tick
    BY <2>1, TickKeepsInv
  <2>2. CASE \E u \in Urls : RegistrarWrites(u)
    BY <2>2, WriteKeepsInv
  <2>3. CASE \E r \in Requests, kind \in AllKinds, u \in Urls, given \in Uris \cup {None}, valid \in BOOLEAN :
                Arrive(r, kind, u, given, valid)
    BY <2>3, ArriveKeepsInv
  <2>4. CASE \E r \in Requests : Step(r) \/ Die(r)
    BY <2>4, TurnedDownKeepsInv, InvalidClientKeepsInv, LoadKeepsInv, AnsweredKeepsInv, ReloadKeepsInv,
       CheckKeepsInv, ForwardKeepsInv DEF Step
  <2>5. CASE UNCHANGED vars
    BY <2>5 DEF vars, registration, ProxyInv, TypeOK, TableInv, RequestInv, Watching, Since, Known
  <2> QED
    BY <2>1, <2>2, <2>3, <2>4, <2>5 DEF Next
<1> QED
  BY <1>1, <1>2, PTL DEF Spec

(* The types of the proxy's model: a request has a row of the table, a     *)
(* redirect URI or none of them, in every phase.                           *)
THEOREM ProxyTyping == Spec => []TypeOK
<1>1. ProxyInv => TypeOK
  BY DEF ProxyInv
<1> QED
  BY <1>1, ProxyInvariant, PTL

(* What is forwarded pairs a client and a redirect URI of one enabled row  *)
(* seen during the request.                                                *)
THEOREM ProxySentTogether == Spec => []SentTogether
<1>1. ProxyInv => SentTogether
  BY DEF ProxyInv, RequestInv, Served, Backed, Paired, WasSent, SentTogether, Sent
<1> QED
  BY <1>1, ProxyInvariant, PTL

(* The freshness contract: whatever the registrar writes between its       *)
(* answer and the second read, and however often.                          *)
THEOREM ProxySentFresh == Spec => []SentFresh
<1>1. ProxyInv => SentFresh
  BY DEF ProxyInv, RequestInv, Served, Current, WasSent, SentFresh, Sent
<1> QED
  BY <1>1, ProxyInvariant, PTL

(* invalid_client is said only of a client that was refused, or not        *)
(* registered and enabled, at some moment of the request.                  *)
THEOREM ProxyInvalidClientMeansGone == Spec => []InvalidClientMeansGone
<1>1. ProxyInv => InvalidClientMeansGone
  BY DEF ProxyInv, RequestInv, Served, Refusable, InvalidClientMeansGone
<1> QED
  BY <1>1, ProxyInvariant, PTL

(* A browser is redirected only to a URI that an enabled row of the client *)
(* listed during the request.                                              *)
THEOREM ProxyRedirectsOnlyToRegistered == Spec => []RedirectsOnlyToRegistered
<1>1. ProxyInv => RedirectsOnlyToRegistered
  BY DEF ProxyInv, RequestInv, Served, Listed, Browser, RedirectsOnlyToRegistered
<1> QED
  BY <1>1, ProxyInvariant, PTL

(* No request that began after a client was given up is forwarded in its   *)
(* name.                                                                   *)
THEOREM ProxyOldClientsDie == Spec => []OldClientsDie
<1>1. ProxyInv => OldClientsDie
  BY DEF ProxyInv, RequestInv, Served, Backed, WasSent, OldClientsDie, Sent
<1> QED
  BY <1>1, ProxyInvariant, PTL
=============================================================================
