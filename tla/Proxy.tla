-------------------------------- MODULE Proxy --------------------------------
(***************************************************************************)
(* The proxy's requests (/authorize, /consent, /token, /revoke), in front  *)
(* of a registrar of which only the promises of Registration are known.    *)
(* The proxy keeps nothing between requests.  A request reads the row of   *)
(* its client, may ask the registrar to revalidate it, reads it again, and *)
(* forwards to Cognito: between any two of these the registrar, working    *)
(* for this request or for somebody else, may change the row.              *)
(***************************************************************************)
EXTENDS Registration, FiniteSets

CONSTANTS
    Requests,
    Uris,         \* redirect URIs
    UriLists,     \* what a document may register: sets of redirect URIs
    ShowConsent,  \* show_consent
    RequestTime,  \* Lambda ends a request after this long
    MaxClock,     \* bound: the clock
    MaxWrites     \* bound: changes of the table

Mappings ==
    [id : ClientIds, enabled : BOOLEAN, fetchedAt : 0 .. MaxClock,
     cacheUntil : 0 .. (MaxClock + CacheMax), uris : UriLists]

Outcomes == {"invalid_client", "invalid_request", "rejected", "temporarily_unavailable", "page",
             "access_denied", "invalid_grant", "cognito", "unreachable", "server_error"}

ASSUME ProxyAssumption ==
    /\ UriLists \subseteq SUBSET Uris
    /\ ShowConsent \in BOOLEAN
    /\ {CacheMax, Lag, RequestTime, MaxClock, MaxWrites} \subseteq Nat
    /\ None \notin Uris \cup Urls /\ None \notin Nat
    /\ None \notin Outcomes /\ None \notin Mappings /\ None \notin [id : ClientIds, uris : UriLists]

VARIABLES
    writes,
    req,      \* req[r]: what request r asks for and how far it has come
    during    \* during[r]: the client's Faces since r began (history)

vars == <<clock, registration, writes, req, during>>

BrowserKinds == {"authorize", "approve", "deny"}
TokenKinds == {"code", "refresh"}
AllKinds == BrowserKinds \cup TokenKinds \cup {"revoke"}

NoRequest ==
    [kind |-> None, url |-> None, given |-> None, valid |-> FALSE, phase |-> "none",
     started |-> 0, spent |-> {}, row |-> None, uri |-> None, asked |-> None,
     refused |-> FALSE, outcome |-> None]

Init ==
    /\ RegistrationInit
    /\ writes = 0
    /\ req = [r \in Requests |-> NoRequest]
    /\ during = [r \in Requests |-> {}]

(* What a request may do with a row: nothing, or name its client and its   *)
(* redirect URIs.                                                          *)
Usable(m) == m # None /\ m.enabled
Face(m) == IF Usable(m) THEN [id |-> m.id, uris |-> m.uris] ELSE None
Faces == [id : ClientIds, uris : UriLists] \cup {None}

Active(r) == req[r].phase \notin {"none", "done"}
Browser(r) == req[r].kind \in BrowserKinds

-----------------------------------------------------------------------------
(* The world: time and the registrar.  Bound: until the last response.     *)

Tick ==
    /\ clock < MaxClock
    /\ \E r \in Requests : req[r].phase # "done"
    /\ \A r \in Requests : Active(r) => clock < req[r].started + RequestTime
    /\ Pass
    /\ UNCHANGED <<writes, req, during>>

RegistrarWrites(u) ==
    /\ writes < MaxWrites
    /\ \E r \in Requests : req[r].phase # "done"
    /\ Disable(u) \/ Delete(u) \/ \E m \in Mappings : Confirm(u, m)
    /\ writes' = writes + 1
    /\ during' = [r \in Requests |->
          IF Active(r) /\ req[r].url = u THEN during[r] \cup {Face(mapping'[u])} ELSE during[r]]
    /\ UNCHANGED req

-----------------------------------------------------------------------------
(* What every request goes through.                                        *)

(* `given' is the redirect_uri parameter, if there is one; `valid' says    *)
(* whether the other parameters pass validate_authorize, or are complete.  *)
Arrive(r, kind, u, given, valid) ==
    /\ req[r].phase = "none"
    /\ kind \in {"refresh", "revoke"} => given = None
    /\ kind = "revoke" => valid
    /\ req' = [req EXCEPT ![r] = [NoRequest EXCEPT
                  !.kind = kind, !.url = u, !.given = given, !.valid = valid,
                  !.phase = "load", !.started = clock, !.spent = spent]]
    /\ during' = [during EXCEPT ![r] = {Face(mapping[u])}]
    /\ UNCHANGED <<clock, registration, writes>>

At(r, phase) ==
    /\ req[r].phase = phase
    /\ UNCHANGED <<clock, registration, writes, during>>

Continue(r, phase, m, uri) ==
    req' = [req EXCEPT ![r] = [@ EXCEPT !.phase = phase, !.row = m, !.uri = uri]]

(* The response, and where it redirects to, if it does.                    *)
Respond(r, outcome, uri) ==
    req' = [req EXCEPT ![r] = [@ EXCEPT !.phase = "done", !.outcome = outcome, !.uri = uri]]

(* Turned down before anything is read: a consent form without its cookie, *)
(* a revocation without a token.                                           *)
Malformed(r) ==
    /\ At(r, "load")
    /\ req[r].kind \in {"approve", "deny", "revoke"}
    /\ Respond(r, "invalid_request", None)

(* No client_id, or none that passes the rules of ClientIdUrl: an error    *)
(* that is never redirected.                                               *)
BadClientId(r) ==
    /\ At(r, "load")
    /\ Respond(r, "invalid_request", None)

(* enabled_mapping: a strongly consistent read.                            *)
InvalidClient(r, phase) ==
    /\ At(r, phase)
    /\ ~Usable(mapping[req[r].url])
    /\ Respond(r, "invalid_client", None)

(* A redirectable error goes to the redirect URI of a browser's request.   *)
Fail(r, outcome) == Respond(r, outcome, req[r].uri)

-----------------------------------------------------------------------------
(* The first read.                                                         *)

Fresh(m) == clock < m.cacheUntil

(* Mutant: the whole list stands for a missing redirect_uri.               *)
Resolved_WholeList(given, uris) == IF given = None THEN uris ELSE IF given \in uris THEN given ELSE None

(* Mutant: a given redirect_uri is not compared with the list.             *)
Resolved_Trusting(given, uris) ==
    IF given = None /\ Cardinality(uris) = 1 THEN CHOOSE x \in uris : TRUE ELSE given

Resolved(given, uris) ==
    IF given = None /\ Cardinality(uris) = 1 THEN CHOOSE x \in uris : TRUE
    ELSE IF given \in uris THEN given ELSE None

(* The loaded row decides at once when it is fresh; else the registrar is  *)
(* asked.                                                                  *)
FreshOrAsk(r, m, uri) ==
    IF Fresh(m) THEN Continue(r, "check", m, uri)
    ELSE req' = [req EXCEPT ![r] = [@ EXCEPT !.phase = "ask", !.row = m, !.uri = uri, !.asked = clock]]

(* validate_authorize: response type, PKCE challenge, resource and scopes. *)
Rejected(r) == ~req[r].valid

LoadBrowser(r) ==
    LET m == mapping[req[r].url]
        uri == Resolved(req[r].given, m.uris)
    IN  /\ At(r, "load")
        /\ Browser(r) /\ Usable(m)
        /\ \/ uri = None /\ Respond(r, "invalid_request", None)
           \/ uri # None /\ Rejected(r) /\ Respond(r, "rejected", uri)
           \/ uri # None /\ ~Rejected(r) /\ FreshOrAsk(r, m, uri)

LoadToken(r) ==
    LET m == mapping[req[r].url]
    IN  /\ At(r, "load")
        /\ req[r].kind \in TokenKinds /\ Usable(m)
        /\ FreshOrAsk(r, m, None)

(* Revocation asks for no freshness.                                       *)
LoadRevoke(r) ==
    LET m == mapping[req[r].url]
    IN  /\ At(r, "load")
        /\ req[r].kind = "revoke" /\ Usable(m)
        /\ Continue(r, "forward", m, None)

-----------------------------------------------------------------------------
(* The registrar's answer.  It says fresh of an enabled client only if it  *)
(* has itself fetched the document after it was asked.                     *)

Answers(m, asked) ==
    {[status |-> s, fresh |-> FALSE, enabled |-> FALSE] : s \in {"not_allowed", "locked", "error"}}
    \cup {[status |-> "ok", fresh |-> f, enabled |-> Usable(m)] :
            f \in {x \in BOOLEAN : x /\ Usable(m) => m.fetchedAt >= asked}}

(* Mutant: any answer without `enabled' counts as a refusal.               *)
Refusal_Unknown(a) == ~a.enabled

Refusal(a) == a.status = "not_allowed" \/ (a.status = "ok" /\ ~a.enabled)

(* Mutant: an answer that is not fresh is good enough.                     *)
Confirmation_Enabled(a) == a.status = "ok" /\ a.enabled

Confirmation(a) == a.status = "ok" /\ a.fresh /\ a.enabled

(* A timeout, a function error or a malformed answer is status error.      *)
Answered(r) ==
    /\ At(r, "ask")
    /\ \E a \in Answers(mapping[req[r].url], req[r].asked) :
          \/ /\ Refusal(a)
             /\ req' = [req EXCEPT ![r] = [@ EXCEPT !.phase = "done", !.uri = None,
                           !.outcome = "invalid_client", !.refused = (a.status = "not_allowed")]]
          \/ ~Refusal(a) /\ ~Confirmation(a) /\ Fail(r, "temporarily_unavailable")
          \/ Confirmation(a) /\ Continue(r, "reload", req[r].row, req[r].uri)

Reload(r) ==
    /\ At(r, "reload")
    /\ Usable(mapping[req[r].url])
    /\ Continue(r, "check", mapping[req[r].url], req[r].uri)

-----------------------------------------------------------------------------
(* What is left to check against the row that will be used.                *)

(* Mutant: the URI is not looked up again after a revalidation.            *)
StillRegistered_Assumed(r) == req[r].uri # None

StillRegistered(r) == req[r].uri \in req[r].row.uris

CheckBrowser(r) ==
    /\ At(r, "check")
    /\ Browser(r)
    /\ \/ ~StillRegistered(r) /\ Respond(r, "invalid_request", None)
       \/ /\ StillRegistered(r)
          /\ IF req[r].kind = "authorize" /\ ShowConsent THEN Respond(r, "page", None)
             ELSE IF req[r].kind = "deny" THEN Fail(r, "access_denied")
             ELSE Continue(r, "forward", req[r].row, req[r].uri)

CheckToken(r) ==
    LET q == req[r]
        complete == q.valid /\ (q.kind = "code" => q.given # None)
        unknownUri == q.kind = "code" /\ q.given \notin q.row.uris
    IN  /\ At(r, "check")
        /\ q.kind \in TokenKinds
        /\ \/ ~complete /\ Respond(r, "invalid_request", None)
           \/ complete /\ unknownUri /\ Respond(r, "invalid_grant", None)
           \/ complete /\ ~unknownUri /\ Continue(r, "forward", q.row, q.given)

(* The browser is sent to Cognito, or the request is relayed there, in the *)
(* name of the client of the row.  A relayed request may go unanswered.    *)
Forward(r) ==
    /\ At(r, "forward")
    /\ \/ Respond(r, "cognito", req[r].uri)
       \/ ~Browser(r) /\ Respond(r, "unreachable", req[r].uri)

(* Lambda ends the request, or a call raises: the answer is server_error,  *)
(* or none.                                                                *)
Die(r) ==
    /\ Active(r)
    /\ At(r, req[r].phase)
    /\ Respond(r, "server_error", None)

Step(r) ==
    \/ Malformed(r) \/ BadClientId(r) \/ InvalidClient(r, "load") \/ LoadBrowser(r) \/ LoadToken(r) \/ LoadRevoke(r)
    \/ Answered(r) \/ InvalidClient(r, "reload") \/ Reload(r)
    \/ CheckBrowser(r) \/ CheckToken(r) \/ Forward(r)

Next ==
    \/ Tick
    \/ \E u \in Urls : RegistrarWrites(u)
    \/ \E r \in Requests, kind \in AllKinds, u \in Urls, given \in Uris \cup {None}, valid \in BOOLEAN :
          Arrive(r, kind, u, given, valid)
    \/ \E r \in Requests : Step(r) \/ Die(r)

Spec == Init /\ [][Next]_vars

-----------------------------------------------------------------------------
TypeOK ==
    /\ clock \in 0 .. MaxClock /\ writes \in 0 .. MaxWrites
    /\ mapping \in [Urls -> Mappings \cup {None}]
    /\ accepted \subseteq ClientIds /\ spent \subseteq ClientIds
    /\ deletedAt \in [Urls -> 0 .. MaxClock]
    /\ req \in [Requests ->
          [kind : AllKinds \cup {None}, url : Urls \cup {None}, given : Uris \cup {None},
           valid : BOOLEAN, phase : {"none", "load", "ask", "reload", "check", "forward", "done"},
           started : 0 .. MaxClock, spent : SUBSET ClientIds, row : Mappings \cup {None},
           uri : Uris \cup {None}, asked : (0 .. MaxClock) \cup {None}, refused : BOOLEAN,
           outcome : Outcomes \cup {None}]]
    /\ during \in [Requests -> SUBSET Faces]

Sent(r) == req[r].outcome \in {"cognito", "unreachable"}

(* What is forwarded names a client and a redirect URI that one and the    *)
(* same row had, enabled, while the request was being served: a request    *)
(* that meets a rotation or a changed document never pairs the old URI     *)
(* with the new client, nor uses the client that has just been given up.   *)
SentTogether ==
    \A r \in Requests : Sent(r) =>
        /\ Usable(req[r].row) /\ Face(req[r].row) \in during[r]
        /\ req[r].kind \in BrowserKinds \cup {"code"} => req[r].uri \in req[r].row.uris

(* Freshness contract: except for a revocation, what is forwarded rests on *)
(* a document that was within its cache lifetime when the request came, or *)
(* was fetched since the registrar was asked about it.                     *)
SentFresh ==
    \A r \in Requests : Sent(r) /\ req[r].kind # "revoke" =>
        \/ req[r].started < req[r].row.cacheUntil
        \/ req[r].asked # None /\ req[r].row.fetchedAt >= req[r].asked

(* invalid_client makes a client forget its registration: it is answered   *)
(* only when the client was not registered, or not enabled, or refused by  *)
(* the allow-list, at some moment of the request.  A registrar that is     *)
(* locked, slow or failing is never a reason.                              *)
InvalidClientMeansGone ==
    \A r \in Requests : req[r].outcome = "invalid_client" =>
        req[r].refused \/ None \in during[r]

(* The browser is sent to a redirect URI, with a code to come or with an   *)
(* error, only if an enabled row listed that URI during the request.       *)
RedirectsOnlyToRegistered ==
    \A r \in Requests : Browser(r) /\ req[r].phase = "done" /\ req[r].uri # None =>
        \E f \in during[r] : f # None /\ req[r].uri \in f.uris

(* Nothing that begins after a client was given up, by a rotation or by a  *)
(* deletion, is forwarded in its name: its refresh tokens are dead.        *)
OldClientsDie ==
    \A r \in Requests : Sent(r) => req[r].row.id \notin req[r].spent
=============================================================================
