---------------------------- MODULE GuardedFetch ----------------------------
(***************************************************************************)
(* fetch_document: one fetch of an accepted URL.  Name resolution and the  *)
(* HTTP exchange each run on a thread of their own, because nothing bounds *)
(* the calls in which they block; the main thread waits for them until the *)
(* budget is used up and then leaves them behind.  The abandoned exchange  *)
(* goes on until someone closes its socket.  The peer may answer, stall,   *)
(* or drip one byte at a time for as long as it likes, at every point.     *)
(*                                                                         *)
(* There can be two connections: the one the exchange opens, and the one   *)
(* http.client opens by itself when it is told to send a request after     *)
(* another thread has closed its HTTPConnection.                           *)
(***************************************************************************)
EXTENDS ClientIdUrl

CONSTANTS
    FetchedEntry,   \* the accepted entry that is fetched: one stands for all
    Addresses,      \* what its host name may resolve to
    Public,         \* the globally routable unicast ones among them
    Budget,         \* fetchDeadlineSeconds
    MaxBytes        \* max_bytes

ASSUME FetchAssumption ==
    /\ Budget \in Nat \ {0} /\ MaxBytes \in Nat \ {0}
    /\ Public \subseteq Addresses

VARIABLES
    time,       \* since the fetch began
    main,       \* where the main thread is in fetch_document
    joinBy,     \* how long it waits for the thread it has started
    conditional,\* is If-None-Match sent?
    resolver,   \* the thread in getaddrinfo
    answer,     \* the addresses it found
    outcome,    \* what fetch_document returned or raised
    worker,     \* the thread in exchange()
    box,        \* what that thread has left in its box
    pinned,     \* the address connected to
    using,      \* the connection the worker is busy with: 0 none, 1, 2
    sent,       \* the connections a request was sent on
    size,       \* the length of the body the peer has for us
    got,        \* how much of it has been read
    socket,     \* socket[k]: connection k
    connSock,   \* conn.sock: 0 or the connection
    adopted,    \* TransportHandle._sock: 0 or the connection
    cancelled,  \* TransportHandle._cancelled
    closer      \* the thread that calls conn.close()

threads == <<joinBy, conditional, resolver, answer>>
transfer == <<pinned, using, sent, size, got>>
exchange == <<worker, box, transfer>>
transport == <<socket, connSock, adopted, cancelled>>
url == <<entry, gate>>
vars == <<url, time, main, outcome, threads, exchange, transport, closer>>

Connections == {1, 2}

(* The sockets after those in K have been shut.                            *)
Shut(K) == [k \in Connections |-> IF k \in K /\ socket[k] = "open" THEN "shut" ELSE socket[k]]

FetchInit ==
    /\ UrlInit
    /\ time = 0 /\ main = "idle" /\ outcome = "none"
    /\ joinBy = 0 /\ conditional = FALSE /\ resolver = "idle" /\ answer = {}
    /\ worker = "idle" /\ box = "empty"
    /\ pinned = "none" /\ using = 0 /\ sent = {} /\ size = 0 /\ got = 0
    /\ socket = [k \in Connections |-> "none"]
    /\ connSock = 0 /\ adopted = 0 /\ cancelled = FALSE
    /\ closer = "idle"

-----------------------------------------------------------------------------
(* Time.                                                                   *)

(* Mutant: the second wait is given the whole budget again.                *)
Remaining_Whole == Budget

(* remaining(): what is left of the budget; with nothing left it raises.   *)
Remaining == IF time < Budget THEN Budget - time ELSE 0

(* join() has nothing to return yet.                                       *)
Waiting ==
    /\ time < joinBy
    /\ \/ main = "resolving" /\ resolver = "running"
       \/ main = "exchanging" /\ worker # "ended"

(* Time passes while the main thread waits; its own steps take none.       *)
Tick ==
    /\ Waiting
    /\ time' = time + 1
    /\ UNCHANGED <<url, main, outcome, threads, exchange, transport, closer>>

-----------------------------------------------------------------------------
(* The main thread.                                                        *)

Ends(result) ==
    /\ main' = "over" /\ outcome' = result
    /\ UNCHANGED <<url, time, threads, exchange, closer>>

Start ==
    /\ main = "idle"
    /\ gate = "accepted" /\ entry = FetchedEntry
    /\ main' = "resolving" /\ joinBy' = time + Remaining
    /\ resolver' = "running"
    /\ conditional' \in BOOLEAN
    /\ UNCHANGED <<url, time, outcome, answer, exchange, transport, closer>>

(* call_with_deadline around the resolver: given up, or raised again as it *)
(* is, which need not be a FetchError.                                     *)
NotResolved ==
    /\ main = "resolving"
    /\ \/ resolver = "running" /\ time >= joinBy /\ Ends("FetchError")
       \/ resolver = "failed" /\ Ends("OtherError")
    /\ UNCHANGED transport

(* check_addresses                                                         *)
Routable(found) == found # {} /\ found \subseteq Public

Refuse ==
    /\ main = "resolving" /\ resolver = "ended"
    /\ ~Routable(answer) \/ Remaining = 0
    /\ Ends("FetchError")
    /\ UNCHANGED transport

(* The connection is pinned to one of the addresses.                       *)
Exchange ==
    /\ main = "resolving" /\ resolver = "ended"
    /\ Routable(answer) /\ Remaining > 0
    /\ main' = "exchanging" /\ joinBy' = time + Remaining
    /\ worker' = "connecting" /\ using' = 1
    /\ pinned' \in answer
    /\ UNCHANGED <<url, time, outcome, conditional, resolver, answer, box, sent, size, got, transport, closer>>

(* The worker has returned.  Nothing compares the length of a body with    *)
(* what was announced; but a document is an object, and one that was cut   *)
(* short lacks its closing brace.  A whole body need not be a document.    *)
Succeed ==
    /\ main = "exchanging" /\ worker = "ended"
    /\ \/ box = "notModified" /\ Ends("notModified")
       \/ box = "body" /\ got = size /\ Ends("document")
       \/ box = "body" /\ Ends("FetchError")
    /\ socket' = Shut(Connections) /\ connSock' = 0
    /\ UNCHANGED <<adopted, cancelled>>

Fail ==
    /\ main = "exchanging"
    /\ \/ worker = "ended" /\ box \in {"FetchError", "OtherError"} /\ outcome' = box
       \/ worker # "ended" /\ time >= joinBy /\ outcome' = "FetchError"
    /\ main' = "releasing"
    /\ UNCHANGED <<url, time, threads, exchange, transport, closer>>

-----------------------------------------------------------------------------
(* release_connection, on the main thread and on the closer.               *)

Releases(next) == main' = next /\ UNCHANGED <<url, time, outcome, threads, exchange, adopted>>

(* cancel(): the mark and the reading of the socket are one step, under    *)
(* the handle's lock.                                                      *)
Cancel ==
    /\ main = "releasing"
    /\ cancelled' = TRUE
    /\ Releases(IF adopted = 0 THEN "closingConn" ELSE "closingAdopted")
    /\ UNCHANGED <<socket, connSock, closer>>

(* Mutant: only conn.sock is closed.                                       *)
CloseAdopted_Not ==
    /\ main = "closingAdopted"
    /\ Releases("closingConn")
    /\ UNCHANGED <<cancelled, socket, connSock, closer>>

CloseAdopted ==
    /\ main = "closingAdopted"
    /\ socket' = Shut({adopted})
    /\ Releases("closingConn")
    /\ UNCHANGED <<cancelled, connSock, closer>>

CloseConn ==
    /\ main = "closingConn"
    /\ socket' = Shut({connSock})
    /\ closer' = "closing"
    /\ Releases("over")
    /\ UNCHANGED <<cancelled, connSock>>

(* conn.close(): the connection is without a socket again.                 *)
Closer ==
    /\ closer = "closing"
    /\ closer' = "ended"
    /\ socket' = Shut({connSock}) /\ connSock' = 0
    /\ UNCHANGED <<url, time, main, outcome, threads, exchange, adopted, cancelled>>

-----------------------------------------------------------------------------
(* The resolver's thread.                                                  *)

Resolve ==
    /\ resolver = "running"
    /\ \/ resolver' = "ended" /\ answer' \in SUBSET Addresses
       \/ resolver' = "failed" /\ UNCHANGED answer
    /\ UNCHANGED <<url, time, main, outcome, joinBy, conditional, exchange, transport, closer>>

-----------------------------------------------------------------------------
(* exchange(), on the worker's thread.                                     *)

Worker == UNCHANGED <<url, time, main, outcome, threads, cancelled, closer>>
Leaves(value) == worker' = "ended" /\ box' = value
Established == worker \in {"connecting", "reconnecting"}
Usable(k) == socket[k] = "open"

(* Connect and TLS handshake; conn.sock is only set once both are done.    *)
Connected ==
    /\ Established
    /\ worker' = IF worker = "connecting" THEN "adopting" ELSE "sending"
    /\ socket' = [socket EXCEPT ![using] = "open"]
    /\ connSock' = using
    /\ UNCHANGED <<box, transfer, adopted>>
    /\ Worker

(* Refused, timed out, or no valid certificate.                            *)
NotConnected ==
    /\ Established
    /\ Leaves("FetchError")
    /\ UNCHANGED <<transfer, socket, connSock, adopted>>
    /\ Worker

(* Mutant: the socket is registered, but nobody asks whether it is still   *)
(* wanted.                                                                 *)
Adopt_Unasked ==
    /\ worker = "adopting"
    /\ adopted' = connSock
    /\ worker' = "sending"
    /\ UNCHANGED <<box, transfer, socket, connSock>>
    /\ Worker

(* adopt(): an abandoned exchange closes its own socket.                   *)
Adopt ==
    /\ worker = "adopting"
    /\ adopted' = connSock
    /\ IF cancelled
         THEN socket' = Shut({connSock}) /\ Leaves("FetchError")
         ELSE worker' = "sending" /\ UNCHANGED <<socket, box>>
    /\ UNCHANGED <<transfer, connSock>>
    /\ Worker

(* conn.request(): without a socket http.client opens a new one.           *)
Request ==
    /\ worker = "sending"
    /\ \/ connSock = 0
          /\ worker' = "reconnecting" /\ using' = 2
          /\ UNCHANGED <<box, sent>>
       \/ connSock # 0 /\ Usable(using)
          /\ worker' = "headers" /\ sent' = sent \cup {using}
          /\ UNCHANGED <<box, using>>
       \/ connSock # 0 /\ ~Usable(using)
          /\ Leaves("FetchError")
          /\ UNCHANGED <<sent, using>>
    /\ UNCHANGED <<pinned, size, got, socket, connSock, adopted>>
    /\ Worker

(* getresponse() returns; a response that closes its connection has taken  *)
(* the socket over.  A 304 counts only if it was asked for.                *)
Response ==
    /\ worker = "headers" /\ Usable(using)
    /\ \/ Remaining = 0 /\ Leaves("FetchError") /\ UNCHANGED size
       \/ Remaining > 0 /\ conditional /\ Leaves("notModified") /\ UNCHANGED size
       \/ Remaining > 0 /\ Leaves("FetchError") /\ UNCHANGED size
       \/ Remaining > 0 /\ worker' = "body" /\ size' \in 0 .. MaxBytes + 2 /\ UNCHANGED box
    /\ connSock' \in {0, connSock}
    /\ UNCHANGED <<pinned, using, sent, got, socket, adopted>>
    /\ Worker

(* Mutant: a longer body is cut off where it gets too long.                *)
TooLong_Never(n) == FALSE

TooLong(n) == n > MaxBytes

(* Mutant: each round asks for a whole buffer.                             *)
Wanted_Buffer == MaxBytes + 1

(* The most that read1 is asked for.                                       *)
Wanted == MaxBytes + 1 - got

(* A round of the loop that reads the body.                                *)
Chunk ==
    /\ worker = "body" /\ Usable(using) /\ Remaining > 0
    /\ \E n \in 1 .. Wanted :
          /\ got + n <= size
          /\ got' = got + n
          /\ IF TooLong(got + n)
               THEN Leaves("FetchError")
               ELSE UNCHANGED <<worker, box>>
    /\ UNCHANGED <<pinned, using, sent, size, socket, connSock, adopted>>
    /\ Worker

(* read1 has nothing more: the body is over, or the peer has closed.       *)
BodyEnds ==
    /\ worker = "body" /\ Usable(using)
    /\ Leaves(IF Remaining = 0 THEN "FetchError" ELSE "body")
    /\ UNCHANGED <<transfer, socket, connSock, adopted>>
    /\ Worker

(* The peer resets the connection, says nothing for longer than the socket *)
(* waits, or sends something that is not HTTP.                             *)
Broken ==
    /\ worker \in {"headers", "body"} /\ Usable(using)
    /\ Leaves("FetchError") \/ Leaves("OtherError")
    /\ UNCHANGED <<transfer, socket, connSock, adopted>>
    /\ Worker

(* Shutting its socket wakes a worker blocked in a receive.                *)
WokenUp ==
    /\ worker \in {"headers", "body"} /\ ~Usable(using)
    /\ Leaves("FetchError")
    /\ UNCHANGED <<transfer, socket, connSock, adopted>>
    /\ Worker

-----------------------------------------------------------------------------
CheckUrl == UrlNext /\ UNCHANGED <<time, main, outcome, threads, exchange, transport, closer>>

MainNext ==
    \/ Start \/ NotResolved \/ Refuse \/ Exchange \/ Succeed \/ Fail
    \/ Cancel \/ CloseAdopted \/ CloseConn

OwnSteps == Connected \/ NotConnected \/ Adopt \/ Request \/ WokenUp
PeerNext == Response \/ Chunk \/ BodyEnds \/ Broken

Next == CheckUrl \/ Tick \/ MainNext \/ Closer \/ Resolve \/ OwnSteps \/ PeerNext

(* Threads run, time passes, and connecting and the handshake have a       *)
(* timeout.  Nothing is asked of the resolver or of the peer.              *)
Fairness ==
    /\ WF_vars(Tick) /\ WF_vars(MainNext) /\ WF_vars(Closer) /\ WF_vars(OwnSteps)

Spec == FetchInit /\ [][Next]_vars /\ Fairness

-----------------------------------------------------------------------------
(* Where the threads can be, and what they keep.                           *)
TypeOK ==
    /\ main \in {"idle", "resolving", "exchanging", "releasing", "closingAdopted", "closingConn", "over"}
    /\ resolver \in {"idle", "running", "ended", "failed"}
    /\ answer \subseteq Addresses
    /\ worker \in {"idle", "connecting", "reconnecting", "adopting", "sending", "headers", "body", "ended"}
    /\ box \in {"empty", "body", "notModified", "FetchError", "OtherError"}
    /\ box # "empty" <=> worker = "ended"
    /\ using \in {0} \cup Connections
    /\ using = 0 <=> worker = "idle"
    /\ socket \in [Connections -> {"none", "open", "shut"}]
    /\ {connSock, adopted} \subseteq {0} \cup Connections
    /\ got <= size /\ got <= MaxBytes + 1

(* The budget is enforced, not observed afterwards: however long the       *)
(* resolver or the peer hold out, fetch_document is back when it is used   *)
(* up, two waits, the cleanup and a worker left behind included.           *)
CallerReturns == main = "resolving" ~> main = "over" /\ time <= Budget

(* "The worker always learns it was abandoned before it can send           *)
(* anything": no request leaves after fetch_document has failed, but for   *)
(* one sent over a connection that http.client has opened by itself.       *)
LateRequestsReconnect ==
    [][\A k \in sent' \ sent : main = "over" => k = 2]_vars

(* "An abandoned exchange worker holds a descriptor and must not survive   *)
(* cleanup": it ends and its socket is closed, unless it has reconnected.  *)
AbandonedEnds ==
    main = "over" ~> (worker \in {"idle", "ended"} /\ socket[1] # "open") \/ using = 2

(* The part of this that is there at once: when fetch_document returns or  *)
(* raises, and from then on, no connection that the handle answers for is  *)
(* open, but for one whose adopt() is still to come and will shut it.      *)
CleanedUp == main = "over" => socket[1] # "open" \/ worker = "adopting"

(* What is accepted was read to its end, within the limits of size and     *)
(* time, from a public address; and a 304 was asked for.                   *)
AcceptedIsWhole ==
    /\ outcome = "document" => got = size /\ got <= MaxBytes /\ pinned \in Public
    /\ outcome = "notModified" => conditional /\ sent # {}
    /\ outcome \in {"document", "notModified"} => time <= Budget
=============================================================================
