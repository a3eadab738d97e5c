------------------------- MODULE GuardedFetch_proofs -------------------------
(* Theorems about one guarded fetch, for any budget, any limit of size and *)
(* any addresses, whatever the resolver and the peer do and in whatever    *)
(* order the four threads take their steps.                                *)
EXTENDS GuardedFetch, WellFoundedInduction, TLAPS

(* Time, and the lengths read and to be read.                              *)
Numbers ==
    /\ time \in 0 .. Budget /\ joinBy \in 0 .. Budget
    /\ got \in Nat /\ size \in Nat

(* Where the threads are together: the exchange has a thread of its own    *)
(* from the time the addresses are checked, and nothing is decided while   *)
(* the main thread still waits.                                            *)
Together ==
    /\ main \in {"idle", "resolving"} => worker = "idle"
    /\ main \in {"idle", "resolving", "exchanging"} => outcome = "none"
    /\ main \in {"releasing", "closingAdopted", "closingConn"} => outcome \in {"FetchError", "OtherError"}
    /\ outcome \in {"document", "notModified"} => worker = "ended"

(* What the worker has read so far.                                        *)
Reading ==
    /\ worker # "idle" => pinned \in Public
    /\ worker \notin {"body", "ended"} => got = 0
    /\ worker = "body" \/ box = "body" => got <= MaxBytes
    /\ worker \in {"headers", "body"} => sent # {}
    /\ box = "notModified" => conditional /\ sent # {}

(* What the handle knows of connection 1.                                  *)
Handled ==
    /\ worker \in {"connecting", "adopting"} => using = 1
    /\ worker = "reconnecting" => using = 2
    /\ worker = "adopting" => connSock = 1 \/ cancelled
    /\ worker = "sending" /\ using = 1 => adopted = 1
    /\ closer # "idle" => cancelled
    /\ main \in {"closingAdopted", "closingConn"} => cancelled
    /\ main = "over" => cancelled \/ worker \in {"idle", "ended"}

(* The gap of the handle: after the mark was set, connection 1 is shut     *)
(* before the main thread goes on to conn.sock.                            *)
Closed ==
    cancelled /\ worker = "sending" /\ using = 1
        => main = "closingAdopted" \/ socket[1] # "open"

(* A document or a 304 that was decided on stays as it was read.           *)
Accepted ==
    /\ outcome = "document" => got = size /\ got <= MaxBytes
    /\ outcome = "notModified" => box = "notModified"

FetchInv == TypeOK /\ Numbers /\ Together /\ Reading /\ Handled /\ Closed /\ Accepted

-----------------------------------------------------------------------------
LEMMA FetchInvInit == FetchInit => FetchInv
  BY FetchAssumption
     DEF FetchInit, FetchInv, TypeOK, Numbers, Together, Reading, Handled, Closed, Accepted, Connections

(* Where a wait ends.                                                      *)
LEMMA RemainingFits ==
    ASSUME Numbers
    PROVE  Remaining \in Nat /\ time + Remaining \in 0 .. Budget
  BY FetchAssumption DEF Numbers, Remaining

LEMMA ShutKeepsType ==
    ASSUME TypeOK, NEW K
    PROVE  /\ Shut(K) \in [Connections -> {"none", "open", "shut"}]
           /\ \A k \in Connections : Shut(K)[k] = "open" => socket[k] = "open" /\ k \notin K
  BY DEF TypeOK, Shut

-----------------------------------------------------------------------------
(* The steps of the world and of the threads beside the exchange.          *)

LEMMA WaitingStep ==
    ASSUME FetchInv, Tick \/ Resolve \/ CheckUrl \/ UNCHANGED vars
    PROVE  FetchInv'
<1> USE FetchAssumption DEF FetchInv, TypeOK, Numbers, Together, Reading, Handled, Closed, Accepted
<1>1. CASE Tick
  BY <1>1 DEF Tick, Waiting, threads, exchange, transfer, transport
<1>2. CASE Resolve
  BY <1>2 DEF Resolve, exchange, transfer, transport
<1>3. CASE CheckUrl
  BY <1>3 DEF CheckUrl, threads, exchange, transfer, transport
<1>4. CASE UNCHANGED vars
  BY <1>4 DEF vars, threads, exchange, transfer, transport
<1> QED
  BY <1>1, <1>2, <1>3, <1>4

LEMMA MainStep ==
    ASSUME FetchInv, MainNext
    PROVE  FetchInv'
<1> USE FetchAssumption DEF FetchInv, TypeOK, Numbers, Together, Reading, Handled, Closed, Accepted
<1>1. CASE Start
  BY <1>1, RemainingFits DEF Start, exchange, transfer, transport
<1>2. CASE NotResolved
  BY <1>2 DEF NotResolved, Ends, threads, exchange, transfer, transport
<1>3. CASE Refuse
  BY <1>3 DEF Refuse, Ends, threads, exchange, transfer, transport
<1>4. CASE Exchange
  BY <1>4, RemainingFits DEF Exchange, Routable, transport, Connections
<1>5. CASE Succeed
  BY <1>5, ShutKeepsType DEF Succeed, Ends, threads, exchange, transfer
<1>6. CASE Fail
  BY <1>6 DEF Fail, threads, exchange, transfer, transport
<1>7. CASE Cancel
  BY <1>7 DEF Cancel, Releases, threads, exchange, transfer
<1>8. CASE CloseAdopted
  BY <1>8, ShutKeepsType DEF CloseAdopted, Releases, threads, exchange, transfer, Connections
<1>9. CASE CloseConn
  BY <1>9, ShutKeepsType DEF CloseConn, Releases, threads, exchange, transfer, Connections
<1> QED
  BY <1>1, <1>2, <1>3, <1>4, <1>5, <1>6, <1>7, <1>8, <1>9 DEF MainNext

LEMMA CloserStep ==
    ASSUME FetchInv, Closer
    PROVE  FetchInv'
  BY ShutKeepsType
     DEF Closer, threads, exchange, transfer, Connections,
         FetchInv, TypeOK, Numbers, Together, Reading, Handled, Closed, Accepted

-----------------------------------------------------------------------------
(* The steps of the exchange, the worker's own and the peer's.             *)

LEMMA OwnStep ==
    ASSUME FetchInv, OwnSteps
    PROVE  FetchInv'
<1> USE FetchAssumption DEF FetchInv, TypeOK, Numbers, Together, Reading, Handled, Closed, Accepted
<1>1. CASE Connected
  BY <1>1 DEF Connected, Established, Worker, threads, transfer, Connections
<1>2. CASE NotConnected
  BY <1>2 DEF NotConnected, Established, Leaves, Worker, threads, transfer
<1>3. CASE Adopt
  BY <1>3, ShutKeepsType DEF Adopt, Leaves, Worker, threads, transfer, Connections
<1>4. CASE Request
  BY <1>4 DEF Request, Leaves, Worker, Usable, threads, Connections
<1>5. CASE WokenUp
  BY <1>5 DEF WokenUp, Leaves, Worker, threads, transfer
<1> QED
  BY <1>1, <1>2, <1>3, <1>4, <1>5 DEF OwnSteps

LEMMA PeerStep ==
    ASSUME FetchInv, PeerNext
    PROVE  FetchInv'
<1> USE FetchAssumption DEF FetchInv, TypeOK, Numbers, Together, Reading, Handled, Closed, Accepted
<1>1. CASE Response
  BY <1>1 DEF Response, Leaves, Worker, threads
<1>2. CASE Chunk
  BY <1>2 DEF Chunk, Wanted, TooLong, Leaves, Worker, threads
<1>3. CASE BodyEnds
  BY <1>3 DEF BodyEnds, Leaves, Worker, threads, transfer
<1>4. CASE Broken
  BY <1>4 DEF Broken, Leaves, Worker, threads, transfer
<1> QED
  BY <1>1, <1>2, <1>3, <1>4 DEF PeerNext

LEMMA FetchInvariant == Spec => []FetchInv
<1>1. FetchInv /\ [Next]_vars => FetchInv'
  BY WaitingStep, MainStep, CloserStep, OwnStep, PeerStep DEF Next
<1> QED
  BY <1>1, FetchInvInit, PTL DEF Spec

-----------------------------------------------------------------------------
(* The URL rules.                                                          *)

(* unquote is the more lenient one, of texts the rules refuse anyway.      *)
LEMMA SidesDecodeAlike ==
    ASSUME NEW text, Clean(text)
    PROVE  Decodes("synth", text) <=> Decodes("runtime", text)
  BY DEF Clean, Decodes, SynthDecodes, RuntimeDecodes

LEMMA SidesAcceptAlike ==
    ASSUME NEW segment
    PROVE  SegmentAccepted("synth", segment) <=> SegmentAccepted("runtime", segment)
  BY SidesDecodeAlike, Zenon DEF SegmentAccepted

(* Whatever is on the allow-list, the two implementations decide alike,    *)
(* but for a host only one of the parsers refuses.                         *)
THEOREM FetchGatesAgree == Spec => []GatesAgree
<1> DEFINE Listed == gate = "synth" => entry \in Entries
<1>1. FetchInit => Listed
  BY DEF FetchInit, UrlInit
<1>2. Listed /\ [Next]_vars => Listed'
  BY DEF Next, CheckUrl, UrlNext, Synth, Check, Decode, Tick, MainNext, Start, NotResolved,
         Refuse, Exchange, Succeed, Fail, Cancel, CloseAdopted, CloseConn, Ends, Releases,
         Closer, Resolve, OwnSteps, PeerNext, Worker, Connected, NotConnected, Adopt, Request,
         WokenUp, Response, Chunk, BodyEnds, Broken, url, vars
<1>3. entry \in Entries => entry.userinfo \in {"none", "empty", "some"}
  BY UrlAssumption DEF Urls
<1>4. Listed => GatesAgree
  BY <1>3, SidesAcceptAlike
     DEF GatesAgree, SynthAccepts, RuntimeAccepts, TextAllowed, NothingBehindPath
<1> QED
  BY <1>1, <1>2, <1>4, PTL DEF Spec

-----------------------------------------------------------------------------
(* Decoding a text.                                                        *)

(* What can stand in a place of a text.                                    *)
Marks == HexDigits \cup {"%", ".", "/", "x", "bad", Nothing}

LEMMA CharacterFacts ==
    ASSUME NEW high, NEW low
    PROVE  Character(high, low) \in Marks \ {Nothing}
  BY DEF Character, Marks, HexDigits, Nothing

(* A place has one character next behind it, and that has one next before. *)
LEMMA FollowsUnique ==
    ASSUME NEW n \in Nat, NEW text \in [1 .. n -> Marks],
           NEW k \in 1 .. n, NEW i \in 1 .. n, NEW j \in 1 .. n, Follows(text, k, i)
    PROVE  /\ Behind(text, k) = i
           /\ Follows(text, k, j) => i = j
           /\ Follows(text, j, i) /\ text[j] # Nothing /\ text[k] # Nothing => k = j
<1>1. ASSUME NEW m \in 1 .. n, Follows(text, k, m) PROVE i = m
  <2>1. ~(i < m) /\ ~(m < i)
    BY <1>1 DEF Follows
  <2> QED  BY <2>1
<1>2. Behind(text, k) \in 1 .. n /\ Follows(text, k, Behind(text, k))
  BY DEF Behind
<1>3. ASSUME Follows(text, j, i), text[j] # Nothing, text[k] # Nothing PROVE k = j
  <2>1. ~(k < j) /\ ~(j < k)
    BY <1>3 DEF Follows
  <2> QED  BY <2>1
<1> QED  BY <1>1, <1>2, <1>3

(* The two digits of an escape, and where they are.                        *)
LEMMA EscapeFacts ==
    ASSUME NEW n \in Nat, NEW text \in [1 .. n -> Marks], NEW k \in Escapes(text)
    PROVE  \E i, j \in 1 .. n :
              /\ k \in 1 .. n /\ text[k] = "%"
              /\ text[i] \in HexDigits /\ text[j] \in HexDigits
              /\ Follows(text, k, i) /\ Follows(text, i, j)
              /\ i = Behind(text, k) /\ j = Behind(text, i)
              /\ Meaning(text, k) = Character(text[i], text[j])
<1>1. PICK i \in 1 .. n, j \in 1 .. n :
              /\ k \in 1 .. n /\ text[k] = "%"
              /\ text[i] \in HexDigits /\ text[j] \in HexDigits
              /\ Follows(text, k, i) /\ Follows(text, i, j)
  BY DEF Escapes
<1>2. i = Behind(text, k) /\ j = Behind(text, i)
  BY <1>1, FollowsUnique
<1> QED  BY <1>1, <1>2 DEF Meaning

(* The places of the digits of the escapes at the places `at'.             *)
DigitPlaces(text, at) == {Behind(text, k) : k \in at} \cup {Behind(text, Behind(text, k)) : k \in at}

(* What stands where in a decoded text.                                    *)
LEMMA DecodedFacts ==
    ASSUME NEW n \in Nat, NEW text \in [1 .. n -> Marks], NEW at \in SUBSET Escapes(text)
    PROVE  /\ Decoded(text, at) \in [1 .. n -> Marks]
           /\ \A p \in at : p \in 1 .. n /\ Decoded(text, at)[p] = Meaning(text, p)
           /\ \A p \in DigitPlaces(text, at) :
                 p \in 1 .. n /\ Decoded(text, at)[p] = Nothing /\ text[p] \in HexDigits
           /\ \A p \in (1 .. n) \ (at \cup DigitPlaces(text, at)) : Decoded(text, at)[p] = text[p]
<1>1. \A p \in at : p \in 1 .. n /\ text[p] = "%" /\ Meaning(text, p) \in Marks
  BY EscapeFacts, CharacterFacts
<1>2. \A p \in DigitPlaces(text, at) : p \in 1 .. n /\ text[p] \in HexDigits
  BY EscapeFacts DEF DigitPlaces
<1>3. Decoded(text, at) = [p \in 1 .. n |-> IF p \in at THEN Meaning(text, p)
                                            ELSE IF p \in DigitPlaces(text, at) THEN Nothing ELSE text[p]]
  BY DEF Decoded, DigitPlaces
<1>4. at \cap DigitPlaces(text, at) = {}
  BY <1>1, <1>2 DEF HexDigits
<1>5. Nothing \in Marks
  BY DEF Marks
<1> QED  BY <1>1, <1>2, <1>3, <1>4, <1>5

(* The escapes of a text do not touch each other: decoding some leaves the *)
(* others as they are.                                                     *)
LEMMA EscapesApart ==
    ASSUME NEW n \in Nat, NEW text \in [1 .. n -> Marks],
           NEW A \in SUBSET Escapes(text), NEW k \in Escapes(text) \ A
    PROVE  LET after == Decoded(text, A)
           IN  /\ k \in Escapes(after) /\ Meaning(after, k) = Meaning(text, k)
               /\ Behind(after, k) = Behind(text, k)
               /\ Behind(after, Behind(text, k)) = Behind(text, Behind(text, k))
<1> DEFINE after == Decoded(text, A)
<1>1. PICK i \in 1 .. n, j \in 1 .. n :
              /\ k \in 1 .. n /\ text[k] = "%"
              /\ text[i] \in HexDigits /\ text[j] \in HexDigits
              /\ Follows(text, k, i) /\ Follows(text, i, j)
              /\ i = Behind(text, k) /\ j = Behind(text, i)
              /\ Meaning(text, k) = Character(text[i], text[j])
  BY EscapeFacts
<1>2. after \in [1 .. n -> Marks]
  BY DecodedFacts
<1>3. "%" \notin HexDigits /\ Nothing \notin HexDigits /\ Nothing # "%"
  BY DEF HexDigits, Nothing
<1>4. k \notin A \cup DigitPlaces(text, A)
  BY <1>1, <1>3, DecodedFacts
<1>5. i \notin A /\ j \notin A
  BY <1>1, <1>3, EscapeFacts
<1>6. ASSUME NEW q \in A
      PROVE  /\ Behind(text, q) \notin {i, j}
             /\ Behind(text, Behind(text, q)) \notin {i, j}
  <2>1. PICK a \in 1 .. n, b \in 1 .. n :
                /\ q \in 1 .. n /\ text[q] = "%"
                /\ text[a] \in HexDigits /\ text[b] \in HexDigits
                /\ Follows(text, q, a) /\ Follows(text, a, b)
                /\ a = Behind(text, q) /\ b = Behind(text, a)
    BY <1>6, EscapeFacts
  <2>2. q # k
    BY <1>6
  <2>3. a # i
    BY <1>1, <1>3, <2>1, <2>2, FollowsUnique
  <2>4. a # j
    BY <1>1, <1>3, <2>1, FollowsUnique
  <2>5. b # i
    BY <1>1, <1>3, <2>1, FollowsUnique
  <2>6. b # j
    BY <1>1, <1>3, <2>1, <2>3, FollowsUnique
  <2> QED  BY <2>1, <2>3, <2>4, <2>5, <2>6
<1>7. i \notin DigitPlaces(text, A) /\ j \notin DigitPlaces(text, A)
  BY <1>6 DEF DigitPlaces
<1>8. after[k] = "%" /\ after[i] = text[i] /\ after[j] = text[j]
  BY <1>1, <1>4, <1>5, <1>7, DecodedFacts
<1>9. \A m \in 1 .. n : text[m] = Nothing => after[m] = Nothing
  <2> SUFFICES ASSUME NEW m \in 1 .. n, text[m] = Nothing PROVE after[m] = Nothing
    OBVIOUS
  <2>1. m \notin A
    BY <1>3, EscapeFacts
  <2> QED  BY <2>1, DecodedFacts
<1>10. Follows(after, k, i) /\ Follows(after, i, j)
  BY <1>1, <1>3, <1>8, <1>9 DEF Follows
<1>11. Behind(after, k) = i /\ Behind(after, i) = j
  BY <1>2, <1>10, <1>1, FollowsUnique
<1>12. k \in Escapes(after)
  BY <1>1, <1>2, <1>8, <1>10 DEF Escapes
<1>13. Meaning(after, k) = Character(after[i], after[j])
  BY <1>11 DEF Meaning
<1> QED  BY <1>1, <1>8, <1>11, <1>12, <1>13

(* First some and then others are the same as all of them at once.         *)
LEMMA DecodedTogether ==
    ASSUME NEW n \in Nat, NEW text \in [1 .. n -> Marks],
           NEW A \in SUBSET Escapes(text), NEW B \in SUBSET Escapes(text), A \cap B = {}
    PROVE  /\ B \in SUBSET Escapes(Decoded(text, A))
           /\ Decoded(Decoded(text, A), B) = Decoded(text, A \cup B)
<1> DEFINE after == Decoded(text, A)
<1>1. \A k \in B : /\ k \in Escapes(after) /\ Meaning(after, k) = Meaning(text, k)
                   /\ Behind(after, k) = Behind(text, k)
                   /\ Behind(after, Behind(text, k)) = Behind(text, Behind(text, k))
  BY EscapesApart
<1>2. after \in [1 .. n -> Marks]
  BY DecodedFacts
<1>3. DigitPlaces(after, B) = DigitPlaces(text, B)
  BY <1>1 DEF DigitPlaces
<1>4. DigitPlaces(text, A \cup B) = DigitPlaces(text, A) \cup DigitPlaces(text, B)
  BY DEF DigitPlaces
<1>5. B \in SUBSET Escapes(after)
  BY <1>1
<1> HIDE DEF after
<1>6. LET twice == Decoded(after, B)
      IN  /\ twice \in [1 .. n -> Marks]
          /\ \A p \in B : twice[p] = Meaning(text, p)
          /\ \A p \in DigitPlaces(text, B) : twice[p] = Nothing
          /\ \A p \in (1 .. n) \ (B \cup DigitPlaces(text, B)) : twice[p] = after[p]
  BY <1>1, <1>2, <1>3, <1>5, DecodedFacts
<1>7. LET once == Decoded(text, A \cup B)
      IN  /\ once \in [1 .. n -> Marks]
          /\ \A p \in A \cup B : once[p] = Meaning(text, p)
          /\ \A p \in DigitPlaces(text, A) \cup DigitPlaces(text, B) : once[p] = Nothing
          /\ \A p \in (1 .. n) \ (A \cup B \cup DigitPlaces(text, A) \cup DigitPlaces(text, B)) :
                once[p] = text[p]
  <2> DEFINE both == A \cup B
  <2>1. both \in SUBSET Escapes(text)
    OBVIOUS
  <2> HIDE DEF both
  <2>2. /\ Decoded(text, both) \in [1 .. n -> Marks]
        /\ \A p \in both : Decoded(text, both)[p] = Meaning(text, p)
        /\ \A p \in DigitPlaces(text, both) : Decoded(text, both)[p] = Nothing
        /\ \A p \in (1 .. n) \ (both \cup DigitPlaces(text, both)) : Decoded(text, both)[p] = text[p]
    BY <2>1, DecodedFacts
  <2> QED  BY <1>4, <2>2 DEF both
<1>8. /\ \A p \in A : after[p] = Meaning(text, p)
      /\ \A p \in DigitPlaces(text, A) : after[p] = Nothing
      /\ \A p \in (1 .. n) \ (A \cup DigitPlaces(text, A)) : after[p] = text[p]
  BY DecodedFacts DEF after
<1> DEFINE twice == Decoded(after, B)
           once == Decoded(text, A \cup B)
<1> HIDE DEF twice, once
<1>9. \A p \in 1 .. n : twice[p] = once[p]
  BY <1>6, <1>7, <1>8 DEF twice, once
<1>10. twice \in [1 .. n -> Marks] /\ once \in [1 .. n -> Marks]
  BY <1>6, <1>7 DEF twice, once
<1>11. twice = once
  BY <1>9, <1>10
<1> QED  BY <1>5, <1>11 DEF twice, once, after

-----------------------------------------------------------------------------
(* Where decoding leads.                                                   *)

(* What stands in front of an origin makes of one text another.            *)
Becomes(text, other) == \E at \in SUBSET Escapes(text) : other = Decoded(text, at)

(* In whatever order: two ways to decode a text can be brought together.   *)
LEMMA Diamond ==
    ASSUME NEW n \in Nat, NEW x \in [1 .. n -> Marks], NEW y, NEW z, Becomes(x, y), Becomes(x, z)
    PROVE  \E c \in [1 .. n -> Marks] : Becomes(y, c) /\ Becomes(z, c)
<1>1. PICK A \in SUBSET Escapes(x) : y = Decoded(x, A)
  BY DEF Becomes
<1>2. PICK B \in SUBSET Escapes(x) : z = Decoded(x, B)
  BY DEF Becomes
<1>3. B \ A \in SUBSET Escapes(y) /\ Decoded(y, B \ A) = Decoded(x, A \cup B)
  <2> DEFINE rest == B \ A
  <2>1. rest \in SUBSET Escapes(x) /\ A \cap rest = {} /\ A \cup rest = A \cup B
    OBVIOUS
  <2> HIDE DEF rest
  <2>2. rest \in SUBSET Escapes(Decoded(x, A)) /\ Decoded(Decoded(x, A), rest) = Decoded(x, A \cup rest)
    BY <2>1, DecodedTogether
  <2> QED  BY <1>1, <2>1, <2>2 DEF rest
<1>4. A \ B \in SUBSET Escapes(z) /\ Decoded(z, A \ B) = Decoded(x, A \cup B)
  <2> DEFINE rest == A \ B
  <2>1. rest \in SUBSET Escapes(x) /\ B \cap rest = {} /\ B \cup rest = A \cup B
    OBVIOUS
  <2> HIDE DEF rest
  <2>2. rest \in SUBSET Escapes(Decoded(x, B)) /\ Decoded(Decoded(x, B), rest) = Decoded(x, B \cup rest)
    BY <2>1, DecodedTogether
  <2> QED  BY <1>2, <2>1, <2>2 DEF rest
<1>5. Decoded(x, A \cup B) \in [1 .. n -> Marks]
  BY <1>1, <1>2, DecodedFacts
<1> QED  BY <1>3, <1>4, <1>5 DEF Becomes
(* A set of texts that contains, with a text, those that become it.        *)
ClosedBackward(S, texts) == \A x, y \in texts : Becomes(x, y) /\ y \in S => x \in S

(* Some way of decoding leads from a text to another one.                  *)
Leads(text, other, texts) ==
    \A S \in SUBSET texts : other \in S /\ ClosedBackward(S, texts) => text \in S

(* Where a text leads that cannot be decoded further, it leads from        *)
(* everywhere on the way.                                                  *)
LEMMA LeadsOn ==
    ASSUME NEW n \in Nat, NEW x \in [1 .. n -> Marks], NEW y, NEW last \in [1 .. n -> Marks],
           Leads(x, last, [1 .. n -> Marks]), Becomes(x, y), Escapes(last) = {}
    PROVE  y \in [1 .. n -> Marks] /\ Leads(y, last, [1 .. n -> Marks])
<1> DEFINE texts == [1 .. n -> Marks]
           S == {t \in texts : Leads(t, last, texts) /\ \A z \in texts : Becomes(t, z) => Leads(z, last, texts)}
<1>1. last \in S
  <2>1. Leads(last, last, texts)
    BY DEF Leads
  <2>2. ASSUME NEW z \in texts, Becomes(last, z) PROVE z = last
    <3>1. z = Decoded(last, {})
      BY <2>2 DEF Becomes
    <3>2. \A p \in 1 .. n : z[p] = last[p]
      BY <3>1, DecodedFacts DEF DigitPlaces
    <3> QED  BY <3>2
  <2> QED  BY <2>1, <2>2
<1>2. ASSUME NEW t \in texts, NEW u \in texts, Becomes(t, u), u \in S PROVE t \in S
  <2>1. Leads(t, last, texts)
    BY <1>2 DEF Leads, ClosedBackward
  <2>2. ASSUME NEW z \in texts, Becomes(t, z) PROVE Leads(z, last, texts)
    <3>1. PICK c \in texts : Becomes(u, c) /\ Becomes(z, c)
      BY <1>2, <2>2, Diamond
    <3>2. Leads(c, last, texts)
      BY <1>2, <3>1
    <3> QED  BY <3>1, <3>2 DEF Leads, ClosedBackward
  <2> QED  BY <2>1, <2>2
<1>3. x \in S
  <2>1. S \in SUBSET texts /\ ClosedBackward(S, texts)
    BY <1>2 DEF ClosedBackward
  <2> HIDE DEF S
  <2> QED  BY <1>1, <2>1 DEF Leads
<1>4. y \in texts
  BY DecodedFacts DEF Becomes
<1> QED  BY <1>3, <1>4

(* Dots that are all of a segment, and separators, are never decoded away. *)
LEMMA DotsAndSlashesStay ==
    ASSUME NEW n \in Nat, NEW x \in [1 .. n -> Marks], NEW y, Becomes(x, y)
    PROVE  /\ Separates(x) => Separates(y)
           /\ DotSegment(x) => DotSegment(y)
<1>1. PICK at \in SUBSET Escapes(x) : y = Decoded(x, at)
  BY DEF Becomes
<1>2. "%" # "/" /\ "%" # "." /\ "%" # Nothing /\ "/" \notin HexDigits
  BY DEF HexDigits, Nothing
<1>3. ASSUME Separates(x) PROVE Separates(y)
  <2>1. PICK k \in 1 .. n : x[k] = "/"
    BY <1>3 DEF Separates
  <2>2. k \notin at
    BY <1>2, <2>1, EscapeFacts
  <2>3. k \notin DigitPlaces(x, at)
    BY <1>2, <2>1, DecodedFacts
  <2>4. y[k] = "/" /\ y \in [1 .. n -> Marks]
    BY <1>1, <2>1, <2>2, <2>3, DecodedFacts
  <2> QED  BY <2>4 DEF Separates
<1>4. ASSUME DotSegment(x) PROVE DotSegment(y)
  <2>1. \A k \in 1 .. n : x[k] # "%"
    BY <1>2, <1>4 DEF DotSegment
  <2>2. at = {}
    BY <2>1, EscapeFacts
  <2>3. DigitPlaces(x, at) = {}
    BY <2>2 DEF DigitPlaces
  <2>4. y \in [1 .. n -> Marks] /\ \A k \in 1 .. n : y[k] = x[k]
    BY <1>1, <2>2, <2>3, DecodedFacts
  <2>5. y = x
    BY <2>4
  <2> QED  BY <1>4, <2>5
<1> QED  BY <1>3, <1>4

LEMMA LeadsToClean ==
    ASSUME NEW n \in Nat, NEW x \in [1 .. n -> Marks], NEW last \in [1 .. n -> Marks],
           Leads(x, last, [1 .. n -> Marks]), ~DotSegment(last), ~Separates(last)
    PROVE  ~DotSegment(x) /\ ~Separates(x)
<1> DEFINE S == {t \in [1 .. n -> Marks] : ~DotSegment(t) /\ ~Separates(t)}
<1>1. ClosedBackward(S, [1 .. n -> Marks])
  BY DotsAndSlashesStay DEF ClosedBackward
<1>2. x \in S
  BY <1>1 DEF Leads
<1> QED  BY <1>2

-----------------------------------------------------------------------------
(* The rounds of segment_error.                                            *)

(* Nat is well-founded: what stands in for induction.                      *)
LEMMA LeastOf ==
    ASSUME NEW S \in SUBSET Nat, S # {}
    PROVE  \E m \in S : \A n \in S : m <= n
<1>1. PICK m \in S : \A n \in S : ~(<<n, m>> \in OpToRel(<, Nat))
  BY NatLessThanWellFounded, WFMin
<1>2. \A n \in S : ~(n < m)
  BY <1>1 DEF OpToRel
<1> QED  BY <1>2

(* The recursive definition of the rounds defines them.                    *)
LEMMA RoundsDefined ==
    ASSUME NEW segment
    PROVE  /\ Rounds(segment)[0] = segment
           /\ \A n \in 1 .. MaxDecodes : Rounds(segment)[n] = AllDecoded(Rounds(segment)[n - 1])
<1> DEFINE Def(f, m) == f = [n \in 0 .. m |-> IF n = 0 THEN segment ELSE AllDecoded(f[n - 1])]
           Undefined == {m \in Nat : ~\E f : Def(f, m)}
<1>1. Def([n \in 0 .. 0 |-> segment], 0)
  OBVIOUS
<1>2. ASSUME NEW m \in Nat, NEW f, Def(f, m) PROVE \E g : Def(g, m + 1)
  <2> DEFINE g == [n \in 0 .. m + 1 |-> IF n = m + 1 THEN AllDecoded(f[m]) ELSE f[n]]
  <2>1. \A n \in 0 .. m + 1 : g[n] = IF n = 0 THEN segment ELSE AllDecoded(g[n - 1])
    BY <1>2
  <2>2. Def(g, m + 1)
    BY <2>1
  <2> QED  BY <2>2
<1>3. MaxDecodes \in Nat /\ 0 \in 0 .. MaxDecodes
  BY UrlAssumption
<1> HIDE DEF Def
<1>4. Undefined = {}
  <2> SUFFICES ASSUME Undefined # {} PROVE FALSE
    OBVIOUS
  <2>1. PICK m \in Undefined : \A n \in Undefined : m <= n
    BY LeastOf
  <2>2. m # 0
    BY <1>1, <2>1
  <2>3. m - 1 \in Nat /\ m - 1 \notin Undefined
    BY <2>1, <2>2
  <2> QED  BY <1>2, <2>1, <2>3
<1>5. PICK f : Def(f, MaxDecodes)
  BY <1>3, <1>4
<1>6. Def(Rounds(segment), MaxDecodes)
  BY <1>5 DEF Def, Rounds
<1> DEFINE round == Rounds(segment)
<1>7. round = [n \in 0 .. MaxDecodes |-> IF n = 0 THEN segment ELSE AllDecoded(round[n - 1])]
  BY <1>6 DEF Def
<1> HIDE DEF round
<1>8. round[0] = segment /\ \A n \in 1 .. MaxDecodes : round[n] = AllDecoded(round[n - 1])
  BY <1>3, <1>7
<1> QED  BY <1>8 DEF round

LEMMA RoundsAreTexts ==
    ASSUME NEW n \in Nat, NEW segment \in [1 .. n -> Marks]
    PROVE  \A m \in 0 .. MaxDecodes : Rounds(segment)[m] \in [1 .. n -> Marks]
<1> DEFINE Other == {m \in Nat : m <= MaxDecodes /\ Rounds(segment)[m] \notin [1 .. n -> Marks]}
<1>1. MaxDecodes \in Nat
  BY UrlAssumption
<1> SUFFICES ASSUME Other # {} PROVE FALSE
  BY <1>1
<1>2. PICK m \in Other : \A k \in Other : m <= k
  BY LeastOf
<1>3. m # 0
  BY RoundsDefined
<1>4. m \in 1 .. MaxDecodes /\ m - 1 \in 0 .. MaxDecodes /\ m - 1 \notin Other
  BY <1>1, <1>2, <1>3
<1>5. Rounds(segment)[m - 1] \in [1 .. n -> Marks] /\ Rounds(segment)[m] = AllDecoded(Rounds(segment)[m - 1])
  BY <1>4, RoundsDefined
<1>6. Rounds(segment)[m] \in [1 .. n -> Marks]
  BY <1>5, DecodedFacts DEF AllDecoded
<1> QED  BY <1>2, <1>6

(* The text of every round is one the segment can become.                  *)
LEMMA RoundsLead ==
    ASSUME NEW n \in Nat, NEW segment \in [1 .. n -> Marks], NEW last \in 0 .. MaxDecodes
    PROVE  Leads(segment, Rounds(segment)[last], [1 .. n -> Marks])
<1> DEFINE round == Rounds(segment)
           texts == [1 .. n -> Marks]
<1>1. MaxDecodes \in Nat
  BY UrlAssumption
<1>2. \A m \in 0 .. MaxDecodes : round[m] \in texts
  BY RoundsAreTexts
<1>3. \A m \in 1 .. MaxDecodes : Becomes(round[m - 1], round[m])
  BY RoundsDefined DEF Becomes, AllDecoded
<1>4. round[0] = segment
  BY RoundsDefined
<1> HIDE DEF round, texts
<1>5. SUFFICES ASSUME NEW S \in SUBSET texts, round[last] \in S, ClosedBackward(S, texts)
               PROVE  round[0] \in S
  BY <1>4 DEF Leads, round, texts
<1> DEFINE Out == {m \in Nat : m <= last /\ round[last - m] \notin S}
<1>6. Out = {}
  <2> SUFFICES ASSUME Out # {} PROVE FALSE
    OBVIOUS
  <2>1. PICK m \in Out : \A k \in Out : m <= k
    BY LeastOf
  <2>2. m # 0 /\ m \in 0 .. last
    BY <1>1, <1>5, <2>1
  <2>3. m - 1 \in 0 .. last /\ m - 1 \notin Out
    BY <1>1, <2>1, <2>2
  <2>4. round[last - (m - 1)] \in S
    BY <2>3
  <2> DEFINE p == last - (m - 1)
  <2>5. p \in 1 .. MaxDecodes /\ p - 1 = last - m /\ p - 1 \in 0 .. MaxDecodes
    BY <1>1, <2>2
  <2>6. round[p - 1] \in S
    <3> HIDE DEF p
    <3>1. round[p] \in S
      BY <2>4 DEF p
    <3> QED  BY <1>1, <1>2, <1>3, <1>5, <2>5, <3>1 DEF ClosedBackward
  <2> QED  BY <2>1, <2>5, <2>6
<1>7. last \in 0 .. last /\ last - last = 0
  BY <1>1
<1> QED  BY <1>6, <1>7

(* A segment that is accepted leads to one that cannot be decoded further  *)
(* and is no dot segment and no separator.                                 *)
LEMMA AcceptedLeads ==
    ASSUME NEW n \in Nat, NEW segment \in [1 .. n -> Marks], NEW side, SegmentAccepted(side, segment)
    PROVE  \E last \in [1 .. n -> Marks] :
              /\ Leads(segment, last, [1 .. n -> Marks])
              /\ Escapes(last) = {} /\ ~DotSegment(last) /\ ~Separates(last)
<1>1. PICK m \in 0 .. MaxDecodes - 1 :
             /\ Rounds(segment)[m + 1] = Rounds(segment)[m]
             /\ Clean(Rounds(segment)[m])
  <2>1. \A m \in 0 .. MaxDecodes - 1 : m \in 0 .. m
    BY UrlAssumption
  <2> QED  BY <2>1 DEF SegmentAccepted, Settled
<1>2. m \in 0 .. MaxDecodes /\ m + 1 \in 1 .. MaxDecodes /\ (m + 1) - 1 = m
  BY UrlAssumption
<1> DEFINE last == Rounds(segment)[m]
<1>3. last \in [1 .. n -> Marks]
  BY <1>2, RoundsAreTexts
<1>4. Decoded(last, Escapes(last)) = last
  BY <1>1, <1>2, RoundsDefined DEF AllDecoded
<1>5. Leads(segment, last, [1 .. n -> Marks])
  BY <1>2, RoundsLead
<1>6. ~DotSegment(last) /\ ~Separates(last)
  BY <1>1 DEF Clean
<1> HIDE DEF last
<1>7. Escapes(last) = {}
  <2> SUFFICES ASSUME NEW k \in Escapes(last) PROVE FALSE
    OBVIOUS
  <2>1. PICK i \in 1 .. n : last[i] \in HexDigits /\ i = Behind(last, k)
    BY <1>3, EscapeFacts
  <2>2. i \in DigitPlaces(last, Escapes(last))
    BY <2>1 DEF DigitPlaces
  <2>3. Decoded(last, Escapes(last))[i] = Nothing
    BY <1>3, <2>2, DecodedFacts
  <2> QED  BY <1>4, <2>1, <2>3 DEF HexDigits, Nothing
<1> QED  BY <1>3, <1>5, <1>6, <1>7

-----------------------------------------------------------------------------
(* The way of an accepted entry.                                           *)

(* An entry that was accepted still leads to a text that cannot be decoded *)
(* further and is no dot segment and no separator.                         *)
OnTheWay ==
    /\ gate \in {"synth", "runtime"} => entry \in Entries
    /\ gate = "accepted" =>
          /\ "segment" \in DOMAIN entry
          /\ \E n \in Nat :
                \E last \in [1 .. n -> Marks] :
                   /\ entry.segment \in [1 .. n -> Marks]
                   /\ Leads(entry.segment, last, [1 .. n -> Marks])
                   /\ Escapes(last) = {} /\ ~DotSegment(last) /\ ~Separates(last)

LEMMA CheckedIsOnTheWay ==
    ASSUME OnTheWay, Check
    PROVE  OnTheWay'
<1>1. entry \in Urls /\ entry' = entry /\ gate' \in {"accepted", "refused"}
  BY UrlAssumption DEF OnTheWay, Check
<1>2. "segment" \in DOMAIN entry
  BY <1>1 DEF Urls
<1>3. PICK n \in Nat : entry.segment \in [1 .. n -> Marks]
  <2>1. entry.segment \in Seq(HexDigits \cup {"%", ".", "/", "x"})
    BY <1>1 DEF Urls
  <2>2. PICK n \in Nat : entry.segment \in [1 .. n -> HexDigits \cup {"%", ".", "/", "x"}]
    BY <2>1, SMT
  <2>3. HexDigits \cup {"%", ".", "/", "x"} \subseteq Marks
    BY DEF Marks
  <2> QED
    BY <2>2, <2>3
<1>4. ASSUME gate' = "accepted"
      PROVE  \E last \in [1 .. n -> Marks] :
                /\ Leads(entry.segment, last, [1 .. n -> Marks])
                /\ Escapes(last) = {} /\ ~DotSegment(last) /\ ~Separates(last)
  <2>1. SegmentAccepted("runtime", entry.segment)
    BY <1>4 DEF Check, RuntimeAccepts
  <2> QED
    BY <1>3, <2>1, AcceptedLeads
<1> QED
  BY <1>1, <1>2, <1>3, <1>4 DEF OnTheWay

LEMMA DecodedIsOnTheWay ==
    ASSUME OnTheWay, Decode
    PROVE  OnTheWay'
<1>1. gate = "accepted" /\ gate' = "accepted" /\ "segment" \in DOMAIN entry
  BY DEF OnTheWay, Decode
<1>2. PICK n \in Nat :
             \E last \in [1 .. n -> Marks] :
                /\ entry.segment \in [1 .. n -> Marks]
                /\ Leads(entry.segment, last, [1 .. n -> Marks])
                /\ Escapes(last) = {} /\ ~DotSegment(last) /\ ~Separates(last)
  BY <1>1 DEF OnTheWay
<1>3. PICK last \in [1 .. n -> Marks] :
             /\ entry.segment \in [1 .. n -> Marks]
             /\ Leads(entry.segment, last, [1 .. n -> Marks])
             /\ Escapes(last) = {} /\ ~DotSegment(last) /\ ~Separates(last)
  BY <1>2
<1>4. PICK at \in SUBSET Escapes(entry.segment) :
             entry' = [entry EXCEPT !.segment = Decoded(entry.segment, at)]
  BY DEF Decode
<1>5. "segment" \in DOMAIN entry' /\ entry'.segment = Decoded(entry.segment, at)
  BY <1>1, <1>4
<1>6. Becomes(entry.segment, entry'.segment)
  BY <1>5 DEF Becomes
<1>7. entry'.segment \in [1 .. n -> Marks] /\ Leads(entry'.segment, last, [1 .. n -> Marks])
  BY <1>3, <1>6, LeadsOn
<1> QED
  BY <1>1, <1>3, <1>5, <1>7 DEF OnTheWay

(* Whatever is on the allow-list and however deep its escapes are nested:  *)
(* once the registrar has accepted an entry, no decoding on its way, of    *)
(* any of its escapes in any order, makes its segment a dot segment or a   *)
(* separator.                                                              *)
THEOREM FetchPathStaysPut == Spec => []PathStaysPut
<1>1. FetchInit => OnTheWay
  BY DEF FetchInit, UrlInit, OnTheWay
<1>2. ASSUME OnTheWay, [Next]_vars
      PROVE  OnTheWay'
  <2>1. CASE Synth
    BY <1>2, <2>1 DEF OnTheWay, Synth
  <2>2. CASE Check
    BY <1>2, <2>2, CheckedIsOnTheWay
  <2>3. CASE Decode
    BY <1>2, <2>3, DecodedIsOnTheWay
  <2>4. CASE UNCHANGED url
    BY <1>2, <2>4 DEF OnTheWay, url
  <2> QED
    BY <1>2, <2>1, <2>2, <2>3, <2>4
       DEF Next, CheckUrl, UrlNext, Tick, MainNext, Start, NotResolved, Refuse, Exchange, Succeed,
           Fail, Cancel, CloseAdopted, CloseConn, Ends, Releases, Closer, Resolve, OwnSteps, PeerNext,
           Worker, Connected, NotConnected, Adopt, Request, WokenUp, Response, Chunk, BodyEnds,
           Broken, vars
<1>3. OnTheWay => PathStaysPut
  BY LeadsToClean DEF OnTheWay, PathStaysPut
<1> QED
  BY <1>1, <1>2, <1>3, PTL DEF Spec

-----------------------------------------------------------------------------
(* Type correctness.                                                       *)
THEOREM FetchTyping == Spec => []TypeOK
<1>1. FetchInv => TypeOK
  BY DEF FetchInv
<1> QED
  BY <1>1, FetchInvariant, PTL

(* What is accepted was read whole, within every limit, from an address    *)
(* that was checked; a 304 was asked for.                                  *)
THEOREM FetchAcceptsWhole == Spec => []AcceptedIsWhole
<1>1. FetchInv => AcceptedIsWhole
  <2> SUFFICES ASSUME FetchInv
               PROVE  AcceptedIsWhole
    OBVIOUS
  <2> QED
    BY DEF FetchInv, AcceptedIsWhole, Together, Reading, Accepted, Numbers
<1> QED
  BY <1>1, FetchInvariant, PTL

(* The handle keeps its word for the connection it knows: after fetch_     *)
(* document is over a request leaves on connection 2 only.                 *)
THEOREM FetchSendsNothingLate == Spec => LateRequestsReconnect
<1>1. FetchInv /\ [Next]_vars
        => [\A k \in sent' \ sent : main = "over" => k = 2]_vars
  <2> SUFFICES ASSUME FetchInv, Next, NEW k \in sent' \ sent, main = "over"
               PROVE  k = 2
    OBVIOUS
  <2>1. Request
    BY DEF Next, CheckUrl, Tick, MainNext, Start, NotResolved, Refuse, Exchange, Succeed, Fail,
           Cancel, CloseAdopted, CloseConn, Ends, Releases, Closer, Resolve, OwnSteps, PeerNext,
           Connected, NotConnected, Adopt, WokenUp, Response, Chunk, BodyEnds, Broken,
           exchange, transfer
  <2>2. worker = "sending" /\ k = using /\ socket[using] = "open"
    BY <2>1 DEF Request, Usable, Leaves
  <2>3. cancelled /\ using # 1
    BY <2>2 DEF FetchInv, Handled, Closed
  <2> QED
    BY <2>2, <2>3 DEF FetchInv, TypeOK, Connections
<1> QED
  BY <1>1, FetchInvariant, PTL DEF Spec, LateRequestsReconnect

-----------------------------------------------------------------------------
(* What is left behind.                                                    *)

(* As long as connection 1 is open somebody can find it: the worker that   *)
(* is about to hand it over, or the handle; and once the mark is set, that *)
(* worker asks for it, or the main thread is about to shut it.             *)
Tracked ==
    /\ worker \in {"idle", "connecting"} => socket[1] # "open"
    /\ socket[1] = "open" /\ worker = "adopting" => connSock = 1
    /\ socket[1] = "open" /\ worker # "adopting" => adopted = 1
    /\ socket[1] = "open" /\ cancelled => worker = "adopting" \/ main = "closingAdopted"
    /\ socket[1] = "open" /\ main = "over" => cancelled

LEMMA TrackedStep ==
    ASSUME FetchInv, Tracked, [Next]_vars
    PROVE  Tracked'
<1> USE ShutKeepsType DEF FetchInv, TypeOK, Handled, Tracked, Connections
<1>1. CASE CheckUrl \/ Tick \/ Resolve \/ UNCHANGED vars
  BY <1>1 DEF CheckUrl, Tick, Resolve, vars, threads, exchange, transfer, transport
<1>2. CASE Start \/ NotResolved \/ Refuse \/ Exchange
  BY <1>2
     DEF Together, Start, NotResolved, Refuse, Exchange, Ends, threads, exchange, transfer, transport
<1>3. CASE Succeed \/ Fail
  BY <1>3 DEF Succeed, Fail, Ends, threads, exchange, transfer, transport
<1>4. CASE Cancel
  BY <1>4 DEF Cancel, Releases, threads, exchange, transfer
<1>5. CASE CloseAdopted
  BY <1>5 DEF CloseAdopted, Releases, threads, exchange, transfer
<1>6. CASE CloseConn
  BY <1>6 DEF CloseConn, Releases, threads, exchange, transfer
<1>7. CASE Closer
  BY <1>7 DEF Closer, threads, exchange, transfer
<1>8. CASE Connected
  BY <1>8 DEF Connected, Established, Worker, threads, transfer
<1>9. CASE Adopt
  BY <1>9 DEF Adopt, Leaves, Worker, threads, transfer
<1>10. CASE NotConnected \/ Request \/ WokenUp
  BY <1>10 DEF NotConnected, Request, WokenUp, Established, Leaves, Worker, threads, transfer
<1>11. CASE PeerNext
  BY <1>11 DEF PeerNext, Response, Chunk, BodyEnds, Broken, Leaves, Worker, threads, transfer
<1> QED
  BY <1>1, <1>2, <1>3, <1>4, <1>5, <1>6, <1>7, <1>8, <1>9, <1>10, <1>11 DEF Next, MainNext, OwnSteps

(* However a fetch ends, and wherever its worker is when it is given up:   *)
(* the connection it opened is not left open to whoever holds the other    *)
(* end.                                                                    *)
THEOREM FetchCleansUp == Spec => []CleanedUp
<1>1. FetchInit => Tracked
  BY DEF FetchInit, Tracked, Connections
<1>2. Tracked => CleanedUp
  BY DEF Tracked, CleanedUp
<1> QED
  BY <1>1, <1>2, TrackedStep, FetchInvariant, PTL DEF Spec

(* The half of CallerReturns that is no liveness: fetch_document never     *)
(* waits longer than its budget, nor is a wait begun that would.           *)
THEOREM FetchInTime == Spec => [](time <= Budget /\ (Waiting => joinBy <= Budget))
<1>1. FetchInv => time <= Budget /\ (Waiting => joinBy <= Budget)
  BY FetchAssumption DEF FetchInv, Numbers
<1> QED
  BY <1>1, FetchInvariant, PTL
=============================================================================
