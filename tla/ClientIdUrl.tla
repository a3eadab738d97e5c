----------------------------- MODULE ClientIdUrl -----------------------------
(***************************************************************************)
(* The rules for client_id URLs, which stand twice in the repository:      *)
(* lib/derive.ts checks the allow-list when the stacks are synthesised,    *)
(* shared/cimd_url.py checks each entry again in the registrar and each    *)
(* client_id that reaches the proxy.  An entry that passes both is fetched *)
(* through whatever stands in front of its origin, and that may decode the *)
(* percent-escapes of the path, once or often, all or some.                *)
(*                                                                         *)
(* Of a URL's path one segment is looked at character by character; a      *)
(* character that is neither a hex digit used here, a percent sign, a dot  *)
(* nor a separator is "x".  A slash stands for both separators.  A text    *)
(* keeps its places: a decoded escape leaves its character in the place of *)
(* the percent sign and Nothing in those of its two digits.                *)
(***************************************************************************)
EXTENDS Integers, Sequences

CONSTANTS
    Entries,     \* the URLs an operator may put on the allow-list
    MaxDecodes   \* _MAX_DECODES

HexDigits == {"2", "3", "5", "e", "f"}
Nothing == ""

(* What the rules look at in a URL.                                        *)
Urls == [control : BOOLEAN, backslash : BOOLEAN, scheme : {"https", "http"},
         userinfo : {"none", "empty", "some"}, host : {"name", "none", "foreign", "unparsable"},
         port : {"none", "valid", "invalid"}, path : {"none", "slash", "segments"},
         query : {"none", "empty", "some"}, fragment : {"none", "empty", "some"},
         segment : Seq(HexDigits \cup {"%", ".", "/", "x"})]

ASSUME UrlAssumption == MaxDecodes \in Nat \ {0} /\ Entries \subseteq Urls

VARIABLES
    entry,   \* an entry of the allow-list, its path as it arrives
    gate     \* what it has to pass next, or where it ended

-----------------------------------------------------------------------------
(* Percent-decoding.                                                       *)

(* The character an escape stands for; "bad" is no UTF-8.                  *)
Character(high, low) ==
    CASE high \in {"e", "f"} -> "bad"
      [] high = "2" /\ low = "5" -> "%"
      [] high = "2" /\ low = "e" -> "."
      [] high = "2" /\ low = "f" -> "/"
      [] high = "3" /\ low \in {"2", "3", "5"} -> low
      [] OTHER -> "x"

(* Character j is the next one behind place k.                             *)
Follows(text, k, j) == k < j /\ text[j] # Nothing /\ \A m \in k + 1 .. j - 1 : text[m] = Nothing

Escapes(text) ==
    LET digits == {n \in DOMAIN text : text[n] \in HexDigits}
    IN  {k \in DOMAIN text : /\ text[k] = "%"
                             /\ \E i, j \in digits : Follows(text, k, i) /\ Follows(text, i, j)}

Behind(text, k) == CHOOSE j \in DOMAIN text : Follows(text, k, j)
Meaning(text, k) ==
    LET high == Behind(text, k)
    IN  Character(text[high], text[Behind(text, high)])

(* The escapes at the places `at' are replaced by what they stand for.     *)
Decoded(text, at) ==
    LET first == {Behind(text, k) : k \in at}
        digits == first \cup {Behind(text, k) : k \in first}
    IN  [n \in DOMAIN text |-> IF n \in at THEN Meaning(text, n)
                               ELSE IF n \in digits THEN Nothing ELSE text[n]]

AllDecoded(text) == Decoded(text, Escapes(text))

Malformed(text) == \E k \in DOMAIN text : text[k] = "%" /\ k \notin Escapes(text)
NoUtf8(text) == \E k \in Escapes(text) : Meaning(text, k) = "bad"

(* decodeURIComponent, and unquote with errors="strict": which texts they  *)
(* decode.  unquote leaves a stray percent sign as it is.                  *)
SynthDecodes(text) == ~Malformed(text) /\ ~NoUtf8(text)

(* Mutant: unquote as it is without errors="strict".                       *)
RuntimeDecodes_Lenient(text) == TRUE

RuntimeDecodes(text) == ~NoUtf8(text)

Decodes(side, text) == IF side = "synth" THEN SynthDecodes(text) ELSE RuntimeDecodes(text)

-----------------------------------------------------------------------------
(* The rules.                                                              *)

DotSegment(text) ==
    \E i, j \in DOMAIN text :
        \A k \in DOMAIN text : text[k] = IF k \in {i, j} THEN "." ELSE Nothing
Separates(text) == \E k \in DOMAIN text : text[k] = "/"
Clean(text) == ~DotSegment(text) /\ ~Separates(text) /\ ~Malformed(text)

(* Mutant: the text is decoded once, not until nothing changes.            *)
Settled_Once(round, n) == n = 1

(* Another decoding changes nothing.                                       *)
Settled(round, n) == round[n + 1] = round[n]

(* The text in each round of segment_error, were all of them run.          *)
Rounds(segment) ==
    LET round[n \in 0 .. MaxDecodes] ==
            IF n = 0 THEN segment ELSE AllDecoded(round[n - 1])
    IN  round

(* The loop: the checks, then one more decoding, until nothing changes or  *)
(* the rounds are used up.                                                 *)
SegmentAccepted(side, segment) ==
    LET round == Rounds(segment)
    IN  \E last \in 0 .. MaxDecodes - 1 :
           /\ Settled(round, last)
           /\ \A n \in 0 .. last : Clean(round[n]) /\ Decodes(side, round[n])

TextAllowed(url) == ~url.control /\ ~url.backslash /\ url.scheme = "https"
NothingBehindPath(url) == url.query # "some" /\ url.fragment # "some"

(* validateCimdUrl.  new URL refuses bad ports and hosts that look like a  *)
(* name to urlsplit but are no IPv4 address or no punycode ("unparsable"). *)
(* An empty userinfo is caught by the rule for the authority's characters, *)
(* and so is a missing host.                                               *)
SynthAccepts(url) ==
    /\ TextAllowed(url)
    /\ url.port # "invalid" /\ url.host # "unparsable"
    /\ url.userinfo # "some"
    /\ url.userinfo # "empty" /\ url.host \notin {"foreign", "none"}
    /\ url.path = "segments"
    /\ SegmentAccepted("synth", url.segment)
    /\ NothingBehindPath(url)

(* validate_client_id_url                                                  *)
RuntimeAccepts(url) ==
    /\ TextAllowed(url)
    /\ url.userinfo = "none"
    /\ url.host \notin {"none", "foreign"}
    /\ url.path = "segments"
    /\ SegmentAccepted("runtime", url.segment)
    /\ url.port # "invalid"
    /\ NothingBehindPath(url)

-----------------------------------------------------------------------------
(* The way of an entry from the configuration to its origin.               *)

UrlInit == entry \in Entries /\ gate = "synth"

Synth ==
    /\ gate = "synth"
    /\ gate' = IF SynthAccepts(entry) THEN "runtime" ELSE "refused"
    /\ UNCHANGED entry

Check ==
    /\ gate = "runtime"
    /\ gate' = IF RuntimeAccepts(entry) THEN "accepted" ELSE "refused"
    /\ UNCHANGED entry

(* What stands in front of the origin decodes some escapes of the path.    *)
Decode ==
    /\ gate = "accepted"
    /\ \E at \in SUBSET Escapes(entry.segment) \ {{}} :
          entry' = [entry EXCEPT !.segment = Decoded(@, at)]
    /\ UNCHANGED gate

UrlNext == Synth \/ Check \/ Decode

-----------------------------------------------------------------------------
(* "The two implementations must agree on every input": what synth accepts *)
(* the registrar accepts, so a deployment can register its own allow-list; *)
(* what synth refuses the registrar refuses, but for a host that only the  *)
(* WHATWG parser knows to be none.                                         *)
GatesAgree ==
    gate = "synth"
        => /\ SynthAccepts(entry) => RuntimeAccepts(entry)
           /\ RuntimeAccepts(entry) => SynthAccepts(entry) \/ entry.host = "unparsable"

(* Dot segments and separators are refused "under any amount of percent-   *)
(* decoding": however much of an accepted path is decoded on its way, and  *)
(* in whatever order, it stays one segment below the path it was under.    *)
PathStaysPut ==
    gate = "accepted" => ~DotSegment(entry.segment) /\ ~Separates(entry.segment)
=============================================================================
