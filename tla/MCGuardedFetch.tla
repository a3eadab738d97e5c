--------------------------- MODULE MCGuardedFetch ---------------------------
EXTENDS GuardedFetch

SeqsUpTo(S, n) == UNION {[1 .. k -> S] : k \in 0 .. n}

(* Escapes of escapes need room, separators and dots need their letters.   *)
MCSegments ==
    SeqsUpTo({"%", "2", "5", "e"}, 7) \cup SeqsUpTo({"%", "2", "3", "5", "e", "f", "."}, 5)

(* A dot or a slash escaped k times, once and twice in a segment: k - 1    *)
(* times "25" between the percent sign and its code.                       *)
Nested(k, code) ==
    [n \in 1 .. 2 * k + 1 |-> IF n = 1 THEN "%"
                              ELSE IF n > 2 * k - 1 THEN code[n - 2 * k + 1]
                              ELSE IF n % 2 = 0 THEN "2" ELSE "5"]

MCNested ==
    {Nested(k, code) : k \in 1 .. 6, code \in {<<"2", "e">>, <<"2", "f">>, <<"3", "5">>}}
        \cup {Nested(k, <<"2", "e">>) \o Nested(m, <<"2", "e">>) : k \in 1 .. 4, m \in 1 .. 4}

Good == [control |-> FALSE, backslash |-> FALSE, scheme |-> "https", userinfo |-> "none",
         host |-> "name", port |-> "none", path |-> "segments", query |-> "none",
         fragment |-> "none", segment |-> <<"x">>]

MCForms ==
    [control : BOOLEAN, backslash : BOOLEAN, scheme : {"https", "http"},
     userinfo : {"none", "empty", "some"}, host : {"name", "none", "foreign", "unparsable"},
     port : {"none", "valid", "invalid"}, path : {"none", "slash", "segments"},
     query : {"none", "empty", "some"}, fragment : {"none", "empty", "some"},
     segment : {<<"x">>}]

MCEntries == MCForms \cup {[Good EXCEPT !.segment = s] : s \in MCSegments \cup MCNested}
=============================================================================
