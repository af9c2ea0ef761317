------------------------------ MODULE MCTemplate ------------------------------
(* Templates for TLC: single operators with many expressions, and          *)
(* arrangements of operators with few.                                     *)
EXTENDS Template

CONSTANTS f, g

MCFeatures == {f, g}

(* Expressions made from smaller ones ...                                  *)
Wrapped(S) == {<<"not">> \o s : s \in S} \cup {<<"(">> \o s \o <<")">> : s \in S}
Joined(S)  == {s \o <<op>> \o t : s, t \in S, op \in Operators}
Grow(S)    == S \cup Wrapped(S) \cup Joined(S)

Small     == Grow({<<f>>, <<g>>})
Generable == LET S == Grow(Small) IN S \cup Wrapped(S)

(* ... and sequences of any tokens.                                        *)
Arbitrary ==
    UNION {[1..n -> Tokens] : n \in 1..4} \cup [1..5 -> {f, "and", "not", "(", ")"}]

Op(op, e) == [op |-> op, expr |-> e, implied |-> IF op = "imply" THEN {g} ELSE {}]
Text      == Op("text", <<>>)
Newline   == Op("newline", <<>>)

Singles == {<<Op("if", e)>> : e \in Generable \cup Arbitrary}

AllItems ==
    {Text, Newline, Op("imply", <<f>>), Op("stop", <<"and">>), Op("include", <<f, g>>)}
    \cup {Op(op, e) : op \in LineOperators \cup {"if"}, e \in {<<f>>, <<"not", g>>}}

SomeItems ==
    {Text, Op("imply", <<f>>), Op("exclude", <<f>>), Op("include", <<g>>),
     Op("stop", <<g>>), Op("if", <<g>>)}

Short == [1..3 -> AllItems]
Lines == {<<a, Newline, b, c, Newline, d, Text>> : a, b, c, d \in SomeItems}

MCTemplates == Singles \cup Short \cup Lines

=============================================================================
