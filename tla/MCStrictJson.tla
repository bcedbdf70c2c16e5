---------------------------- MODULE MCStrictJson ----------------------------
(***************************************************************************)
(* A small instance of StrictJson: the documents of a few values, texts    *)
(* that are one token away from one, and strings of surrogate escapes and  *)
(* pieces of them.                                                         *)
(***************************************************************************)
EXTENDS StrictJson

Punctuation(kind) == [kind |-> kind, chars |-> << >>, safe |-> TRUE]
String(chars) == [kind |-> "string", chars |-> chars, safe |-> TRUE]

Number == Punctuation("number")
UnsafeNumber == [Number EXCEPT !.safe = FALSE]

\* One name in two spellings, and another.
A == String(<<"a", Quote>>)
EscapedA == String(<<Backslash, "u", "0", "0", "6", "1", Quote>>)
B == String(<<"b", Quote>>)

MCCharacter(digits) ==
    CASE digits = <<"0", "0", "6", "1">> -> "a"
      [] Len(digits) = 8 -> "astral"
      [] OTHER -> "other"

----------------------------------------------------------------------------
(* Documents and what is left of them after a slip *)

Between(open, inner, close) == <<Punctuation(open)>> \o inner \o <<Punctuation(close)>>
Comma == <<Punctuation(",")>>
Member(name, value) == <<name, Punctuation(":")>> \o value

\* The arrays and objects of at most two of these values.
Containers(values) ==
    {Between("[", << >>, "]"), Between("{", << >>, "}")}
    \cup {Between("[", v, "]") : v \in values}
    \cup {Between("{", Member(A, v), "}") : v \in values}
    \cup {Between("[", v \o Comma \o w, "]") : v, w \in values}
    \cup {Between("{", Member(A, v) \o Comma \o Member(name, w), "}") :
            v, w \in values, name \in {EscapedA, B}}

Flat == {<<Number>>} \cup Containers({<<Number>>})
Nested == Flat \cup Containers(Flat)

OtherTokens ==
    {Punctuation(kind) : kind \in Kinds \ {"string"}}
    \cup {UnsafeNumber, A, EscapedA, String(<<Backslash, "u", "D", "8", "0", "0", Quote>>)}

\* One token left out, put in or mistaken, or the last string not closed.
Slips(t) ==
    {SubSeq(t, 1, i - 1) \o SubSeq(t, i + 1, Len(t)) : i \in DOMAIN t}
    \cup {SubSeq(t, 1, i - 1) \o <<o>> \o SubSeq(t, i, Len(t)) :
            i \in 1..(Len(t) + 1), o \in OtherTokens}
    \cup {SubSeq(t, 1, i - 1) \o <<o>> \o SubSeq(t, i + 1, Len(t)) :
            i \in DOMAIN t, o \in OtherTokens}
    \cup {SubSeq(t, 1, i) \o <<String(<<"a">>)>> : i \in 0..Len(t)}

\* Texts of several levels with one slip, and the text of none.
SlippedTexts ==
    UNION {Slips(t) : t \in {u \in Nested : Len(u) <= 9}} \cup {<< >>}

DeepTexts == {Between("[", t, "]") : t \in Nested}
             \cup {Between("{", Member(A, t) \o Comma \o Member(A, <<Number>>), "}") :
                    t \in Flat}

----------------------------------------------------------------------------
(* Strings *)

Pieces == {<<Backslash>>, <<"u">>, <<"D", "8", "0", "0">>, <<"D", "C", "0", "0">>}
MorePieces == Pieces \cup {<<"0", "0", "6", "1">>, <<"n">>, <<Quote>>, <<Control>>}

Written(pieces, n) ==
    LET OfLength[k \in 0..n] ==
            IF k = 0 THEN {<< >>}
            ELSE {s \o piece : s \in OfLength[k - 1], piece \in pieces}
    IN  UNION {OfLength[k] : k \in 0..n}

\* The first quote that is not escaped ends the string.
Ends(chars) ==
    LET Escaping[i \in 0..Len(chars)] ==
            i > 0 /\ chars[i] = Backslash /\ ~Escaping[i - 1]
    IN  \A i \in DOMAIN chars :
            chars[i] = Quote => (i = Len(chars) <=> ~Escaping[i - 1])

StringTexts ==
    {<<String(chars)>> :
        chars \in {s \in {w \o <<Quote>> : w \in Written(Pieces, 6) \cup Written(MorePieces, 3)}
                         \cup Written(MorePieces, 3) : Ends(s)}}

AllTexts == Nested \cup SlippedTexts \cup DeepTexts \cup StringTexts

AllLimits ==
    [size : {100}, depth : 0..3] \cup [size : {0, 5}, depth : {2}]

\* See MCJsonValue.
MCTexts == AllTexts
MCLimits == AllLimits
=============================================================================
