------------------------------ MODULE JsonText ------------------------------
(***************************************************************************)
(* JSON documents, and what is wrong with them, without a parser.          *)
(*                                                                         *)
(* A text is a sequence of tokens; whitespace, which may stand between any *)
(* two of them, is left out.  A token has a kind:                          *)
(*   - "{" "}" "[" "]" ":" "," and "literal" (true, false, null);          *)
(*   - "string", with the symbols after its opening quote, the closing one *)
(*     included; without one it is the last token;                         *)
(*   - "number", safe when it is finite and, if integral, within 2^53 - 1; *)
(*   - "garbage", which no token begins with, and "invalid", which is not  *)
(*     UTF-8.                                                              *)
(***************************************************************************)
EXTENDS Integers, JsonString, SequencesExt

Opening == {"{", "["}
Closing == {"}", "]"}
CloserOf == [kind \in Opening |-> IF kind = "{" THEN "}" ELSE "]"]
Kinds == Opening \cup Closing
         \cup {":", ",", "literal", "string", "number", "garbage", "invalid"}

Tokens == [kind : Kinds, chars : Seq(STRING), safe : BOOLEAN]

Kind(text, i) == IF i \in DOMAIN text THEN text[i].kind ELSE End
Says(text, i) == parse_string(text[i].chars)

\* A string that can be read ends where parse_string stops reading it.
Delimited(text) ==
    \A i \in DOMAIN text :
        Kind(text, i) = "string" /\ Says(text, i).error = "none" =>
            Says(text, i).next = Len(text[i].chars) + 1

\* The symbols of a text.  All tokens but strings are one symbol, no quote.
Symbols(text) ==
    FlattenSeq([i \in DOMAIN text |->
        IF text[i].kind = "string" THEN <<Quote>> \o text[i].chars
        ELSE <<text[i].kind>>])

IsUtf8(text) == \A i \in DOMAIN text : text[i].kind # "invalid"

\* validate_json_text: what is refused before a text is parsed at all.
validate_json_text(text) ==
    CASE ~IsUtf8(text) -> "invalid_utf8"
      [] IsUtf8(text) /\ has_lone_surrogate_escape(Symbols(text)) -> "lone_surrogate"
      [] OTHER -> "ok"

----------------------------------------------------------------------------
(* What every place of a text is for *)

\* How many objects and arrays are open before token i.
Before(text, i, kinds) == {k \in 1..(i - 1) : Kind(text, k) \in kinds}
Nesting(text, i) ==
    Cardinality(Before(text, i, Opening)) - Cardinality(Before(text, i, Closing))

\* Where the innermost of them was opened.
Opener(text, i) ==
    Max({0} \cup {k \in Before(text, i, Opening) :
                    Nesting(text, k) = Nesting(text, i) - 1})

InObject(text, i) == Kind(text, Opener(text, i)) = "{"

\* What the tokens before say should be here.
Role(text, i) ==
    LET previous == Kind(text, i - 1)
    IN  CASE i = 1 \/ previous \in {":", "["} -> "value"
          [] previous = "{" -> "name"
          [] previous = "," -> IF InObject(text, i) THEN "name" ELSE "value"
          [] previous = "string" /\ InObject(text, i)
                /\ Kind(text, i - 2) \in {"{", ","} -> "colon"
          [] OTHER -> "separator"

\* The members of one object have distinct names, escaped or not.
Repeats(text, i) ==
    \E k \in 1..(i - 1) :
        /\ Role(text, k) = "name" /\ Kind(text, k) = "string"
        /\ Opener(text, k) = Opener(text, i)
        /\ Says(text, k).out = Says(text, i).out

\* What is wrong with place i of a text that is right before it.  Depth is
\* judged before there is anything to read, and a name before its colon.
Offence(text, i, max_depth) ==
    LET kind == Kind(text, i)
        role == Role(text, i)
        empty == \/ Kind(text, i - 1) = "[" /\ kind = "]"
                 \/ Kind(text, i - 1) = "{" /\ kind = "}"
        value == IF Nesting(text, i) >= max_depth THEN "DepthLimit"
                 ELSE CASE kind = "string" -> Says(text, i).error
                        [] kind = "number" ->
                              IF text[i].safe THEN "none" ELSE "UnsafeNumber"
                        [] kind \in {"literal"} \cup Opening -> "none"
                        [] OTHER -> "Malformed"
        name == IF kind # "string" THEN "Malformed"
                ELSE IF Says(text, i).error = "none" /\ Repeats(text, i)
                     THEN "DuplicateMember" ELSE Says(text, i).error
        expected == IF role = "colon" THEN {":"}
                    ELSE CASE Nesting(text, i) = 0 -> {End}
                           [] Nesting(text, i) # 0 /\ InObject(text, i) -> {",", "}"}
                           [] OTHER -> {",", "]"}
    IN  CASE empty -> "none"
          [] ~empty /\ role = "value" -> value
          [] ~empty /\ role = "name" -> name
          [] OTHER -> IF kind \in expected THEN "none" ELSE "Malformed"

\* What is wrong with a text: what is wrong with the first place where
\* something is.
FirstOffence(text, max_depth) ==
    LET places == {i \in 1..(Len(text) + 1) : Offence(text, i, max_depth) # "none"}
    IN  IF places = {} THEN "Ok" ELSE Offence(text, Min(places), max_depth)

----------------------------------------------------------------------------
(* The grammar *)

IsScalar(text, i) ==
    \/ Kind(text, i) = "literal"
    \/ Kind(text, i) = "number" /\ text[i].safe
    \/ Kind(text, i) = "string" /\ Says(text, i).error = "none"

\* A name and its colon, after which a value has to come.
IsNamed(text, i) ==
    Kind(text, i) = "string" /\ IsScalar(text, i) /\ Kind(text, i + 1) = ":"

Places(text) == 1..(Len(text) + 1)

\* Where the elements that begin at a place may end, given the values in them:
\* the items of an array, or the members of an object.
Elements(text, kind, values) ==
    LET Ends(i) == {j \in i..Len(text) : <<i, j>> \in values}
    IN  [i \in Places(text) |->
            IF kind = "[" THEN Ends(i) ELSE IF IsNamed(text, i) THEN Ends(i + 2) ELSE {}]

\* Where lists of elements, with commas between them, may end.
Lists(text, ends) ==
    LET More(i) == {k \in (i + 2)..(Len(text) + 1) : k - 2 \in ends[i] /\ Kind(text, k - 1) = ","}
        From[i \in Places(text)] == ends[i] \cup UNION {From[k] : k \in More(i)}
    IN  From

\* The pairs <<i, j>> such that the tokens from i to j are one value, given
\* which are one value with a level less.
Around(text, values) ==
    LET lists == [kind \in Opening |-> Lists(text, Elements(text, kind, values))]
        Enclosed(i, j) ==
            /\ Kind(text, i) \in Opening /\ Kind(text, j) = CloserOf[Kind(text, i)]
            /\ j = i + 1 \/ j - 1 \in lists[Kind(text, i)][i + 1]
    IN  {span \in Places(text) \X Places(text) :
            \/ span[1] = span[2] /\ IsScalar(text, span[1])
            \/ Enclosed(span[1], span[2])}

\* The values of a text, by how many levels they may nest.
Levels(text, max_depth) ==
    LET Values[depth \in 0..max_depth] ==
            IF depth = 0 THEN {} ELSE Around(text, Values[depth - 1])
    IN  Values

\* A document: a value, in which no object repeats a name.
IsDocument(text, max_depth) ==
    /\ <<1, Len(text)>> \in Levels(text, max_depth)[max_depth]
    /\ \A i \in DOMAIN text : Role(text, i) = "name" => ~Repeats(text, i)
=============================================================================
