----------------------------- MODULE JsonString -----------------------------
(***************************************************************************)
(* JSON strings as jcs.rs reads them, twice: parse_string decodes one      *)
(* string of a document, and has_lone_surrogate_escape scans a whole text  *)
(* for an unpaired surrogate without parsing it.                           *)
(*                                                                         *)
(* Text is a sequence of symbols, one for each character.  A symbol is a   *)
(* character, but for the names below; no property tells one control       *)
(* character from another.                                                 *)
(***************************************************************************)
EXTENDS Naturals, Sequences

CONSTANT
    Character(_)        \* the character that four digits are as a code unit,
                        \* and eight as a surrogate pair

Quote == "quote"
Backslash == "backslash"
Control == "control"

\* Symbol i of a text, or End after its last.
End == "end of text"
Symbol(text, i) == IF i \in DOMAIN text THEN text[i] ELSE End

----------------------------------------------------------------------------
(* Code units *)

High == "high surrogate"
Low == "low surrogate"
Unreadable == "not four hex digits"

HexDigits ==
    {"0", "1", "2", "3", "4", "5", "6", "7", "8", "9",
     "a", "b", "c", "d", "e", "f", "A", "B", "C", "D", "E", "F"}

\* The four symbols from i on are hex digits and there.
Readable(text, i) ==
    i + 3 <= Len(text) /\ \A k \in i..(i + 3) : text[k] \in HexDigits

\* What they are as a code unit.  The surrogates are D800-DBFF and DC00-DFFF.
hex4(text, i) ==
    CASE ~Readable(text, i) -> Unreadable
      [] Readable(text, i) ->
            CASE text[i] \notin {"d", "D"} \/ text[i + 1] \in
                    {"0", "1", "2", "3", "4", "5", "6", "7"} ->
                        Character(SubSeq(text, i, i + 3))
              [] text[i] \in {"d", "D"} /\ text[i + 1] \in
                    {"8", "9", "a", "b", "A", "B"} -> High
              [] OTHER -> Low

\* An escape that starts at i, without its digits.
UnicodeEscape(text, i) == Symbol(text, i) = Backslash /\ Symbol(text, i + 1) = "u"

----------------------------------------------------------------------------
(* Decoding one string *)

\* Why nothing was decoded, or what was and where the next symbol is.
Failure(error) == [error |-> error, out |-> << >>, next |-> 0]
Decoded(out, next) == [error |-> "none", out |-> out, next |-> next]

\* The escape letters other than u, and what they stand for.
Escapes ==
    [letter \in {Quote, Backslash, "/", "b", "f", "n", "r", "t"} |->
        IF letter \in {Quote, Backslash, "/"} THEN letter ELSE Control]

\* The character that the escape at i stands for, or why it stands for none.
Escaped(text, i) ==
    LET letter == Symbol(text, i + 1)
        code == hex4(text, i + 2)
        low == hex4(text, i + 8)
    IN  CASE letter \in DOMAIN Escapes -> Decoded(<<Escapes[letter]>>, i + 2)
          [] letter \notin {"u"} \cup DOMAIN Escapes -> Failure("Malformed")
          [] letter = "u" ->
                CASE code = Unreadable -> Failure("Malformed")
                  [] code = Low -> Failure("LoneSurrogate")
                  [] code = High ->
                        CASE ~UnicodeEscape(text, i + 6) -> Failure("LoneSurrogate")
                          [] UnicodeEscape(text, i + 6) /\ low = Unreadable ->
                                Failure("Malformed")
                          [] UnicodeEscape(text, i + 6) /\ low = Low ->
                                Decoded(<<Character(SubSeq(text, i + 2, i + 5)
                                                    \o SubSeq(text, i + 8, i + 11))>>,
                                        i + 12)
                          [] OTHER -> Failure("LoneSurrogate")
                  [] OTHER -> Decoded(<<code>>, i + 6)

\* What a string says and where it ends, or the first error met in it, from
\* the symbols after its opening quote, the closing one included.
parse_string(chars) ==
    LET Follow(read, rest) == [rest EXCEPT !.out = read \o @]
        From[i \in 1..(Len(chars) + 1)] ==
            CASE Symbol(chars, i) \in {End, Control} -> Failure("Malformed")
              [] Symbol(chars, i) = Quote -> Decoded(<< >>, i + 1)
              [] Symbol(chars, i) = Backslash ->
                    IF Escaped(chars, i).error # "none" THEN Escaped(chars, i)
                    ELSE Follow(Escaped(chars, i).out, From[Escaped(chars, i).next])
              [] OTHER -> Follow(<<chars[i]>>, From[i + 1])
    IN  From[1]

----------------------------------------------------------------------------
(* Scanning a text *)

\* The scan takes the low half of a pair for an escape of its own.
has_lone_surrogate_escape_m(text) ==
    \E i \in DOMAIN text :
        UnicodeEscape(text, i) /\ hex4(text, i + 2) \in {High, Low}

\* Some string of the text has an escaped surrogate without its other half.
\* Nothing is parsed: quotes open and close strings wherever they are.
has_lone_surrogate_escape(text) ==
    LET n == Len(text)
        Pair(i) == UnicodeEscape(text, i + 6) /\ hex4(text, i + 8) = Low
        Lone(i) == CASE hex4(text, i + 2) = High -> ~Pair(i)
                     [] OTHER -> hex4(text, i + 2) = Low
        Length(i) == IF Symbol(text, i + 1) # "u" \/ i + 5 > n THEN 2
                     ELSE IF hex4(text, i + 2) = High THEN 12 ELSE 6
        From[i \in 1..(n + 1)] == [in_string \in BOOLEAN |->
            CASE i > n \/ (i = n /\ in_string /\ text[i] = Backslash) -> FALSE
              [] i <= n /\ ~in_string -> From[i + 1][text[i] = Quote]
              [] i <= n /\ in_string /\ text[i] # Backslash ->
                    From[i + 1][text[i] # Quote]
              [] OTHER ->
                    IF UnicodeEscape(text, i) /\ Lone(i) THEN TRUE
                    ELSE From[i + Length(i)][TRUE]]
    IN  From[1][FALSE]
=============================================================================
