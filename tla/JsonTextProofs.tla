--------------------------- MODULE JsonTextProofs ---------------------------
(***************************************************************************)
(* Lemmas about JsonText, for texts of every length: how the nesting, the  *)
(* opener and the role of a place follow from those of the place before    *)
(* it, and so what a reader who goes from left to right has to remember;   *)
(* and that the two readings of escapes, parse_string of one string and    *)
(* has_lone_surrogate_escape of a whole text, agree (TextScanned).         *)
(*                                                                         *)
(* Induction over places is over a set of natural numbers, which has a     *)
(* least element: Least and Induction.  The two readings are recursive     *)
(* functions, of which the provers are told that each is a function that   *)
(* satisfies its own equation (Reader, Scanner): it exists because every   *)
(* step looks at later places only (ReadingOnward, ScanningOnward).  So    *)
(* are the lists and the levels of the grammar (Lister, Leveler).          *)
(*                                                                         *)
(* The grammar says of two places whether what is between them is a value. *)
(* Rest says what it leaves to be read to one who stands inside of a text, *)
(* within levels that have yet to end, and the lemmas RestOpen to          *)
(* RestStart what every token changes about that.                          *)
(***************************************************************************)
EXTENDS JsonText, FiniteSetTheorems, SequenceTheorems, WellFoundedInduction, TLAPS

----------------------------------------------------------------------------
(* Natural numbers *)

\* A set of natural numbers has a least.
LEMMA Least ==
    ASSUME NEW S, S \subseteq Nat, S # {}
    PROVE  \E n \in S : \A m \in S : n <= m
<1> DEFINE R == {pair \in Nat \X Nat : pair[1] < pair[2]}
<1>1. IsWellFoundedOn(R, Nat)
  BY NatLessThanWellFounded DEF OpToRel
<1>2. PICK n \in S : \A m \in S : <<m, n>> \notin R
  BY <1>1, WFMin
<1>3. \A m \in S : ~(m < n)
  BY <1>2
<1>. QED BY <1>2, <1>3

\* A set with zero, and with each number the next, has every number.
LEMMA Induction ==
    ASSUME NEW S, 0 \in S, \A n \in Nat : n \in S => n + 1 \in S
    PROVE  Nat \subseteq S
<1> DEFINE T == Nat \ S
<1> SUFFICES ASSUME T # {} PROVE FALSE
  OBVIOUS
<1>1. PICK n \in T : \A m \in T : n <= m
  BY Least
<1>2. n # 0 /\ n - 1 \in Nat
  BY <1>1
<1>3. n - 1 \in S
  BY <1>1, <1>2
<1>. QED BY <1>1, <1>2, <1>3

\* A bounded set of natural numbers has a greatest.
LEMMA Greatest ==
    ASSUME NEW m \in Nat, NEW S \in SUBSET (0..m), S # {}
    PROVE  Max(S) \in S /\ \A y \in S : y <= Max(S)
<1> DEFINE T == {n \in Nat : m - n \in S}
<1>1. PICK y \in S : TRUE
  OBVIOUS
<1>2. m - y \in T
  BY <1>1
<1>3. PICK n \in T : \A k \in T : n <= k
  BY <1>2, Least
<1>4. m - n \in S /\ n \in Nat /\ \A x \in S : m - x \in T /\ x \in Nat
  BY <1>3
<1>. HIDE DEF T
<1>5. \A x \in S : m - n >= x
  BY <1>3, <1>4
<1>6. \E x \in S : \A k \in S : x >= k
  BY <1>4, <1>5
<1>7. Max(S) \in S /\ \A k \in S : Max(S) >= k
  BY <1>6 DEF Max
<1>8. S \subseteq Int
  OBVIOUS
<1>. QED BY <1>7, <1>8

----------------------------------------------------------------------------
(* Nesting *)

\* What is before a place is finite, and the next place has one token more.
LEMMA BeforeStep ==
    ASSUME NEW t, NEW i \in Nat \ {0}, NEW kinds
    PROVE  /\ IsFiniteSet(Before(t, i, kinds))
           /\ Cardinality(Before(t, i, kinds)) \in Nat
           /\ Kind(t, i) \in kinds =>
                Cardinality(Before(t, i + 1, kinds)) = Cardinality(Before(t, i, kinds)) + 1
           /\ Kind(t, i) \notin kinds => Before(t, i + 1, kinds) = Before(t, i, kinds)
<1>1. IsFiniteSet(1..(i - 1))
  BY FS_Interval
<1>2. Before(t, i, kinds) \subseteq 1..(i - 1)
  BY DEF Before
<1>3. IsFiniteSet(Before(t, i, kinds)) /\ Cardinality(Before(t, i, kinds)) \in Nat
  BY <1>1, <1>2, FS_Subset, FS_CardinalityType
<1>4. i \notin Before(t, i, kinds)
  BY DEF Before
<1>5. ASSUME Kind(t, i) \in kinds
      PROVE  Before(t, i + 1, kinds) = Before(t, i, kinds) \cup {i}
  BY <1>5 DEF Before
<1>6. ASSUME Kind(t, i) \notin kinds
      PROVE  Before(t, i + 1, kinds) = Before(t, i, kinds)
  BY <1>6 DEF Before
<1>. QED BY <1>3, <1>4, <1>5, <1>6, FS_AddElement

\* A token changes the nesting of the place after it as its kind says.
LEMMA NestingStep ==
    ASSUME NEW t, NEW i \in Nat \ {0}
    PROVE  /\ Nesting(t, i) \in Int
           /\ Kind(t, i) \in Opening => Nesting(t, i + 1) = Nesting(t, i) + 1
           /\ Kind(t, i) \in Closing => Nesting(t, i + 1) = Nesting(t, i) - 1
           /\ Kind(t, i) \notin Opening \cup Closing => Nesting(t, i + 1) = Nesting(t, i)
<1>. DEFINE opened == Cardinality(Before(t, i, Opening))
            closed == Cardinality(Before(t, i, Closing))
<1>1. Opening \cap Closing = {}
  BY DEF Opening, Closing
<1>2. /\ opened \in Nat
      /\ Cardinality(Before(t, i + 1, Opening)) =
            IF Kind(t, i) \in Opening THEN opened + 1 ELSE opened
  BY BeforeStep
<1>3. /\ closed \in Nat
      /\ Cardinality(Before(t, i + 1, Closing)) =
            IF Kind(t, i) \in Closing THEN closed + 1 ELSE closed
  BY BeforeStep
<1>. QED BY <1>1, <1>2, <1>3 DEF Nesting

\* Nothing is open at the beginning.
LEMMA NestingStart == \A t : Nesting(t, 1) = 0
<1>1. \A t, kinds : Before(t, 1, kinds) = {}
  BY DEF Before
<1>. QED BY <1>1, FS_EmptySet DEF Nesting

----------------------------------------------------------------------------
(* Openers *)

\* The last place before i where level n was opened, 0 if none was.
OpenedAt(t, i, n) ==
    Max({0} \cup {k \in Before(t, i, Opening) : Nesting(t, k) = n - 1})

\* What opened level n is an opening bracket at that depth, if anything is.
LEMMA OpenedFacts ==
    ASSUME NEW t, NEW i \in Nat \ {0}, NEW n
    PROVE  \/ OpenedAt(t, i, n) = 0
           \/ /\ OpenedAt(t, i, n) \in 1..(i - 1)
              /\ Kind(t, OpenedAt(t, i, n)) \in Opening
              /\ Nesting(t, OpenedAt(t, i, n)) = n - 1
<1> DEFINE S == {0} \cup {k \in Before(t, i, Opening) : Nesting(t, k) = n - 1}
<1>1. S \subseteq 0..(i - 1) /\ i - 1 \in Nat /\ S # {}
  BY DEF Before
<1>. HIDE DEF S
<1>2. Max(S) \in S
  BY <1>1, Greatest
<1>3. OpenedAt(t, i, n) \in S
  BY <1>2 DEF OpenedAt, S
<1>. QED BY <1>3 DEF S, Before

\* The opener of a place is what opened the level it is on.
LEMMA InnermostOpened ==
    \A t, i : Opener(t, i) = OpenedAt(t, i, Nesting(t, i))
BY DEF Opener, OpenedAt

\* An opening bracket opens one level, and leaves the others as they were.
LEMMA OpenedStep ==
    ASSUME NEW t, NEW i \in Nat \ {0}, NEW n \in Int
    PROVE  /\ Kind(t, i) \in Opening /\ n = Nesting(t, i) + 1
                 => OpenedAt(t, i + 1, n) = i
           /\ Kind(t, i) \notin Opening \/ n # Nesting(t, i) + 1
                 => OpenedAt(t, i + 1, n) = OpenedAt(t, i, n)
<1>1. Nesting(t, i) \in Int
  BY NestingStep
<1>2. ASSUME Kind(t, i) \in Opening, n = Nesting(t, i) + 1
      PROVE  OpenedAt(t, i + 1, n) = i
  <2> DEFINE S == {0} \cup {k \in Before(t, i + 1, Opening) : Nesting(t, k) = n - 1}
  <2>1. i \in S /\ S \subseteq 0..i /\ i \in Nat
    BY <1>1, <1>2 DEF Before
  <2>2. OpenedAt(t, i + 1, n) = Max(S)
    BY DEF OpenedAt
  <2>. HIDE DEF S
  <2>3. Max(S) \in S /\ \A y \in S : y <= Max(S)
    BY <2>1, Greatest
  <2>4. Max(S) \in 0..i /\ i <= Max(S)
    BY <2>1, <2>3
  <2>5. Max(S) = i
    BY <2>4
  <2>. QED BY <2>2, <2>5
<1>3. ASSUME Kind(t, i) \notin Opening \/ n # Nesting(t, i) + 1
      PROVE  OpenedAt(t, i + 1, n) = OpenedAt(t, i, n)
  <2> DEFINE L(j) == {k \in Before(t, j, Opening) : Nesting(t, k) = n - 1}
  <2>1. ASSUME NEW k \in L(i + 1) PROVE k \in L(i)
    <3>1. k \in 1..i /\ Kind(t, k) \in Opening /\ Nesting(t, k) = n - 1
      BY DEF Before
    <3>2. k # i
      BY <1>1, <1>3, <3>1
    <3>. QED BY <3>1, <3>2 DEF Before
  <2>2. ASSUME NEW k \in L(i) PROVE k \in L(i + 1)
    BY DEF Before
  <2>3. L(i + 1) = L(i)
    BY <2>1, <2>2
  <2>. QED BY <2>3 DEF OpenedAt
<1>. QED BY <1>2, <1>3

\* Only a bracket changes what a place is inside of.
LEMMA OpenerStep ==
    ASSUME NEW t, NEW i \in Nat \ {0}, Kind(t, i) \notin Opening \cup Closing
    PROVE  Opener(t, i + 1) = Opener(t, i) /\ (InObject(t, i + 1) <=> InObject(t, i))
<1>1. Nesting(t, i + 1) = Nesting(t, i) /\ Nesting(t, i) \in Int
  BY NestingStep
<1>2. Opener(t, i + 1) = Opener(t, i)
  BY <1>1, OpenedStep, InnermostOpened
<1>. QED BY <1>2 DEF InObject

----------------------------------------------------------------------------
(* Names *)

\* The names of members that were read before i in what was opened at k.
NamesOf(t, i, k) ==
    {Says(t, j).out : j \in {m \in 1..(i - 1) : /\ Role(t, m) = "name"
                                                /\ Kind(t, m) = "string"
                                                /\ Opener(t, m) = k}}

\* A name repeats another when it is among those read so far in its object.
LEMMA RepeatsName ==
    \A t, i : Repeats(t, i) <=> Says(t, i).out \in NamesOf(t, i, Opener(t, i))
BY DEF Repeats, NamesOf

IsName(t, i) == Role(t, i) = "name" /\ Kind(t, i) = "string"

\* The names of an object grow by its names, one at a time, and by nothing else.
LEMMA NamesStep ==
    ASSUME NEW t, NEW i \in Nat \ {0}, NEW k
    PROVE  /\ IsName(t, i) /\ Opener(t, i) = k
                 => NamesOf(t, i + 1, k) = NamesOf(t, i, k) \cup {Says(t, i).out}
           /\ ~IsName(t, i) \/ Opener(t, i) # k
                 => NamesOf(t, i + 1, k) = NamesOf(t, i, k)
<1>1. 1..(i + 1 - 1) = 1..(i - 1) \cup {i}
  OBVIOUS
<1>. QED BY <1>1 DEF NamesOf, IsName

\* What is just being opened has no names yet.
LEMMA NoNamesYet ==
    ASSUME NEW t, NEW i \in Nat \ {0}
    PROVE  NamesOf(t, i + 1, i) = {}
<1> SUFFICES ASSUME NEW m \in 1..i PROVE Opener(t, m) # i
  BY DEF NamesOf
<1>1. Opener(t, m) = 0 \/ Opener(t, m) \in 1..(m - 1)
  BY OpenedFacts, InnermostOpened
<1>. QED BY <1>1

----------------------------------------------------------------------------
(* Roles *)

Empty(t, i) == \/ Kind(t, i - 1) = "[" /\ Kind(t, i) = "]"
               \/ Kind(t, i - 1) = "{" /\ Kind(t, i) = "}"

\* What the token before says of a place that is not the first.
LEMMA RoleAfter ==
    ASSUME NEW t, NEW j \in Nat \ {0, 1}
    PROVE  LET previous == Kind(t, j - 1)
           IN  /\ previous \in {":", "["} => Role(t, j) = "value"
               /\ previous = "{" => Role(t, j) = "name"
               /\ previous = "," => Role(t, j) = IF InObject(t, j) THEN "name" ELSE "value"
               /\ previous = "string" =>
                     Role(t, j) = IF InObject(t, j) /\ Kind(t, j - 2) \in {"{", ","}
                                  THEN "colon" ELSE "separator"
               /\ previous \notin {":", "[", "{", ",", "string"} => Role(t, j) = "separator"
<1> DEFINE previous == Kind(t, j - 1)
           inner == InObject(t, j)
           begun == Kind(t, j - 2) \in {"{", ","}
<1>1. Role(t, j) = CASE j = 1 \/ previous \in {":", "["} -> "value"
                     [] previous = "{" -> "name"
                     [] previous = "," -> IF inner THEN "name" ELSE "value"
                     [] previous = "string" /\ inner /\ begun -> "colon"
                     [] OTHER -> "separator"
  BY Zenon DEF Role
<1>2. j # 1
  OBVIOUS
<1>. HIDE DEF previous, inner, begun
<1>3. /\ previous \in {":", "["} => Role(t, j) = "value"
      /\ previous = "{" => Role(t, j) = "name"
      /\ previous = "," => Role(t, j) = IF inner THEN "name" ELSE "value"
      /\ previous = "string" =>
            Role(t, j) = IF inner /\ begun THEN "colon" ELSE "separator"
      /\ previous \notin {":", "[", "{", ",", "string"} => Role(t, j) = "separator"
  BY <1>1, <1>2
<1>. QED BY <1>3 DEF previous, inner, begun

\* The first place is for a value.
LEMMA NothingBefore ==
    ASSUME NEW t \in Seq(Tokens)
    PROVE  Kind(t, 0) = End /\ Role(t, 1) = "value"
<1>1. Kind(t, 0) = End
  BY DEF Kind
<1>2. Kind(t, 1 - 1) = End
  BY <1>1
<1>. QED BY <1>1, <1>2 DEF Role, End

\* What a token leads to.
LEMMA RoleStep ==
    ASSUME NEW t \in Seq(Tokens), NEW i \in Nat \ {0}
    PROVE  /\ Kind(t, i) \in {":", "["} => Role(t, i + 1) = "value"
           /\ Kind(t, i) = "{" => Role(t, i + 1) = "name"
           /\ Kind(t, i) = "," =>
                 Role(t, i + 1) = IF InObject(t, i) THEN "name" ELSE "value"
           /\ Kind(t, i) \in Closing \cup {"literal", "number"}
                 => Role(t, i + 1) = "separator"
           /\ Kind(t, i) = "string" /\ Role(t, i) = "value"
                 => Role(t, i + 1) = "separator"
           /\ Kind(t, i) = "string" /\ Role(t, i) = "name" /\ InObject(t, i)
                 => Role(t, i + 1) = "colon"
<1>1. PICK j \in Nat \ {0, 1} : j = i + 1
  OBVIOUS
<1>2. j - 1 = i /\ j - 2 = i - 1
  BY <1>1
<1>3. Kind(t, i) \in {",", "string"} => (InObject(t, j) <=> InObject(t, i))
  BY <1>1, OpenerStep DEF Opening, Closing
<1>4. Role(t, i) = "value" => ~(InObject(t, i) /\ Kind(t, i - 1) \in {"{", ","})
  <2>1. i = 1 => Kind(t, i - 1) \notin {"{", ","}
    <3> SUFFICES ASSUME i = 1 PROVE Kind(t, i - 1) \notin {"{", ","}
      OBVIOUS
    <3>1. i - 1 = 0
      OBVIOUS
    <3>2. Kind(t, i - 1) = End
      BY <3>1, NothingBefore
    <3>. QED BY <3>2 DEF End
  <2>2. i # 1 => i \in Nat \ {0, 1}
    OBVIOUS
  <2>. QED BY <2>1, <2>2, RoleAfter
<1>5. Role(t, i) = "name" => Kind(t, i - 1) \in {"{", ","}
  <2>1. i # 1 => i \in Nat \ {0, 1}
    OBVIOUS
  <2>. QED BY <2>1, NothingBefore, RoleAfter
<1>6. /\ Kind(t, i) \in {":", "["} => Role(t, j) = "value"
      /\ Kind(t, i) = "{" => Role(t, j) = "name"
      /\ Kind(t, i) = "," =>
            Role(t, j) = IF InObject(t, j) THEN "name" ELSE "value"
      /\ Kind(t, i) = "string" =>
            Role(t, j) = IF InObject(t, j) /\ Kind(t, i - 1) \in {"{", ","}
                         THEN "colon" ELSE "separator"
      /\ Kind(t, i) \notin {":", "[", "{", ",", "string"} => Role(t, j) = "separator"
  BY <1>2, RoleAfter
<1>. QED BY <1>1, <1>3, <1>4, <1>5, <1>6 DEF Closing

----------------------------------------------------------------------------
(* Offences *)

\* The offence of a place, role by role.
LEMMA OffenceFacts ==
    ASSUME NEW t, NEW i, NEW d
    PROVE  /\ Empty(t, i) => Offence(t, i, d) = "none"
           /\ ~Empty(t, i) /\ Role(t, i) = "value" =>
                 Offence(t, i, d) =
                    IF Nesting(t, i) >= d THEN "DepthLimit"
                    ELSE CASE Kind(t, i) = "string" -> Says(t, i).error
                           [] Kind(t, i) = "number" ->
                                 IF t[i].safe THEN "none" ELSE "UnsafeNumber"
                           [] Kind(t, i) \in {"literal"} \cup Opening -> "none"
                           [] OTHER -> "Malformed"
           /\ ~Empty(t, i) /\ Role(t, i) = "name" =>
                 Offence(t, i, d) =
                    IF Kind(t, i) # "string" THEN "Malformed"
                    ELSE IF Says(t, i).error = "none" /\ Repeats(t, i)
                         THEN "DuplicateMember" ELSE Says(t, i).error
           /\ ~Empty(t, i) /\ Role(t, i) = "colon" =>
                 Offence(t, i, d) = IF Kind(t, i) = ":" THEN "none" ELSE "Malformed"
           /\ ~Empty(t, i) /\ Role(t, i) = "separator" =>
                 LET expected == CASE Nesting(t, i) = 0 -> {End}
                                   [] Nesting(t, i) # 0 /\ InObject(t, i) -> {",", "}"}
                                   [] OTHER -> {",", "]"}
                 IN  Offence(t, i, d) =
                        IF Kind(t, i) \in expected THEN "none" ELSE "Malformed"
<1> DEFINE empty == Empty(t, i)
           role == Role(t, i)
           value == IF Nesting(t, i) >= d THEN "DepthLimit"
                    ELSE CASE Kind(t, i) = "string" -> Says(t, i).error
                           [] Kind(t, i) = "number" ->
                                 IF t[i].safe THEN "none" ELSE "UnsafeNumber"
                           [] Kind(t, i) \in {"literal"} \cup Opening -> "none"
                           [] OTHER -> "Malformed"
           name == IF Kind(t, i) # "string" THEN "Malformed"
                   ELSE IF Says(t, i).error = "none" /\ Repeats(t, i)
                        THEN "DuplicateMember" ELSE Says(t, i).error
           closers == CASE Nesting(t, i) = 0 -> {End}
                        [] Nesting(t, i) # 0 /\ InObject(t, i) -> {",", "}"}
                        [] OTHER -> {",", "]"}
           expected == IF role = "colon" THEN {":"} ELSE closers
           other == IF Kind(t, i) \in expected THEN "none" ELSE "Malformed"
<1>1. Offence(t, i, d) = CASE empty -> "none"
                           [] ~empty /\ role = "value" -> value
                           [] ~empty /\ role = "name" -> name
                           [] OTHER -> other
  BY Zenon DEF Offence, Empty
<1>. HIDE DEF value, name, closers, empty, role
<1>2. /\ empty => Offence(t, i, d) = "none"
      /\ ~empty /\ role = "value" => Offence(t, i, d) = value
      /\ ~empty /\ role = "name" => Offence(t, i, d) = name
      /\ ~empty /\ role = "colon" =>
            Offence(t, i, d) = IF Kind(t, i) = ":" THEN "none" ELSE "Malformed"
      /\ ~empty /\ role = "separator" =>
            Offence(t, i, d) = IF Kind(t, i) \in closers THEN "none" ELSE "Malformed"
  BY <1>1
<1>. QED BY <1>2, Zenon DEF value, name, closers, empty, role

\* A place is the first that is wrong.
LEMMA FirstIsNamed ==
    ASSUME NEW t \in Seq(Tokens), NEW d, NEW i \in 1..(Len(t) + 1),
           Offence(t, i, d) # "none",
           \A k \in 1..(i - 1) : Offence(t, k, d) = "none"
    PROVE  FirstOffence(t, d) = Offence(t, i, d)
<1> DEFINE places == {k \in 1..(Len(t) + 1) : Offence(t, k, d) # "none"}
<1>1. i \in places /\ places \subseteq 1..(Len(t) + 1) /\ i \in Nat
  OBVIOUS
<1>2. \A k \in places : i <= k
  OBVIOUS
<1>3. FirstOffence(t, d) = IF places = {} THEN "Ok" ELSE Offence(t, Min(places), d)
  BY DEF FirstOffence
<1>4. places \subseteq Int
  OBVIOUS
<1>. HIDE DEF places
<1>5. Min(places) = i
  <2>1. Min(places) \in places /\ \A k \in places : Min(places) <= k
    BY <1>1, <1>2 DEF Min
  <2>2. Min(places) <= i /\ i <= Min(places) /\ Min(places) \in Int
    BY <1>1, <1>2, <1>4, <2>1
  <2>. QED BY <1>1, <2>2
<1>. QED BY <1>1, <1>3, <1>5

\* A text with no offence at any place is right.
LEMMA NoneIsWrong ==
    ASSUME NEW t, NEW d, \A k \in 1..(Len(t) + 1) : Offence(t, k, d) = "none"
    PROVE  FirstOffence(t, d) = "Ok"
BY DEF FirstOffence

----------------------------------------------------------------------------
(* Reading a string *)

\* The symbols of a text.
Alphabet == STRING \cup Kinds \cup {Quote}

IsReadingResult(result) ==
    result = [error |-> result.error, out |-> result.out, next |-> result.next]

\* What parse_string makes of an escape within a string: the digits it has
\* read are all there, and so is the place where it goes on.
LEMMA EscapeFacts ==
    ASSUME NEW chars \in Seq(Alphabet), NEW i \in 1..Len(chars)
    PROVE  LET letter == Symbol(chars, i + 1)
               code == hex4(chars, i + 2)
               escape == Escaped(chars, i)
           IN  /\ IsReadingResult(escape)
               /\ escape.error \in {"none", "Malformed", "LoneSurrogate"}
               /\ escape.error = "none" =>
                    \/ /\ letter # "u" /\ i + 1 <= Len(chars)
                       /\ escape.next = i + 2
                    \/ /\ letter = "u" /\ i + 5 <= Len(chars) /\ code \notin {High, Low}
                       /\ escape.next = i + 6
                    \/ /\ letter = "u" /\ code = High
                       /\ UnicodeEscape(chars, i + 6) /\ hex4(chars, i + 8) = Low
                       /\ i + 11 <= Len(chars) /\ escape.next = i + 12
               /\ escape.error = "LoneSurrogate" =>
                    /\ letter = "u" /\ i + 5 <= Len(chars)
                    /\ \/ code = Low
                       \/ code = High /\ ~UnicodeEscape(chars, i + 6)
                       \/ /\ code = High /\ UnicodeEscape(chars, i + 6)
                          /\ i + 11 <= Len(chars) /\ hex4(chars, i + 8) # Low
<1>. DEFINE letter == Symbol(chars, i + 1)
            code == hex4(chars, i + 2)
            low == hex4(chars, i + 8)
            escape == Escaped(chars, i)
            paired == UnicodeEscape(chars, i + 6)
<1>1. Len(chars) \in Nat /\ DOMAIN chars = 1..Len(chars)
  OBVIOUS
<1>2. code # Unreadable => i + 5 <= Len(chars)
  BY <1>1 DEF hex4, Readable
<1>3. low # Unreadable => i + 11 <= Len(chars)
  BY <1>1 DEF hex4, Readable
<1>4. letter \in DOMAIN Escapes => letter # "u" /\ i + 1 <= Len(chars)
  BY <1>1 DEF Symbol, Escapes, End, Quote, Backslash
<1>5. escape =
        CASE letter \in DOMAIN Escapes -> Decoded(<<Escapes[letter]>>, i + 2)
          [] letter \notin {"u"} \cup DOMAIN Escapes -> Failure("Malformed")
          [] letter = "u" ->
                CASE code = Unreadable -> Failure("Malformed")
                  [] code = Low -> Failure("LoneSurrogate")
                  [] code = High ->
                        CASE ~paired -> Failure("LoneSurrogate")
                          [] paired /\ low = Unreadable -> Failure("Malformed")
                          [] paired /\ low = Low ->
                                Decoded(<<Character(SubSeq(chars, i + 2, i + 5)
                                                    \o SubSeq(chars, i + 8, i + 11))>>, i + 12)
                          [] OTHER -> Failure("LoneSurrogate")
                  [] OTHER -> Decoded(<<code>>, i + 6)
  BY DEF Escaped
<1>6. Low # Unreadable /\ Low # High /\ High # Unreadable
  BY DEF Low, High, Unreadable
<1>7. paired \in BOOLEAN
  BY DEF UnicodeEscape
<1>8. /\ \A error : Failure(error).error = error /\ IsReadingResult(Failure(error))
      /\ \A out, next : /\ Decoded(out, next).error = "none"
                         /\ Decoded(out, next).next = next
                         /\ IsReadingResult(Decoded(out, next))
  BY DEF Failure, Decoded, IsReadingResult
<1>. HIDE DEF letter, code, low, escape, paired
<1>9. CASE letter \in DOMAIN Escapes
  <2>1. escape = Decoded(<<Escapes[letter]>>, i + 2)
    BY <1>4, <1>5, <1>9
  <2>. QED BY <1>4, <1>8, <1>9, <2>1 DEF letter, code, escape
<1>10. CASE letter \notin {"u"} \cup DOMAIN Escapes
  <2>1. escape = Failure("Malformed")
    BY <1>5, <1>10
  <2>. QED BY <1>8, <2>1 DEF escape
<1>11. CASE letter = "u" /\ letter \notin DOMAIN Escapes
  <2>1. CASE code = Unreadable
    <3>1. escape = Failure("Malformed")
      BY <1>5, <1>6, <1>11, <2>1
    <3>. QED BY <1>8, <3>1 DEF escape
  <2>2. CASE code = Low
    <3>1. escape = Failure("LoneSurrogate")
      BY <1>5, <1>6, <1>11, <2>2
    <3>. QED BY <1>2, <1>6, <1>8, <1>11, <2>2, <3>1 DEF letter, code, escape
  <2>3. CASE code = High
    <3>1. escape =
            CASE ~paired -> Failure("LoneSurrogate")
              [] paired /\ low = Unreadable -> Failure("Malformed")
              [] paired /\ low = Low ->
                    Decoded(<<Character(SubSeq(chars, i + 2, i + 5)
                                        \o SubSeq(chars, i + 8, i + 11))>>, i + 12)
              [] OTHER -> Failure("LoneSurrogate")
      BY <1>5, <1>6, <1>11, <2>3
    <3>2. CASE ~paired
      <4>1. escape = Failure("LoneSurrogate")
        BY <3>1, <3>2
      <4>. QED BY <1>2, <1>6, <1>8, <1>11, <2>3, <3>2, <4>1 DEF letter, code, escape, paired
    <3>3. CASE paired /\ low = Unreadable
      <4>1. escape = Failure("Malformed")
        BY <1>6, <3>1, <3>3
      <4>. QED BY <1>8, <4>1 DEF escape
    <3>4. CASE paired /\ low = Low
      <4>1. \E out : escape = Decoded(out, i + 12)
        BY <1>6, <3>1, <3>4
      <4>. QED BY <1>3, <1>6, <1>8, <1>11, <2>3, <3>4, <4>1 DEF letter, code, low, escape, paired
    <3>5. CASE paired /\ low \notin {Low, Unreadable}
      <4>1. escape = Failure("LoneSurrogate")
        BY <3>1, <3>5
      <4>. QED BY <1>2, <1>3, <1>6, <1>8, <1>11, <2>3, <3>5, <4>1 DEF letter, code, low, escape, paired
    <3>. QED BY <1>7, <3>2, <3>3, <3>4, <3>5
  <2>4. CASE code \notin {Unreadable, Low, High}
    <3>1. escape = Decoded(<<code>>, i + 6)
      BY <1>5, <1>11, <2>4
    <3>. QED BY <1>2, <1>8, <1>11, <2>4, <3>1 DEF letter, code, escape
  <2>. QED BY <2>1, <2>2, <2>3, <2>4
<1>. QED BY <1>9, <1>10, <1>11

\* What is read from place i on, when f tells what is read from later places.
Reading(chars, f, i) ==
    CASE Symbol(chars, i) \in {End, Control} -> Failure("Malformed")
      [] Symbol(chars, i) = Quote -> Decoded(<< >>, i + 1)
      [] Symbol(chars, i) = Backslash ->
            IF Escaped(chars, i).error # "none" THEN Escaped(chars, i)
            ELSE [f[Escaped(chars, i).next] EXCEPT !.out = Escaped(chars, i).out \o @]
      [] OTHER -> [f[i + 1] EXCEPT !.out = <<chars[i]>> \o @]

\* It goes from left to right, and stays within the string.
LEMMA ReadingOnward ==
    ASSUME NEW chars \in Seq(Alphabet), NEW f, NEW g, NEW i \in 1..(Len(chars) + 1),
           \A k \in (i + 1)..(Len(chars) + 1) : f[k] = g[k]
    PROVE  Reading(chars, f, i) = Reading(chars, g, i)
<1>1. Len(chars) \in Nat /\ DOMAIN chars = 1..Len(chars)
  OBVIOUS
<1>2. CASE i = Len(chars) + 1
  <2>1. Symbol(chars, i) = End
    BY <1>1, <1>2 DEF Symbol
  <2>. QED BY <2>1 DEF Reading, End, Control, Quote, Backslash
<1>3. CASE i \in 1..Len(chars)
  <2>1. f[i + 1] = g[i + 1]
    BY <1>1, <1>3
  <2>2. Escaped(chars, i).error = "none" =>
            Escaped(chars, i).next \in (i + 1)..(Len(chars) + 1)
    <3>. DEFINE next == Escaped(chars, i).next
    <3>1. Escaped(chars, i).error = "none" =>
            \/ i + 1 <= Len(chars) /\ next = i + 2
            \/ i + 5 <= Len(chars) /\ next = i + 6
            \/ i + 11 <= Len(chars) /\ next = i + 12
      BY <1>3, EscapeFacts, Zenon
    <3>. HIDE DEF next
    <3>2. Escaped(chars, i).error = "none" => next \in (i + 1)..(Len(chars) + 1)
      BY <1>1, <1>3, <3>1
    <3>. QED BY <3>2 DEF next
  <2>3. Escaped(chars, i).error = "none" =>
            f[Escaped(chars, i).next] = g[Escaped(chars, i).next]
    BY <2>2
  <2>. QED BY <2>1, <2>3 DEF Reading
<1>. QED BY <1>1, <1>2, <1>3

\* So it is well defined, and parse_string is what is read from the first.
LEMMA Reader ==
    ASSUME NEW chars \in Seq(Alphabet)
    PROVE  \E f : /\ parse_string(chars) = f[1]
                  /\ \A i \in 1..(Len(chars) + 1) : f[i] = Reading(chars, f, i)
<1>. DEFINE n == Len(chars)
            D == 1..(n + 1)
            Whole(f) == [i \in D |-> Reading(chars, f, i)]
            Known(f, k) == /\ f = [i \in D |-> f[i]]
                           /\ \A i \in D : i > n + 1 - k => f[i] = Reading(chars, f, i)
            S == {k \in Nat : k > n + 1 \/ \E f : Known(f, k)}
<1>1. n \in Nat
  OBVIOUS
<1>2. 0 \in S
  <2>. DEFINE f == [i \in D |-> 0]
  <2>1. Known(f, 0)
    BY <1>1
  <2>. HIDE DEF f, Known
  <2>. QED BY <2>1
<1>3. ASSUME NEW k \in Nat, k \in S PROVE k + 1 \in S
  <2>1. CASE k + 1 > n + 1
    BY <1>1, <2>1
  <2>2. CASE k <= n
    <3>1. PICK f : Known(f, k)
      BY <1>1, <1>3, <2>2
    <3>2. PICK j \in D : j = n + 1 - k
      BY <1>1, <2>2
    <3>. DEFINE g == [i \in D |-> IF i = j THEN Reading(chars, f, j) ELSE f[i]]
    <3>3. \A i \in D : g[i] = IF i = j THEN Reading(chars, f, j) ELSE f[i]
      OBVIOUS
    <3>4. g = [i \in D |-> g[i]]
      OBVIOUS
    <3>. HIDE DEF g
    <3>5. ASSUME NEW i \in D, i >= j PROVE Reading(chars, g, i) = Reading(chars, f, i)
      <4>1. \A x \in (i + 1)..(n + 1) : g[x] = f[x]
        BY <1>1, <3>3, <3>5
      <4>. QED BY <4>1, ReadingOnward
    <3>6. \A i \in D : i > j => f[i] = Reading(chars, f, i)
      BY <3>1, <3>2
    <3>7. \A i \in D : i > n + 1 - (k + 1) => g[i] = Reading(chars, g, i)
      BY <1>1, <3>2, <3>3, <3>5, <3>6
    <3>8. Known(g, k + 1)
      BY <3>4, <3>7
    <3>. HIDE DEF Known
    <3>. QED BY <3>8
  <2>. QED BY <1>1, <2>1, <2>2
<1>. HIDE DEF Known
<1>4. n + 1 \in S
  <2>. HIDE DEF S
  <2>1. Nat \subseteq S
    BY <1>2, <1>3, Induction
  <2>. QED BY <1>1, <2>1
<1>5. PICK f : Known(f, n + 1)
  BY <1>1, <1>4
<1>6. f = Whole(f)
  BY <1>1, <1>5 DEF Known
<1>. DEFINE from == CHOOSE h : h = Whole(h)
<1>7. from = Whole(from)
  BY <1>6
<1>8. parse_string(chars) = from[1]
  BY DEF parse_string, Reading
<1>9. \A i \in D : from[i] = Reading(chars, from, i)
  <2>. HIDE DEF from
  <2>. QED BY <1>7
<1>. HIDE DEF from
<1>. QED BY <1>8, <1>9

----------------------------------------------------------------------------
(* Scanning a text *)

\* An escape at i is a surrogate without its other half.
Lone(text, i) ==
    CASE hex4(text, i + 2) = High ->
            ~(UnicodeEscape(text, i + 6) /\ hex4(text, i + 8) = Low)
      [] OTHER -> hex4(text, i + 2) = Low

\* How far the scan skips at a backslash.
Skip(text, i) ==
    IF Symbol(text, i + 1) # "u" \/ i + 5 > Len(text) THEN 2
    ELSE IF hex4(text, i + 2) = High THEN 12 ELSE 6

\* What is found from place i on, when f tells what is found from later places.
Scanning(text, f, i) ==
    [in_string \in BOOLEAN |->
        CASE i > Len(text) \/ (i = Len(text) /\ in_string /\ text[i] = Backslash) -> FALSE
          [] i <= Len(text) /\ ~in_string -> f[i + 1][text[i] = Quote]
          [] i <= Len(text) /\ in_string /\ text[i] # Backslash ->
                f[i + 1][text[i] # Quote]
          [] OTHER ->
                IF UnicodeEscape(text, i) /\ Lone(text, i) THEN TRUE
                ELSE f[i + Skip(text, i)][TRUE]]

\* One step of the scan, symbol by symbol, without its CASE.
LEMMA ScanningCases ==
    ASSUME NEW text \in Seq(Alphabet), NEW f, NEW i \in 1..(Len(text) + 1)
    PROVE  /\ i = Len(text) + 1 => Scanning(text, f, i) = [in_string \in BOOLEAN |-> FALSE]
           /\ i <= Len(text) =>
                /\ text[i] # Quote => Scanning(text, f, i)[FALSE] = f[i + 1][FALSE]
                /\ text[i] = Quote => Scanning(text, f, i)[FALSE] = f[i + 1][TRUE]
                /\ text[i] \notin {Quote, Backslash} =>
                        Scanning(text, f, i)[TRUE] = f[i + 1][TRUE]
                /\ text[i] = Quote => Scanning(text, f, i)[TRUE] = f[i + 1][FALSE]
           /\ i < Len(text) /\ text[i] = Backslash =>
                /\ UnicodeEscape(text, i) /\ Lone(text, i) => Scanning(text, f, i)[TRUE] = TRUE
                /\ ~(UnicodeEscape(text, i) /\ Lone(text, i)) =>
                        Scanning(text, f, i)[TRUE] = f[i + Skip(text, i)][TRUE]
<1>1. Len(text) \in Nat
  OBVIOUS
<1>2. Quote # Backslash
  BY DEF Quote, Backslash
<1>. DEFINE Found(in_string) ==
        CASE i > Len(text) \/ (i = Len(text) /\ in_string /\ text[i] = Backslash) -> FALSE
          [] i <= Len(text) /\ ~in_string -> f[i + 1][text[i] = Quote]
          [] i <= Len(text) /\ in_string /\ text[i] # Backslash ->
                f[i + 1][text[i] # Quote]
          [] OTHER ->
                IF UnicodeEscape(text, i) /\ Lone(text, i) THEN TRUE
                ELSE f[i + Skip(text, i)][TRUE]
<1>3. Scanning(text, f, i) = [in_string \in BOOLEAN |-> Found(in_string)]
  BY DEF Scanning
<1>4. Scanning(text, f, i)[TRUE] = Found(TRUE) /\ Scanning(text, f, i)[FALSE] = Found(FALSE)
  <2>. HIDE DEF Found
  <2>. QED BY <1>3
<1>5. ASSUME i = Len(text) + 1
      PROVE  Scanning(text, f, i) = [in_string \in BOOLEAN |-> FALSE]
  <2>1. i > Len(text) /\ ~(i <= Len(text)) /\ ~(i < Len(text))
    BY <1>1, <1>5
  <2>2. Found(TRUE) = FALSE
    BY <2>1
  <2>3. Found(FALSE) = FALSE
    BY <2>1
  <2>. HIDE DEF Found
  <2>. QED BY <1>3, <2>2, <2>3
<1>6. ASSUME i <= Len(text), text[i] # Quote
      PROVE  Scanning(text, f, i)[FALSE] = f[i + 1][FALSE]
  <2>1. ~(i > Len(text))
    BY <1>1, <1>6
  <2>2. (text[i] = Quote) = FALSE
    BY <1>6
  <2>. QED BY <1>4, <1>6, <2>1, <2>2
<1>7. ASSUME i <= Len(text), text[i] = Quote
      PROVE  Scanning(text, f, i)[FALSE] = f[i + 1][TRUE]
  <2>1. ~(i > Len(text))
    BY <1>1, <1>7
  <2>2. (text[i] = Quote) = TRUE
    BY <1>7
  <2>. QED BY <1>4, <1>7, <2>1, <2>2
<1>8. ASSUME i <= Len(text), text[i] \notin {Quote, Backslash}
      PROVE  Scanning(text, f, i)[TRUE] = f[i + 1][TRUE]
  <2>1. ~(i > Len(text))
    BY <1>1, <1>8
  <2>2. (text[i] # Quote) = TRUE
    BY <1>8
  <2>. QED BY <1>4, <1>8, <2>1, <2>2
<1>9. ASSUME i <= Len(text), text[i] = Quote
      PROVE  Scanning(text, f, i)[TRUE] = f[i + 1][FALSE]
  <2>1. ~(i > Len(text))
    BY <1>1, <1>9
  <2>2. (text[i] # Quote) = FALSE
    BY <1>9
  <2>. QED BY <1>2, <1>4, <1>9, <2>1, <2>2
<1>10. ASSUME i < Len(text), text[i] = Backslash
       PROVE  /\ UnicodeEscape(text, i) /\ Lone(text, i) => Scanning(text, f, i)[TRUE] = TRUE
              /\ ~(UnicodeEscape(text, i) /\ Lone(text, i)) =>
                    Scanning(text, f, i)[TRUE] = f[i + Skip(text, i)][TRUE]
  <2>1. ~(i > Len(text)) /\ i <= Len(text)
    BY <1>1, <1>10
  <2>. QED BY <1>4, <1>10, <2>1
<1>. QED BY <1>5, <1>6, <1>7, <1>8, <1>9, <1>10

\* The same, of a function that is the scan.
LEMMA ScanStep ==
    ASSUME NEW text \in Seq(Alphabet), NEW g, NEW p \in 1..Len(text),
           g[p] = Scanning(text, g, p)
    PROVE  /\ text[p] # Quote => g[p][FALSE] = g[p + 1][FALSE]
           /\ text[p] = Quote => g[p][FALSE] = g[p + 1][TRUE]
           /\ text[p] \notin {Quote, Backslash} => g[p][TRUE] = g[p + 1][TRUE]
           /\ text[p] = Quote => g[p][TRUE] = g[p + 1][FALSE]
           /\ p < Len(text) /\ text[p] = Backslash =>
                /\ UnicodeEscape(text, p) /\ Lone(text, p) => g[p][TRUE] = TRUE
                /\ ~(UnicodeEscape(text, p) /\ Lone(text, p)) =>
                        g[p][TRUE] = g[p + Skip(text, p)][TRUE]
<1>1. Len(text) \in Nat
  OBVIOUS
<1>2. p \in 1..(Len(text) + 1) /\ p <= Len(text)
  BY <1>1
<1>. DEFINE found == Scanning(text, g, p)
<1>3. /\ text[p] # Quote => found[FALSE] = g[p + 1][FALSE]
      /\ text[p] = Quote => found[FALSE] = g[p + 1][TRUE]
      /\ text[p] \notin {Quote, Backslash} => found[TRUE] = g[p + 1][TRUE]
      /\ text[p] = Quote => found[TRUE] = g[p + 1][FALSE]
  BY <1>2, ScanningCases
<1>4. p < Len(text) /\ text[p] = Backslash =>
        /\ UnicodeEscape(text, p) /\ Lone(text, p) => found[TRUE] = TRUE
        /\ ~(UnicodeEscape(text, p) /\ Lone(text, p)) =>
                found[TRUE] = g[p + Skip(text, p)][TRUE]
  BY <1>2, ScanningCases
<1>5. g[p] = found
  OBVIOUS
<1>. HIDE DEF found
<1>. QED BY <1>3, <1>4, <1>5

\* At the end of a text, outside of a string, the scan has found nothing.
LEMMA ScanEnd ==
    ASSUME NEW text \in Seq(Alphabet), NEW g
    PROVE  Scanning(text, g, Len(text) + 1)[FALSE] = FALSE
<1>1. PICK p \in 1..(Len(text) + 1) : p = Len(text) + 1
  OBVIOUS
<1>2. Scanning(text, g, p) = [in_string \in BOOLEAN |-> FALSE]
  BY <1>1, ScanningCases
<1>. QED BY <1>1, <1>2

\* The scan goes on within the text.
LEMMA SkipStays ==
    ASSUME NEW text \in Seq(Alphabet), NEW i \in 1..Len(text), i < Len(text),
           Symbol(text, i) = Backslash, ~(UnicodeEscape(text, i) /\ Lone(text, i))
    PROVE  i + Skip(text, i) \in (i + 1)..(Len(text) + 1)
<1>1. Len(text) \in Nat
  OBVIOUS
<1>2. CASE Symbol(text, i + 1) # "u" \/ i + 5 > Len(text)
  BY <1>1, <1>2 DEF Skip
<1>3. CASE Symbol(text, i + 1) = "u" /\ i + 5 <= Len(text)
  <2>1. ~Lone(text, i)
    BY <1>3 DEF UnicodeEscape
  <2>2. CASE hex4(text, i + 2) = High
    <3>1. hex4(text, i + 8) = Low
      BY <2>1, <2>2 DEF Lone
    <3>2. Readable(text, i + 8)
      BY <3>1 DEF hex4, Low, Unreadable
    <3>3. i + 11 <= Len(text)
      BY <1>1, <3>2 DEF Readable
    <3>4. Skip(text, i) = 12
      BY <1>1, <1>3, <2>2 DEF Skip
    <3>. QED BY <1>1, <3>3, <3>4
  <2>3. CASE hex4(text, i + 2) # High
    <3>1. Skip(text, i) = 6
      BY <1>1, <1>3, <2>3 DEF Skip
    <3>. QED BY <1>1, <1>3, <3>1
  <2>. QED BY <2>2, <2>3
<1>. QED BY <1>1, <1>2, <1>3

\* A place is the last or before it.
LEMMA LastOrNot == \A n \in Nat : \A i \in 1..n : i = n \/ i < n
OBVIOUS

\* The scan at a place depends on what comes after it only.
LEMMA ScanningOnward ==
    ASSUME NEW text \in Seq(Alphabet), NEW f, NEW g, NEW i \in 1..(Len(text) + 1),
           \A k \in (i + 1)..(Len(text) + 1) : f[k] = g[k]
    PROVE  Scanning(text, f, i) = Scanning(text, g, i)
<1>1. Len(text) \in Nat /\ DOMAIN text = 1..Len(text)
  OBVIOUS
<1>2. CASE i = Len(text) + 1
  <2>1. Scanning(text, f, i) = [in_string \in BOOLEAN |-> FALSE]
    BY <1>2, ScanningCases
  <2>2. Scanning(text, g, i) = [in_string \in BOOLEAN |-> FALSE]
    BY <1>2, ScanningCases
  <2>. QED BY <2>1, <2>2
<1>3. CASE i \in 1..Len(text)
  <2>1. f[i + 1] = g[i + 1]
    BY <1>1, <1>3
  <2>2. ASSUME i < Len(text), text[i] = Backslash, ~(UnicodeEscape(text, i) /\ Lone(text, i))
        PROVE  f[i + Skip(text, i)] = g[i + Skip(text, i)]
    <3>1. i + Skip(text, i) \in (i + 1)..(Len(text) + 1)
      BY <1>1, <1>3, <2>2, SkipStays DEF Symbol
    <3>. QED BY <3>1
  <2>. DEFINE Found(h, in_string) ==
        CASE i > Len(text) \/ (i = Len(text) /\ in_string /\ text[i] = Backslash) -> FALSE
          [] i <= Len(text) /\ ~in_string -> h[i + 1][text[i] = Quote]
          [] i <= Len(text) /\ in_string /\ text[i] # Backslash ->
                h[i + 1][text[i] # Quote]
          [] OTHER ->
                IF UnicodeEscape(text, i) /\ Lone(text, i) THEN TRUE
                ELSE h[i + Skip(text, i)][TRUE]
  <2>3. ~(i > Len(text))
    BY <1>1, <1>3
  <2>4. \A h : Scanning(text, h, i) = [in_string \in BOOLEAN |-> Found(h, in_string)]
    BY DEF Scanning
  <2>5. Found(f, FALSE) = Found(g, FALSE)
    BY <2>1, <2>3, <1>3
  <2>6. Found(f, TRUE) = Found(g, TRUE)
    <3>1. CASE text[i] # Backslash
      BY <1>1, <1>3, <2>1, <3>1
    <3>2. CASE text[i] = Backslash /\ i = Len(text)
      BY <1>1, <3>2
    <3>3. CASE text[i] = Backslash /\ i < Len(text)
      <4>1. i # Len(text) /\ i <= Len(text)
        BY <1>1, <3>3
      <4>2. \A h : Found(h, TRUE) =
                IF UnicodeEscape(text, i) /\ Lone(text, i) THEN TRUE
                ELSE h[i + Skip(text, i)][TRUE]
        BY <2>3, <3>3, <4>1, Zenon
      <4>. HIDE DEF Found
      <4>3. CASE UnicodeEscape(text, i) /\ Lone(text, i)
        BY <4>2, <4>3, Zenon
      <4>4. CASE ~(UnicodeEscape(text, i) /\ Lone(text, i))
        BY <2>2, <3>3, <4>2, <4>4, Zenon
      <4>. QED BY <4>3, <4>4
    <3>. HIDE DEF Found
    <3>4. i = Len(text) \/ i < Len(text)
      BY <1>1, <1>3, LastOrNot
    <3>. QED BY <3>1, <3>2, <3>3, <3>4
  <2>. HIDE DEF Found
  <2>. QED BY <2>4, <2>5, <2>6
<1>. QED BY <1>1, <1>2, <1>3

\* So it is well defined, and finds what is found from the first symbol on,
\* outside a string.
LEMMA Scanner ==
    ASSUME NEW text \in Seq(Alphabet)
    PROVE  \E f : /\ has_lone_surrogate_escape(text) = f[1][FALSE]
                  /\ \A i \in 1..(Len(text) + 1) : f[i] = Scanning(text, f, i)
<1>. DEFINE n == Len(text)
            D == 1..(n + 1)
            Whole(f) == [i \in D |-> Scanning(text, f, i)]
            Known(f, k) == /\ f = [i \in D |-> f[i]]
                           /\ \A i \in D : i > n + 1 - k => f[i] = Scanning(text, f, i)
            S == {k \in Nat : k > n + 1 \/ \E f : Known(f, k)}
<1>1. n \in Nat
  OBVIOUS
<1>2. 0 \in S
  <2>. DEFINE f == [i \in D |-> 0]
  <2>1. Known(f, 0)
    BY <1>1
  <2>. HIDE DEF f, Known
  <2>. QED BY <2>1
<1>3. ASSUME NEW k \in Nat, k \in S PROVE k + 1 \in S
  <2>1. CASE k + 1 > n + 1
    BY <1>1, <2>1
  <2>2. CASE k <= n
    <3>1. PICK f : Known(f, k)
      BY <1>1, <1>3, <2>2
    <3>2. PICK j \in D : j = n + 1 - k
      BY <1>1, <2>2
    <3>. DEFINE g == [i \in D |-> IF i = j THEN Scanning(text, f, j) ELSE f[i]]
    <3>3. \A i \in D : g[i] = IF i = j THEN Scanning(text, f, j) ELSE f[i]
      OBVIOUS
    <3>4. g = [i \in D |-> g[i]]
      OBVIOUS
    <3>. HIDE DEF g
    <3>5. ASSUME NEW i \in D, i >= j PROVE Scanning(text, g, i) = Scanning(text, f, i)
      <4>1. \A x \in (i + 1)..(n + 1) : g[x] = f[x]
        BY <1>1, <3>3, <3>5
      <4>. QED BY <4>1, ScanningOnward
    <3>6. \A i \in D : i > j => f[i] = Scanning(text, f, i)
      BY <3>1, <3>2
    <3>7. \A i \in D : i > n + 1 - (k + 1) => g[i] = Scanning(text, g, i)
      BY <1>1, <3>2, <3>3, <3>5, <3>6
    <3>8. Known(g, k + 1)
      BY <3>4, <3>7
    <3>. HIDE DEF Known
    <3>. QED BY <3>8
  <2>. QED BY <1>1, <2>1, <2>2
<1>. HIDE DEF Known
<1>4. n + 1 \in S
  <2>. HIDE DEF S
  <2>1. Nat \subseteq S
    BY <1>2, <1>3, Induction
  <2>. QED BY <1>1, <2>1
<1>5. PICK f : Known(f, n + 1)
  BY <1>1, <1>4
<1>6. f = Whole(f)
  BY <1>1, <1>5 DEF Known
<1>. DEFINE from == CHOOSE h : h = Whole(h)
<1>7. from = Whole(from)
  BY <1>6
<1>8. has_lone_surrogate_escape(text) = from[1][FALSE]
  BY DEF has_lone_surrogate_escape, Scanning, Lone, Skip
<1>9. \A i \in D : from[i] = Scanning(text, from, i)
  <2>. HIDE DEF from
  <2>. QED BY <1>7
<1>. HIDE DEF from
<1>. QED BY <1>8, <1>9

----------------------------------------------------------------------------
(* Sequences one after the other *)

Joining(seqs, f, i) == IF i = 1 THEN seqs[i] ELSE f[i - 1] \o seqs[i]

\* FlattenSeq joins the sequences one by one.
LEMMA Joined ==
    ASSUME NEW seqs, Len(seqs) \in Nat \ {0}
    PROVE  \E f : /\ FlattenSeq(seqs) = f[Len(seqs)]
                  /\ \A i \in 1..Len(seqs) : f[i] = Joining(seqs, f, i)
<1>. DEFINE n == Len(seqs)
            D == 1..n
            Whole(f) == [i \in D |-> Joining(seqs, f, i)]
            Known(f, k) == /\ f = [i \in D |-> f[i]]
                           /\ \A i \in D : i <= k => f[i] = Joining(seqs, f, i)
            S == {k \in Nat : k > n \/ \E f : Known(f, k)}
<1>1. n \in Nat
  OBVIOUS
<1>2. 0 \in S
  <2>. DEFINE f == [i \in D |-> 0]
  <2>1. Known(f, 0)
    BY <1>1
  <2>. HIDE DEF f, Known
  <2>. QED BY <2>1
<1>3. ASSUME NEW k \in Nat, k \in S PROVE k + 1 \in S
  <2>1. CASE k + 1 > n
    BY <1>1, <2>1
  <2>2. CASE k + 1 <= n
    <3>1. PICK f : Known(f, k)
      BY <1>1, <1>3, <2>2
    <3>2. PICK j \in D : j = k + 1
      BY <1>1, <2>2
    <3>. DEFINE g == [i \in D |-> IF i = j THEN Joining(seqs, f, j) ELSE f[i]]
    <3>3. \A i \in D : g[i] = IF i = j THEN Joining(seqs, f, j) ELSE f[i]
      OBVIOUS
    <3>4. g = [i \in D |-> g[i]]
      OBVIOUS
    <3>. HIDE DEF g
    <3>5. ASSUME NEW i \in D, i <= j PROVE Joining(seqs, g, i) = Joining(seqs, f, i)
      <4>1. i # 1 => i - 1 \in D /\ i - 1 # j
        BY <1>1, <3>5
      <4>2. i # 1 => g[i - 1] = f[i - 1]
        BY <3>3, <4>1
      <4>. QED BY <4>2 DEF Joining
    <3>6. \A i \in D : i < j => f[i] = Joining(seqs, f, i)
      BY <3>1, <3>2
    <3>7. \A i \in D : i <= k + 1 => g[i] = Joining(seqs, g, i)
      BY <1>1, <3>2, <3>3, <3>5, <3>6
    <3>8. Known(g, k + 1)
      BY <3>4, <3>7
    <3>. HIDE DEF Known
    <3>. QED BY <3>8
  <2>. QED BY <1>1, <2>1, <2>2
<1>. HIDE DEF Known
<1>4. n \in S
  <2>. HIDE DEF S
  <2>1. Nat \subseteq S
    BY <1>2, <1>3, Induction
  <2>. QED BY <1>1, <2>1
<1>5. PICK f : Known(f, n)
  BY <1>1, <1>4
<1>6. f = Whole(f)
  BY <1>1, <1>5 DEF Known
<1>. DEFINE from == CHOOSE h : h = Whole(h)
<1>7. from = Whole(from)
  BY <1>6
<1>8. FlattenSeq(seqs) = from[n]
  BY DEF FlattenSeq, Joining
<1>9. \A i \in D : from[i] = Joining(seqs, from, i)
  <2>. HIDE DEF from
  <2>. QED BY <1>7
<1>. HIDE DEF from
<1>. QED BY <1>8, <1>9

\* What two sequences have, one after the other, and where.
LEMMA Concatenation ==
    \A S : \A s, u \in Seq(S) :
        /\ s \o u \in Seq(S)
        /\ Len(s \o u) = Len(s) + Len(u)
        /\ \A k \in 1..Len(s) : (s \o u)[k] = s[k]
        /\ \A k \in 1..Len(u) : (s \o u)[Len(s) + k] = u[k]
OBVIOUS

\* A sequence stands in another after place a, up to place b.
Placed(whole, part, a, b) ==
    /\ a \in Nat /\ b = a + Len(part) /\ b <= Len(whole)
    /\ \A k \in 1..Len(part) : whole[a + k] = part[k]

\* Where each of the sequences begins in what they are joined to.
LEMMA FlattenLayout ==
    ASSUME NEW S, NEW seqs \in Seq(Seq(S))
    PROVE  /\ FlattenSeq(seqs) \in Seq(S)
           /\ \E start :
                /\ start[1] = 0 /\ start[Len(seqs) + 1] = Len(FlattenSeq(seqs))
                /\ \A i \in 1..Len(seqs) :
                        Placed(FlattenSeq(seqs), seqs[i], start[i], start[i + 1])
<1>. DEFINE n == Len(seqs)
<1>1. n \in Nat /\ \A i \in 1..n : seqs[i] \in Seq(S)
  OBVIOUS
<1>2. CASE n = 0
  <2>1. FlattenSeq(seqs) = seqs /\ seqs = << >>
    BY <1>2 DEF FlattenSeq
  <2>. DEFINE start == [i \in {1} |-> 0]
  <2>2. start[1] = 0 /\ start[Len(seqs) + 1] = Len(FlattenSeq(seqs))
    BY <1>2, <2>1
  <2>3. << >> \in Seq(S)
    OBVIOUS
  <2>. HIDE DEF start
  <2>. QED BY <1>2, <2>1, <2>2, <2>3
<1>3. CASE n # 0
  <2>1. PICK f : /\ FlattenSeq(seqs) = f[n]
                 /\ \A i \in 1..n : f[i] = Joining(seqs, f, i)
    BY <1>1, <1>3, Joined
  <2>2. f[1] = seqs[1] /\ 1 \in 1..n
    BY <1>1, <1>3, <2>1 DEF Joining
  <2>3. \A j, m \in 1..n : m = j + 1 => f[m] = f[j] \o seqs[m]
    <3>1. \A j, m \in 1..n : m = j + 1 => m # 1 /\ m - 1 = j
      BY <1>1
    <3>. QED BY <2>1, <3>1 DEF Joining
  <2>4. \A j \in 1..n : f[j] \in Seq(S)
    <3>. DEFINE T == {j \in Nat : j \in 1..n => f[j] \in Seq(S)}
    <3>1. 0 \in T
      OBVIOUS
    <3>2. ASSUME NEW j \in Nat, j \in T PROVE j + 1 \in T
      <4>1. CASE j = 0
        BY <1>1, <2>2, <4>1
      <4>2. CASE j \in 1..n /\ j + 1 \in 1..n
        <5>1. PICK m \in 1..n : m = j + 1
          BY <4>2
        <5>2. f[m] = f[j] \o seqs[m]
          BY <2>3, <4>2, <5>1
        <5>3. f[j] \in Seq(S) /\ seqs[m] \in Seq(S)
          BY <1>1, <3>2, <4>2
        <5>4. f[m] \in Seq(S)
          BY <5>2, <5>3, Concatenation, Zenon
        <5>. QED BY <5>1, <5>4
      <4>. QED BY <1>1, <4>1, <4>2
    <3>3. Nat \subseteq T
      <4>. HIDE DEF T
      <4>. QED BY <3>1, <3>2, Induction
    <3>. QED BY <1>1, <3>3
  <2>. DEFINE before(i) == IF i = 1 THEN << >> ELSE f[i - 1]
              start == [i \in 1..(n + 1) |-> Len(before(i))]
  <2>5. ASSUME NEW i \in 1..n
        PROVE  /\ before(i) \in Seq(S)
               /\ f[i] = before(i) \o seqs[i]
               /\ before(i + 1) = f[i]
    <3>3. before(i + 1) = f[i]
      <4>1. i + 1 # 1 /\ i + 1 - 1 = i
        BY <1>1
      <4>. QED BY <4>1
    <3>1. CASE i = 1
      <4>1. << >> \o seqs[1] = seqs[1] /\ << >> \in Seq(S)
        BY <1>1, <3>1
      <4>. QED BY <2>2, <3>1, <3>3, <4>1
    <3>2. CASE i # 1
      <4>1. i - 1 \in 1..n
        BY <1>1, <3>2
      <4>2. PICK j \in 1..n : j = i - 1
        BY <4>1
      <4>3. i = j + 1
        BY <1>1, <4>2
      <4>4. f[i] = f[j] \o seqs[i] /\ f[j] \in Seq(S) /\ before(i) = f[j]
        BY <2>3, <2>4, <3>2, <4>2, <4>3
      <4>. QED BY <3>3, <4>4
    <3>. QED BY <3>1, <3>2
  <2>6. ASSUME NEW i \in 1..n
        PROVE  /\ Len(f[i]) <= Len(f[n])
               /\ \A k \in 1..Len(f[i]) : f[n][k] = f[i][k]
    <3>. DEFINE Q == {j \in Nat : j \in i..n =>
                        /\ Len(f[i]) <= Len(f[j])
                        /\ \A k \in 1..Len(f[i]) : f[j][k] = f[i][k]}
    <3>0. Len(f[i]) \in Nat
      BY <2>4
    <3>1. 0 \in Q
      OBVIOUS
    <3>2. ASSUME NEW j \in Nat, j \in Q PROVE j + 1 \in Q
      <4>1. CASE j + 1 = i
        BY <3>0, <4>1
      <4>2. CASE j \in i..n /\ j + 1 \in i..n
        <5>1. PICK m \in 1..n : m = j + 1
          <6>1. j + 1 \in 1..n
            BY <1>1, <4>2
          <6>. QED BY <6>1
        <5>0. j \in 1..n
          BY <1>1, <4>2
        <5>2. f[m] = f[j] \o seqs[m] /\ f[j] \in Seq(S) /\ seqs[m] \in Seq(S)
          BY <1>1, <2>3, <2>4, <5>0, <5>1
        <5>3. /\ Len(f[m]) = Len(f[j]) + Len(seqs[m])
              /\ \A k \in 1..Len(f[j]) : f[m][k] = f[j][k]
          <6>1. PICK s \in Seq(S) : s = f[j]
            BY <5>2
          <6>2. PICK u \in Seq(S) : u = seqs[m]
            BY <5>2
          <6>3. Len(s \o u) = Len(s) + Len(u) /\ \A k \in 1..Len(s) : (s \o u)[k] = s[k]
            BY Concatenation
          <6>. QED BY <5>2, <6>1, <6>2, <6>3, Zenon
        <5>4. Len(f[j]) \in Nat /\ Len(seqs[m]) \in Nat
          BY <5>2
        <5>5. Len(f[i]) <= Len(f[j]) /\ \A k \in 1..Len(f[i]) : f[j][k] = f[i][k]
          BY <3>2, <4>2
        <5>6. Len(f[i]) <= Len(f[m])
          <6>1. \A a, b, c \in Nat : a <= b => a <= b + c
            OBVIOUS
          <6>. QED BY <3>0, <5>3, <5>4, <5>5, <6>1
        <5>7. \A k \in 1..Len(f[i]) : f[m][k] = f[i][k]
          BY <3>0, <5>3, <5>4, <5>5
        <5>. QED BY <5>1, <5>6, <5>7
      <4>3. CASE j + 1 \notin i..n
        BY <4>3
      <4>. QED BY <1>1, <4>1, <4>2, <4>3
    <3>3. Nat \subseteq Q
      <4>. HIDE DEF Q
      <4>. QED BY <3>1, <3>2, Induction
    <3>. QED BY <1>1, <3>3
  <2>7. \A i \in 1..(n + 1) : start[i] = Len(before(i))
    OBVIOUS
  <2>. HIDE DEF start
  <2>8. start[1] = 0 /\ start[n + 1] = Len(f[n])
    <3>1. 1 \in 1..(n + 1) /\ n + 1 \in 1..(n + 1) /\ n \in 1..n
      BY <1>1, <1>3
    <3>2. before(1) = << >> /\ before(n + 1) = f[n]
      BY <2>5, <3>1
    <3>. QED BY <2>7, <3>1, <3>2
  <2>. HIDE DEF before
  <2>9. ASSUME NEW i \in 1..n
        PROVE  Placed(f[n], seqs[i], start[i], start[i + 1])
    <3>1. i \in 1..(n + 1) /\ i + 1 \in 1..(n + 1)
      BY <1>1
    <3>2. start[i] = Len(before(i)) /\ start[i + 1] = Len(f[i])
      BY <2>5, <2>7, <3>1
    <3>3. before(i) \in Seq(S) /\ seqs[i] \in Seq(S)
      BY <1>1, <2>5
    <3>4. /\ Len(f[i]) = Len(before(i)) + Len(seqs[i])
          /\ \A k \in 1..Len(seqs[i]) : f[i][Len(before(i)) + k] = seqs[i][k]
      <4>1. PICK s \in Seq(S) : s = before(i)
        BY <3>3
      <4>2. PICK u \in Seq(S) : u = seqs[i]
        BY <3>3
      <4>3. /\ Len(s \o u) = Len(s) + Len(u)
            /\ \A k \in 1..Len(u) : (s \o u)[Len(s) + k] = u[k]
        BY Concatenation
      <4>. QED BY <2>5, <4>1, <4>2, <4>3, Zenon
    <3>5. Len(before(i)) \in Nat /\ Len(seqs[i]) \in Nat
      BY <3>3
    <3>6. \A k \in 1..Len(seqs[i]) : start[i] + k \in 1..Len(f[i])
      BY <3>2, <3>4, <3>5
    <3>7. \A k \in 1..Len(seqs[i]) : f[n][start[i] + k] = seqs[i][k]
      BY <2>6, <3>2, <3>4, <3>6
    <3>. QED BY <2>6, <3>2, <3>4, <3>5, <3>7 DEF Placed
  <2>10. f[n] \in Seq(S)
    BY <1>1, <1>3, <2>4
  <2>. QED BY <2>1, <2>8, <2>9, <2>10
<1>. QED BY <1>2, <1>3

----------------------------------------------------------------------------
(* One string in a text, read and scanned *)

\* The string stands in the text after place o, and what follows it is not
\* taken for a part of an escape.
StandsIn(text, o, chars) ==
    /\ o \in Nat /\ o + Len(chars) <= Len(text)
    /\ \A k \in 1..Len(chars) : text[o + k] = chars[k]
    /\ Symbol(text, o + Len(chars) + 1) \notin {Backslash, "u"}

\* Four symbols of a sequence are what is there.
LEMMA FourOf ==
    ASSUME NEW S, NEW s \in Seq(S), NEW q \in Nat \ {0}, q + 3 <= Len(s)
    PROVE  SubSeq(s, q, q + 3) = [k \in 1..4 |-> s[q + k - 1]]
<1>. DEFINE sub == SubSeq(s, q, q + 3)
<1>1. \A k \in q..(q + 3) : s[k] \in S
  OBVIOUS
<1>2. /\ sub \in Seq(S) /\ Len(sub) = 4
      /\ \A k \in 1..4 : sub[k] = s[q + k - 1]
  OBVIOUS
<1>. HIDE DEF sub
<1>3. sub = [k \in 1..4 |-> sub[k]]
  BY <1>2
<1>. QED BY <1>2, <1>3 DEF sub

\* Digits of the string are digits of the text.
LEMMA SameDigits ==
    ASSUME NEW text \in Seq(Alphabet), NEW chars \in Seq(Alphabet), NEW o,
           StandsIn(text, o, chars), NEW j \in 1..Len(chars), j + 3 <= Len(chars)
    PROVE  hex4(text, o + j) = hex4(chars, j)
<1>1. Len(text) \in Nat /\ Len(chars) \in Nat
  OBVIOUS
<1>2. o \in Nat /\ o + Len(chars) <= Len(text) /\ \A k \in 1..Len(chars) : text[o + k] = chars[k]
  BY DEF StandsIn
<1>3. /\ text[o + j] = chars[j] /\ text[(o + j) + 1] = chars[j + 1]
      /\ text[(o + j) + 2] = chars[j + 2] /\ text[(o + j) + 3] = chars[j + 3]
  <2>1. \A k \in 0..3 : j + k \in 1..Len(chars) /\ o + (j + k) = (o + j) + k
    BY <1>1, <1>2
  <2>2. \A k \in 0..3 : text[(o + j) + k] = chars[j + k]
    BY <1>2, <2>1
  <2>. QED BY <1>2, <2>2
<1>4. Readable(text, o + j) <=> Readable(chars, j)
  <2>1. \A p \in Nat : \A k \in p..(p + 3) : k = p \/ k = p + 1 \/ k = p + 2 \/ k = p + 3
    OBVIOUS
  <2>2. \A p \in Nat : p \in p..(p + 3) /\ p + 1 \in p..(p + 3) /\ p + 2 \in p..(p + 3)
                       /\ p + 3 \in p..(p + 3)
    OBVIOUS
  <2>3. \A s : \A p \in Nat :
            (\A k \in p..(p + 3) : s[k] \in HexDigits)
                <=> /\ s[p] \in HexDigits /\ s[p + 1] \in HexDigits
                    /\ s[p + 2] \in HexDigits /\ s[p + 3] \in HexDigits
    BY <2>1, <2>2
  <2>4. PICK p \in Nat : p = o + j
    BY <1>1, <1>2
  <2>5. p + 3 <= Len(text)
    BY <1>1, <1>2, <2>4
  <2>6. /\ text[p] = chars[j] /\ text[p + 1] = chars[j + 1]
        /\ text[p + 2] = chars[j + 2] /\ text[p + 3] = chars[j + 3]
    BY <1>3, <2>4
  <2>7. /\ Readable(text, p) <=>
                /\ text[p] \in HexDigits /\ text[p + 1] \in HexDigits
                /\ text[p + 2] \in HexDigits /\ text[p + 3] \in HexDigits
        /\ Readable(chars, j) <=>
                /\ chars[j] \in HexDigits /\ chars[j + 1] \in HexDigits
                /\ chars[j + 2] \in HexDigits /\ chars[j + 3] \in HexDigits
    BY <2>3, <2>5, j \in Nat, Zenon DEF Readable
  <2>. QED BY <2>4, <2>6, <2>7
<1>5. SubSeq(text, o + j, (o + j) + 3) = SubSeq(chars, j, j + 3)
  <2>. DEFINE p == o + j
  <2>1. p \in Nat \ {0} /\ p + 3 <= Len(text)
    BY <1>1, <1>2
  <2>. HIDE DEF p
  <2>2. \A k \in 1..4 : text[p + k - 1] = chars[j + k - 1]
    <3>1. \A k \in 1..4 : j + k - 1 \in 1..Len(chars) /\ o + (j + k - 1) = p + k - 1
      BY <1>1, <1>2 DEF p
    <3>. QED BY <1>2, <3>1
  <2>3. SubSeq(text, p, p + 3) = [k \in 1..4 |-> text[p + k - 1]]
    BY <2>1, FourOf
  <2>4. SubSeq(chars, j, j + 3) = [k \in 1..4 |-> chars[j + k - 1]]
    BY FourOf
  <2>. QED BY <2>2, <2>3, <2>4 DEF p
<1>. QED BY <1>3, <1>4, <1>5 DEF hex4

\* An escape of the text that starts in the string is one of the string.
LEMMA SameEscape ==
    ASSUME NEW text \in Seq(Alphabet), NEW chars \in Seq(Alphabet), NEW o,
           StandsIn(text, o, chars), NEW j \in 1..(Len(chars) + 1)
    PROVE  UnicodeEscape(text, o + j) <=> UnicodeEscape(chars, j)
<1>. DEFINE m == Len(chars)
<1>1. Len(text) \in Nat /\ m \in Nat /\ DOMAIN text = 1..Len(text) /\ DOMAIN chars = 1..m
  OBVIOUS
<1>2. /\ o \in Nat /\ o + m <= Len(text) /\ \A k \in 1..m : text[o + k] = chars[k]
      /\ Symbol(text, o + m + 1) \notin {Backslash, "u"}
  BY DEF StandsIn
<1>3. End \notin {Backslash, "u"}
  BY DEF End, Backslash
<1>4. \A k \in 1..m : Symbol(text, o + k) = Symbol(chars, k)
  <2>1. \A k \in 1..m : o + k \in 1..Len(text)
    BY <1>1, <1>2
  <2>. QED BY <1>1, <1>2, <2>1 DEF Symbol
<1>5. Symbol(chars, m + 1) = End
  BY <1>1 DEF Symbol
<1>. HIDE DEF m
<1>6. (o + j) + 1 = o + (j + 1)
  BY <1>1, <1>2
<1>7. CASE j \in 1..m /\ j + 1 \in 1..m
  BY <1>4, <1>6, <1>7 DEF UnicodeEscape
<1>8. CASE j = m
  <2>1. Symbol(text, (o + j) + 1) # "u"
    BY <1>1, <1>2, <1>8
  <2>2. Symbol(chars, j + 1) # "u"
    BY <1>3, <1>5, <1>8
  <2>. QED BY <2>1, <2>2 DEF UnicodeEscape
<1>9. CASE j = m + 1
  <2>1. Symbol(text, o + j) # Backslash
    BY <1>1, <1>2, <1>9
  <2>2. Symbol(chars, j) # Backslash
    BY <1>3, <1>5, <1>9
  <2>. QED BY <2>1, <2>2 DEF UnicodeEscape
<1>10. j \in 1..(m + 1)
  BY DEF m
<1>. QED BY <1>1, <1>7, <1>8, <1>9, <1>10

\* The scan passes an escape as parse_string does, or finds what it refuses.
LEMMA EscapeScanned ==
    ASSUME NEW text \in Seq(Alphabet), NEW chars \in Seq(Alphabet), NEW o,
           StandsIn(text, o, chars), NEW g, NEW i \in 1..Len(chars), chars[i] = Backslash,
           g[o + i] = Scanning(text, g, o + i)
    PROVE  /\ Escaped(chars, i).error = "none" =>
                g[o + i][TRUE] = g[o + Escaped(chars, i).next][TRUE]
           /\ Escaped(chars, i).error = "LoneSurrogate" => g[o + i][TRUE] = TRUE
<1>. DEFINE m == Len(chars)
            n == Len(text)
            p == o + i
            letter == Symbol(chars, i + 1)
            code == hex4(chars, i + 2)
            escape == Escaped(chars, i)
            paired == UnicodeEscape(chars, i + 6) /\ hex4(chars, i + 8) = Low
<1>1. m \in Nat /\ n \in Nat /\ i \in 1..m
  OBVIOUS
<1>2. /\ o \in Nat /\ o + m <= n /\ \A k \in 1..m : text[o + k] = chars[k]
  BY DEF StandsIn
<1>3. p \in 1..n /\ text[p] = Backslash
  BY <1>1, <1>2
<1>4. Low # High
  BY DEF Low, High
<1>5. /\ escape.error = "none" =>
            \/ letter # "u" /\ i + 1 <= m /\ escape.next = i + 2
            \/ /\ letter = "u" /\ i + 5 <= m /\ code \notin {High, Low}
               /\ escape.next = i + 6
            \/ /\ letter = "u" /\ code = High
               /\ UnicodeEscape(chars, i + 6) /\ hex4(chars, i + 8) = Low
               /\ i + 11 <= m /\ escape.next = i + 12
      /\ escape.error = "LoneSurrogate" =>
            /\ letter = "u" /\ i + 5 <= m
            /\ \/ code = Low
               \/ code = High /\ ~UnicodeEscape(chars, i + 6)
               \/ /\ code = High /\ UnicodeEscape(chars, i + 6)
                  /\ i + 11 <= m /\ hex4(chars, i + 8) # Low
  BY EscapeFacts, Zenon
<1>6. Symbol(chars, i) = Backslash
  BY <1>1 DEF Symbol
<1>7. UnicodeEscape(text, p) <=> letter = "u"
  <2>1. i \in 1..(m + 1)
    BY <1>1
  <2>2. UnicodeEscape(text, p) <=> UnicodeEscape(chars, i)
    BY <2>1, SameEscape
  <2>. QED BY <1>6, <2>2 DEF UnicodeEscape
<1>8. i + 1 <= m => p < n /\ Symbol(text, p + 1) = letter
  <2>1. ASSUME i + 1 <= m PROVE p < n /\ p + 1 \in 1..n /\ i + 1 \in 1..m /\ p + 1 = o + (i + 1)
    BY <1>1, <1>2, <2>1
  <2>. QED BY <1>2, <2>1 DEF Symbol
<1>9. i + 5 <= m => /\ hex4(text, p + 2) = code
                    /\ ~(p + 5 > n)
                    /\ UnicodeEscape(text, p + 6) <=> UnicodeEscape(chars, i + 6)
  <2>1. ASSUME i + 5 <= m
        PROVE  /\ i + 2 \in 1..m /\ (i + 2) + 3 <= m /\ p + 2 = o + (i + 2)
               /\ i + 6 \in 1..(m + 1) /\ p + 6 = o + (i + 6) /\ ~(p + 5 > n)
    <3>1. i + 2 \in 1..m /\ (i + 2) + 3 <= m /\ i + 6 \in 1..(m + 1)
      BY <1>1, <2>1
    <3>2. ~(p + 5 > n)
      BY <1>1, <1>2, <2>1
    <3>3. p + 2 = o + (i + 2) /\ p + 6 = o + (i + 6)
      BY <1>1, <1>2
    <3>. QED BY <3>1, <3>2, <3>3
  <2>2. ASSUME i + 5 <= m PROVE hex4(text, o + (i + 2)) = hex4(chars, i + 2)
    BY <2>1, <2>2, SameDigits
  <2>3. ASSUME i + 5 <= m
        PROVE  UnicodeEscape(text, o + (i + 6)) <=> UnicodeEscape(chars, i + 6)
    BY <2>1, <2>3, SameEscape
  <2>. QED BY <2>1, <2>2, <2>3
<1>10. i + 11 <= m => hex4(text, p + 8) = hex4(chars, i + 8)
  <2>1. ASSUME i + 11 <= m
        PROVE  i + 8 \in 1..m /\ (i + 8) + 3 <= m /\ p + 8 = o + (i + 8)
    BY <1>1, <1>2, <2>1
  <2>2. ASSUME i + 11 <= m PROVE hex4(text, o + (i + 8)) = hex4(chars, i + 8)
    BY <2>1, <2>2, SameDigits
  <2>. QED BY <2>1, <2>2
<1>11. p < n =>
        /\ UnicodeEscape(text, p) /\ Lone(text, p) => g[p][TRUE] = TRUE
        /\ ~(UnicodeEscape(text, p) /\ Lone(text, p)) =>
                g[p][TRUE] = g[p + Skip(text, p)][TRUE]
  <2>1. g[p] = Scanning(text, g, p)
    OBVIOUS
  <2>. HIDE DEF p
  <2>. QED BY <1>3, <2>1, ScanStep
<1>12. i + 5 <= m => i + 1 <= m
  BY <1>1
<1>13. i + 11 <= m => i + 5 <= m
  BY <1>1
<1>14. p + 2 = o + (i + 2) /\ p + 6 = o + (i + 6) /\ p + 12 = o + (i + 12)
  BY <1>1, <1>2
<1>. HIDE DEF m, n, p, letter, code, escape
<1>15. ASSUME escape.error = "none" PROVE g[p][TRUE] = g[o + escape.next][TRUE]
  <2>1. CASE letter # "u" /\ i + 1 <= m /\ escape.next = i + 2
    <3>1. Skip(text, p) = 2
      BY <1>8, <2>1 DEF Skip
    <3>. QED BY <1>7, <1>8, <1>11, <1>14, <2>1, <3>1
  <2>2. CASE letter = "u" /\ i + 5 <= m /\ code \notin {High, Low} /\ escape.next = i + 6
    <3>1. Skip(text, p) = 6
      BY <1>8, <1>9, <1>12, <2>2 DEF Skip, n
    <3>2. ~Lone(text, p)
      BY <1>9, <2>2 DEF Lone
    <3>. QED BY <1>8, <1>11, <1>12, <1>14, <2>2, <3>1, <3>2
  <2>3. CASE /\ letter = "u" /\ code = High
             /\ UnicodeEscape(chars, i + 6) /\ hex4(chars, i + 8) = Low
             /\ i + 11 <= m /\ escape.next = i + 12
    <3>1. Skip(text, p) = 12
      BY <1>8, <1>9, <1>12, <1>13, <2>3 DEF Skip, n
    <3>2. ~Lone(text, p)
      BY <1>4, <1>9, <1>10, <1>13, <2>3 DEF Lone
    <3>. QED BY <1>8, <1>11, <1>12, <1>13, <1>14, <2>3, <3>1, <3>2
  <2>. QED BY <1>5, <1>15, <2>1, <2>2, <2>3
<1>16. ASSUME escape.error = "LoneSurrogate" PROVE g[p][TRUE] = TRUE
  <2>1. UnicodeEscape(text, p) /\ p < n
    BY <1>5, <1>7, <1>8, <1>12, <1>16
  <2>2. Lone(text, p)
    <3>1. CASE code = Low
      BY <1>4, <1>5, <1>9, <1>16, <3>1 DEF Lone
    <3>2. CASE code = High
      <4>1. ~(UnicodeEscape(text, p + 6) /\ hex4(text, p + 8) = Low)
        BY <1>4, <1>5, <1>9, <1>10, <1>16, <3>2
      <4>. QED BY <1>4, <1>5, <1>9, <1>16, <3>2, <4>1 DEF Lone
    <3>. QED BY <1>5, <1>16, <3>1, <3>2
  <2>. QED BY <1>11, <2>1, <2>2
<1>. QED BY <1>15, <1>16 DEF p, escape

\* From place i of a string on, what is read agrees with what is found: the
\* string ends for both at one place, or the scan finds the surrogate.
Agree(f, g, o, i) ==
    /\ IsReadingResult(f[i])
    /\ f[i].error = "none" => g[o + i][TRUE] = g[o + f[i].next][FALSE]
    /\ f[i].error = "LoneSurrogate" => g[o + i][TRUE] = TRUE

\* A symbol read, and skipped, takes the agreement over from the next place.
LEMMA AgreeFromNext ==
    ASSUME NEW f, NEW g, NEW o, NEW i, NEW j, NEW out, Agree(f, g, o, j),
           f[i] = [f[j] EXCEPT !.out = out \o @], g[o + i][TRUE] = g[o + j][TRUE]
    PROVE  Agree(f, g, o, i)
<1>1. f[j] = [error |-> f[j].error, out |-> f[j].out, next |-> f[j].next]
  BY DEF Agree, IsReadingResult
<1>2. f[i] = [error |-> f[j].error, out |-> out \o f[j].out, next |-> f[j].next]
  BY <1>1
<1>3. IsReadingResult(f[i]) /\ f[i].error = f[j].error /\ f[i].next = f[j].next
  BY <1>2 DEF IsReadingResult
<1>. QED BY <1>3, Zenon DEF Agree

\* Reading and scan agree at a place if they agree everywhere after it.
LEMMA AgreeHere ==
    ASSUME NEW text \in Seq(Alphabet), NEW chars \in Seq(Alphabet), NEW o,
           StandsIn(text, o, chars), NEW f, NEW g, NEW i \in 1..(Len(chars) + 1),
           f[i] = Reading(chars, f, i),
           \A k \in 1..Len(text) : g[k] = Scanning(text, g, k),
           \A j \in (i + 1)..(Len(chars) + 1) : Agree(f, g, o, j)
    PROVE  Agree(f, g, o, i)
<1>. DEFINE m == Len(chars)
            p == o + i
            symbol == Symbol(chars, i)
            escape == Escaped(chars, i)
<1>1. m \in Nat /\ Len(text) \in Nat /\ DOMAIN chars = 1..m
  OBVIOUS
<1>2. o \in Nat /\ o + m <= Len(text) /\ \A k \in 1..m : text[o + k] = chars[k]
  BY DEF StandsIn
<1>3. f[i] = CASE symbol \in {End, Control} -> Failure("Malformed")
               [] symbol = Quote -> Decoded(<< >>, i + 1)
               [] symbol = Backslash ->
                    IF escape.error # "none" THEN escape
                    ELSE [f[escape.next] EXCEPT !.out = escape.out \o @]
               [] OTHER -> [f[i + 1] EXCEPT !.out = <<chars[i]>> \o @]
  BY DEF Reading
<1>4. /\ Quote \notin {End, Control, Backslash} /\ Backslash \notin {End, Control}
  BY DEF Quote, Backslash, Control, End
<1>5. \A j \in (i + 1)..(m + 1) : Agree(f, g, o, j)
  OBVIOUS
<1>6. p + 1 = o + (i + 1)
  BY <1>1, <1>2
<1>. HIDE DEF symbol, escape
<1>7. CASE symbol \in {End, Control}
  <2>1. f[i] = Failure("Malformed")
    BY <1>3, <1>4, <1>7
  <2>2. IsReadingResult(f[i]) /\ f[i].error = "Malformed"
    BY <2>1 DEF Failure, IsReadingResult
  <2>. QED BY <2>2 DEF Agree
<1>8. CASE symbol \notin {End, Control}
  <2>1. i \in 1..m /\ chars[i] = symbol
    BY <1>1, <1>8 DEF symbol, Symbol
  <2>2. p \in 1..Len(text) /\ text[p] = symbol
    BY <1>1, <1>2, <2>1
  <2>3. g[p] = Scanning(text, g, p)
    BY <2>2
  <2>4. i + 1 \in (i + 1)..(m + 1)
    BY <1>1, <2>1
  <2>5. p \in 1..(Len(text) + 1) /\ p <= Len(text)
    BY <1>1, <2>2
  <2>. HIDE DEF p
  <2>6. /\ symbol \notin {Quote, Backslash} => g[p][TRUE] = g[p + 1][TRUE]
        /\ symbol = Quote => g[p][TRUE] = g[p + 1][FALSE]
    <3>1. /\ text[p] \notin {Quote, Backslash} => g[p][TRUE] = g[p + 1][TRUE]
          /\ text[p] = Quote => g[p][TRUE] = g[p + 1][FALSE]
      BY <2>2, <2>3, ScanStep, Zenon
    <3>. QED BY <2>2, <3>1
  <2>7. CASE symbol = Quote
    <3>1. f[i] = Decoded(<< >>, i + 1)
      BY <1>3, <1>4, <2>7
    <3>2. IsReadingResult(f[i]) /\ f[i].error = "none" /\ f[i].next = i + 1
      BY <3>1 DEF Decoded, IsReadingResult
    <3>. QED BY <1>6, <2>6, <2>7, <3>2 DEF Agree, p
  <2>8. CASE symbol = Backslash
    <3>1. f[i] = IF escape.error # "none" THEN escape
                 ELSE [f[escape.next] EXCEPT !.out = escape.out \o @]
      BY <1>3, <1>4, <2>8
    <3>2. /\ escape.error = "none" => g[p][TRUE] = g[o + escape.next][TRUE]
          /\ escape.error = "LoneSurrogate" => g[p][TRUE] = TRUE
      <4>1. chars[i] = Backslash /\ g[o + i] = Scanning(text, g, o + i)
        BY <2>1, <2>3, <2>8 DEF p
      <4>. QED BY <2>1, <4>1, EscapeScanned, Zenon DEF p, escape
    <3>3. /\ IsReadingResult(escape)
          /\ escape.error = "none" => escape.next \in (i + 1)..(m + 1)
      <4>1. /\ IsReadingResult(escape)
            /\ escape.error = "none" =>
                    \/ i + 1 <= m /\ escape.next = i + 2
                    \/ i + 5 <= m /\ escape.next = i + 6
                    \/ i + 11 <= m /\ escape.next = i + 12
        BY <2>1, EscapeFacts, Zenon DEF escape
      <4>. QED BY <1>1, <4>1
    <3>4. CASE escape.error # "none"
      BY <3>1, <3>2, <3>3, <3>4 DEF Agree, p
    <3>5. CASE escape.error = "none"
      <4>1. Agree(f, g, o, escape.next)
        BY <1>5, <3>3, <3>5
      <4>2. f[i] = [f[escape.next] EXCEPT !.out = escape.out \o @]
        BY <3>1, <3>5
      <4>3. g[o + i][TRUE] = g[o + escape.next][TRUE]
        BY <3>2, <3>5 DEF p
      <4>. QED BY <4>1, <4>2, <4>3, AgreeFromNext
    <3>. QED BY <3>4, <3>5
  <2>9. CASE symbol \notin {Quote, Backslash}
    <3>1. f[i] = [f[i + 1] EXCEPT !.out = <<chars[i]>> \o @]
      BY <1>3, <1>8, <2>9
    <3>2. Agree(f, g, o, i + 1)
      BY <1>5, <2>4
    <3>3. g[o + i][TRUE] = g[o + (i + 1)][TRUE]
      BY <1>6, <2>6, <2>9 DEF p
    <3>. QED BY <3>1, <3>2, <3>3, AgreeFromNext
  <2>. QED BY <2>7, <2>8, <2>9
<1>. QED BY <1>7, <1>8

\* So they agree on the string: when it is read to its end, the scan goes on
\* behind it, and the surrogate that parse_string refuses is found.
LEMMA StringScanned ==
    ASSUME NEW text \in Seq(Alphabet), NEW chars \in Seq(Alphabet), NEW o,
           StandsIn(text, o, chars), NEW g,
           \A k \in 1..Len(text) : g[k] = Scanning(text, g, k)
    PROVE  LET read == parse_string(chars)
           IN  /\ read.error = "none" => g[o + 1][TRUE] = g[o + read.next][FALSE]
               /\ read.error = "LoneSurrogate" => g[o + 1][TRUE] = TRUE
<1>. DEFINE m == Len(chars)
<1>1. m \in Nat
  OBVIOUS
<1>2. PICK f : /\ parse_string(chars) = f[1]
               /\ \A i \in 1..(Len(chars) + 1) : f[i] = Reading(chars, f, i)
  BY Reader
<1>. DEFINE S == {k \in Nat : \A j \in 1..(m + 1) : j > m + 1 - k => Agree(f, g, o, j)}
<1>3. 0 \in S
  BY <1>1
<1>4. ASSUME NEW k \in Nat, k \in S PROVE k + 1 \in S
  <2>1. ASSUME NEW i \in 1..(m + 1), i > m + 1 - (k + 1) PROVE Agree(f, g, o, i)
    <3>1. \A j \in (i + 1)..(m + 1) : j \in 1..(m + 1) /\ j > m + 1 - k
      BY <1>1, <2>1
    <3>2. \A j \in (i + 1)..(m + 1) : Agree(f, g, o, j)
      BY <1>4, <3>1
    <3>3. f[i] = Reading(chars, f, i)
      BY <1>2
    <3>. QED BY <3>2, <3>3, AgreeHere
  <2>. QED BY <2>1
<1>5. m + 1 \in S
  <2>. HIDE DEF S
  <2>1. Nat \subseteq S
    BY <1>3, <1>4, Induction
  <2>. QED BY <1>1, <2>1
<1>6. Agree(f, g, o, 1)
  BY <1>1, <1>5
<1>. QED BY <1>2, <1>6, Zenon DEF Agree

----------------------------------------------------------------------------
(* A text, read and scanned *)

\* The symbols of token i.
Spelled(t, i) ==
    IF t[i].kind = "string" THEN <<Quote>> \o t[i].chars ELSE <<t[i].kind>>

\* No kind of token is a symbol that strings are delimited or escaped with.
LEMMA KindFacts ==
    /\ Kinds \subseteq Alphabet /\ Quote \in Alphabet /\ STRING \subseteq Alphabet
    /\ Kinds \cap {Quote, Backslash, "u"} = {}
<1>1. Quote \notin Kinds
  BY DEF Kinds, Opening, Closing, Quote
<1>2. Backslash \notin Kinds
  BY DEF Kinds, Opening, Closing, Backslash
<1>3. "u" \notin Kinds
  BY DEF Kinds, Opening, Closing
<1>. QED BY <1>1, <1>2, <1>3 DEF Alphabet

\* A sequence over a set is one over any larger set.
LEMMA LargerSet == \A S, T : S \subseteq T => \A s \in Seq(S) : s \in Seq(T)
<1> SUFFICES ASSUME NEW S, NEW T, S \subseteq T, NEW s \in Seq(S) PROVE s \in Seq(T)
  OBVIOUS
<1>1. Len(s) \in Nat /\ s \in [1..Len(s) -> T]
  OBVIOUS
<1>. QED BY <1>1

\* The symbols of a token: a quote and those of the string, or its kind.
LEMMA TokenFacts ==
    ASSUME NEW t \in Seq(Tokens), NEW i \in 1..Len(t)
    PROVE  /\ t[i].kind \in Kinds /\ t[i].chars \in Seq(Alphabet)
           /\ Spelled(t, i) \in Seq(Alphabet)
           /\ t[i].kind = "string" =>
                /\ Len(Spelled(t, i)) = Len(t[i].chars) + 1
                /\ Spelled(t, i)[1] = Quote
                /\ \A k \in 1..Len(t[i].chars) : Spelled(t, i)[k + 1] = t[i].chars[k]
           /\ t[i].kind # "string" =>
                Len(Spelled(t, i)) = 1 /\ Spelled(t, i)[1] = t[i].kind
           /\ Kinds \cap {Quote, Backslash, "u"} = {}
<1>1. t[i] \in Tokens
  OBVIOUS
<1>2. t[i].kind \in Kinds /\ t[i].chars \in Seq(Alphabet)
  <2>1. t[i].kind \in Kinds /\ t[i].chars \in Seq(STRING)
    BY <1>1 DEF Tokens
  <2>2. \A s \in Seq(STRING) : s \in Seq(Alphabet)
    BY KindFacts, LargerSet, Zenon
  <2>. QED BY <2>1, <2>2
<1>3. Kinds \subseteq Alphabet /\ Kinds \cap {Quote, Backslash, "u"} = {} /\ Quote \in Alphabet
  BY KindFacts
<1>4. PICK chars \in Seq(Alphabet) : chars = t[i].chars
  BY <1>2
<1>5. /\ <<Quote>> \o chars \in Seq(Alphabet)
      /\ Len(<<Quote>> \o chars) = Len(chars) + 1
      /\ (<<Quote>> \o chars)[1] = Quote
      /\ \A k \in 1..Len(chars) : (<<Quote>> \o chars)[k + 1] = chars[k]
  <2>1. <<Quote>> \in Seq(Alphabet)
    BY <1>3
  <2>. QED BY <2>1
<1>6. CASE t[i].kind = "string"
  <2>1. Spelled(t, i) = <<Quote>> \o chars
    BY <1>4, <1>6 DEF Spelled
  <2>. QED BY <1>2, <1>3, <1>4, <1>5, <1>6, <2>1
<1>7. CASE t[i].kind # "string"
  <2>1. Spelled(t, i) = <<t[i].kind>>
    BY <1>7 DEF Spelled
  <2>2. <<t[i].kind>> \in Seq(Alphabet)
    <3>1. PICK kind \in Alphabet : kind = t[i].kind
      BY <1>2, <1>3
    <3>. QED BY <3>1
  <2>. QED BY <1>2, <1>3, <1>7, <2>1, <2>2
<1>. QED BY <1>6, <1>7

\* Where each token begins in the symbols of a text.
LEMMA SymbolsLayout ==
    ASSUME NEW t \in Seq(Tokens)
    PROVE  /\ Symbols(t) \in Seq(Alphabet)
           /\ \E start :
                /\ start[1] = 0 /\ start[Len(t) + 1] = Len(Symbols(t))
                /\ \A i \in 1..Len(t) :
                        Placed(Symbols(t), Spelled(t, i), start[i], start[i + 1])
<1>. DEFINE seqs == [i \in DOMAIN t |-> Spelled(t, i)]
<1>1. DOMAIN t = 1..Len(t) /\ Len(t) \in Nat
  OBVIOUS
<1>2. \A i \in 1..Len(t) : Spelled(t, i) \in Seq(Alphabet)
  BY TokenFacts
<1>3. \A i \in 1..Len(t) : seqs[i] = Spelled(t, i)
  BY <1>1
<1>4. seqs \in Seq(Seq(Alphabet)) /\ Len(seqs) = Len(t)
  <2>1. seqs \in [1..Len(t) -> Seq(Alphabet)]
    BY <1>1, <1>2
  <2>. HIDE DEF seqs
  <2>. QED BY <1>1, <2>1
<1>5. Symbols(t) = FlattenSeq(seqs)
  BY DEF Symbols, Spelled
<1>. HIDE DEF seqs
<1>6. FlattenSeq(seqs) \in Seq(Alphabet)
  BY <1>4, FlattenLayout
<1>7. PICK start :
        /\ start[1] = 0 /\ start[Len(seqs) + 1] = Len(FlattenSeq(seqs))
        /\ \A i \in 1..Len(seqs) : Placed(FlattenSeq(seqs), seqs[i], start[i], start[i + 1])
  BY <1>4, FlattenLayout
<1>8. \A i \in 1..Len(t) : Placed(Symbols(t), Spelled(t, i), start[i], start[i + 1])
  BY <1>3, <1>4, <1>5, <1>7
<1>9. start[1] = 0 /\ start[Len(t) + 1] = Len(Symbols(t))
  BY <1>4, <1>5, <1>7
<1>. QED BY <1>5, <1>6, <1>8, <1>9

\* Where a placed sequence begins.
LEMMA PlacedFirst ==
    ASSUME NEW S, NEW text \in Seq(S), NEW s, NEW a, NEW b, Placed(text, s, a, b),
           Len(s) \in Nat \ {0}
    PROVE  a + 1 \in 1..Len(text) /\ text[a + 1] = s[1]
BY DEF Placed

\* A string token that is placed in a text stands there after its quote.
LEMMA PlacedString ==
    ASSUME NEW text \in Seq(Alphabet), NEW s, NEW a, NEW b, Placed(text, s, a, b),
           NEW chars \in Seq(Alphabet), Len(s) = Len(chars) + 1,
           \A k \in 1..Len(chars) : s[k + 1] = chars[k],
           Symbol(text, b + 1) \notin {Backslash, "u"}
    PROVE  /\ StandsIn(text, a + 1, chars)
           /\ (a + 1) + (Len(chars) + 1) = b + 1
<1>1. Len(chars) \in Nat
  OBVIOUS
<1>2. /\ a \in Nat /\ b = a + (Len(chars) + 1) /\ b <= Len(text)
      /\ \A k \in 1..(Len(chars) + 1) : text[a + k] = s[k]
  BY DEF Placed
<1>3. ASSUME NEW k \in 1..Len(chars) PROVE text[(a + 1) + k] = chars[k]
  <2>1. PICK j \in 1..(Len(chars) + 1) : j = k + 1
    BY <1>1
  <2>2. a + j = (a + 1) + k
    BY <1>2, <2>1
  <2>3. text[a + j] = s[j] /\ s[j] = chars[k]
    BY <1>2, <2>1
  <2>. QED BY <2>2, <2>3
<1>4. /\ a + 1 \in Nat /\ (a + 1) + Len(chars) = b
      /\ (a + 1) + (Len(chars) + 1) = b + 1
  BY <1>1, <1>2
<1>. QED BY <1>2, <1>3, <1>4 DEF StandsIn

\* Token i, if it is a string, can be read.
Sound(t, i) == Kind(t, i) = "string" => Says(t, i).error = "none"

\* Behind a token without a fault the scan goes on outside of strings, and in
\* a string with a lone surrogate it finds one.
LEMMA TokenScanned ==
    ASSUME NEW t \in Seq(Tokens), Delimited(t), NEW start, NEW g,
           start[Len(t) + 1] = Len(Symbols(t)),
           \A i \in 1..Len(t) : Placed(Symbols(t), Spelled(t, i), start[i], start[i + 1]),
           \A k \in 1..Len(Symbols(t)) : g[k] = Scanning(Symbols(t), g, k),
           NEW i \in 1..Len(t)
    PROVE  /\ Sound(t, i) => g[start[i] + 1][FALSE] = g[start[i + 1] + 1][FALSE]
           /\ Kind(t, i) = "string" /\ Says(t, i).error = "LoneSurrogate" =>
                g[start[i] + 1][FALSE] = TRUE
<1>. DEFINE text == Symbols(t)
            chars == t[i].chars
            a == start[i]
            b == start[i + 1]
<1>1. text \in Seq(Alphabet)
  BY SymbolsLayout
<1>2. Placed(text, Spelled(t, i), a, b)
  OBVIOUS
<1>3. \A k \in 1..Len(text) : g[k] = Scanning(text, g, k)
  OBVIOUS
<1>4. /\ t[i].kind \in Kinds /\ chars \in Seq(Alphabet)
      /\ t[i].kind = "string" =>
            /\ Len(Spelled(t, i)) = Len(chars) + 1
            /\ Spelled(t, i)[1] = Quote
            /\ \A k \in 1..Len(chars) : Spelled(t, i)[k + 1] = chars[k]
      /\ t[i].kind # "string" => Len(Spelled(t, i)) = 1 /\ Spelled(t, i)[1] = t[i].kind
      /\ Kinds \cap {Quote, Backslash, "u"} = {}
  BY TokenFacts, Zenon
<1>5. i \in DOMAIN t /\ Kind(t, i) = t[i].kind
  BY DEF Kind
<1>6. Len(Spelled(t, i)) \in Nat \ {0} /\ Len(chars) \in Nat
  BY <1>4
<1>7. Symbol(text, b + 1) \notin {Backslash, "u"}
  <2>1. CASE i = Len(t)
    <3>1. b = Len(text)
      BY <2>1
    <3>2. b + 1 \notin DOMAIN text
      BY <1>1, <3>1
    <3>. QED BY <3>2 DEF Symbol, End, Backslash
  <2>2. CASE i # Len(t)
    <3>1. PICK j \in 1..Len(t) : j = i + 1
      BY <2>2
    <3>2. /\ t[j].kind \in Kinds /\ t[j].chars \in Seq(Alphabet)
          /\ t[j].kind = "string" =>
                Len(Spelled(t, j)) = Len(t[j].chars) + 1 /\ Spelled(t, j)[1] = Quote
          /\ t[j].kind # "string" => Len(Spelled(t, j)) = 1 /\ Spelled(t, j)[1] = t[j].kind
      BY TokenFacts, Zenon
    <3>3. Len(t[j].chars) \in Nat
      BY <3>2
    <3>4. Spelled(t, j)[1] \in Kinds \cup {Quote} /\ Len(Spelled(t, j)) \in Nat \ {0}
      BY <3>2, <3>3
    <3>5. Placed(text, Spelled(t, j), b, start[j + 1])
      BY <3>1
    <3>. HIDE DEF text, b
    <3>6. b + 1 \in 1..Len(text) /\ text[b + 1] = Spelled(t, j)[1]
      BY <1>1, <3>4, <3>5, PlacedFirst
    <3>7. Symbol(text, b + 1) = Spelled(t, j)[1]
      BY <1>1, <3>6 DEF Symbol
    <3>8. Backslash # Quote /\ "u" # Quote
      BY DEF Backslash, Quote
    <3>. QED BY <1>4, <3>4, <3>7, <3>8
  <2>. QED BY <2>1, <2>2
<1>. HIDE DEF text, chars, a, b
<1>8. a + 1 \in 1..Len(text) /\ text[a + 1] = Spelled(t, i)[1]
  BY <1>1, <1>2, <1>6, PlacedFirst
<1>9. /\ text[a + 1] # Quote => g[a + 1][FALSE] = g[(a + 1) + 1][FALSE]
      /\ text[a + 1] = Quote => g[a + 1][FALSE] = g[(a + 1) + 1][TRUE]
  <2>1. PICK p \in 1..Len(text) : p = a + 1
    BY <1>8
  <2>2. g[p] = Scanning(text, g, p)
    BY <1>3
  <2>3. /\ text[p] # Quote => g[p][FALSE] = g[p + 1][FALSE]
        /\ text[p] = Quote => g[p][FALSE] = g[p + 1][TRUE]
    BY <1>1, <2>2, ScanStep, Zenon
  <2>. QED BY <2>1, <2>3
<1>10. CASE t[i].kind # "string"
  <2>1. text[a + 1] # Quote
    BY <1>4, <1>8, <1>10
  <2>2. b = a + 1
    BY <1>2, <1>4, <1>10 DEF Placed
  <2>3. g[a + 1][FALSE] = g[b + 1][FALSE]
    BY <1>9, <2>1, <2>2
  <2>. QED BY <1>5, <1>10, <2>3 DEF a, b, Sound
<1>11. CASE t[i].kind = "string"
  <2>1. g[a + 1][FALSE] = g[(a + 1) + 1][TRUE]
    BY <1>4, <1>8, <1>9, <1>11
  <2>2. StandsIn(text, a + 1, chars) /\ (a + 1) + (Len(chars) + 1) = b + 1
    <3>1. PICK s : s = Spelled(t, i)
      OBVIOUS
    <3>2. /\ chars \in Seq(Alphabet) /\ Len(s) = Len(chars) + 1
          /\ \A k \in 1..Len(chars) : s[k + 1] = chars[k]
      BY <1>4, <1>11, <3>1
    <3>3. Placed(text, s, a, b)
      BY <1>2, <3>1
    <3>. QED BY <1>1, <1>7, <3>2, <3>3, PlacedString
  <2>3. Says(t, i) = parse_string(chars)
    BY DEF Says, chars
  <2>4. /\ Says(t, i).error = "none" => g[(a + 1) + 1][TRUE] = g[(a + 1) + Says(t, i).next][FALSE]
        /\ Says(t, i).error = "LoneSurrogate" => g[(a + 1) + 1][TRUE] = TRUE
    <3>1. chars \in Seq(Alphabet)
      BY <1>4
    <3>2. StandsIn(text, a + 1, chars)
      BY <2>2
    <3>3. /\ parse_string(chars).error = "none" =>
                g[(a + 1) + 1][TRUE] = g[(a + 1) + parse_string(chars).next][FALSE]
          /\ parse_string(chars).error = "LoneSurrogate" => g[(a + 1) + 1][TRUE] = TRUE
      BY <1>1, <1>3, <3>1, <3>2, StringScanned
    <3>. QED BY <2>3, <3>3
  <2>5. Says(t, i).error = "none" => Says(t, i).next = Len(chars) + 1
    BY <1>5, <1>11, Zenon DEF Delimited, chars
  <2>6. Says(t, i).error = "none" => g[a + 1][FALSE] = g[b + 1][FALSE]
    BY <2>1, <2>2, <2>4, <2>5
  <2>7. Says(t, i).error = "LoneSurrogate" => g[a + 1][FALSE] = TRUE
    BY <2>1, <2>4
  <2>. QED BY <1>5, <1>11, <2>6, <2>7 DEF a, b, Sound
<1>. QED BY <1>10, <1>11

\* The scan of a text agrees with its strings: it finds nothing when all can be
\* read, and a lone surrogate when that is what the first fault is.
LEMMA TextScanned ==
    ASSUME NEW t \in Seq(Tokens), Delimited(t), NEW n \in 1..(Len(t) + 1),
           \A i \in 1..(n - 1) : Sound(t, i)
    PROVE  /\ n = Len(t) + 1 => ~has_lone_surrogate_escape(Symbols(t))
           /\ Kind(t, n) = "string" /\ Says(t, n).error = "LoneSurrogate" =>
                has_lone_surrogate_escape(Symbols(t))
<1>. DEFINE text == Symbols(t)
<1>1. text \in Seq(Alphabet) /\ Len(text) \in Nat /\ Len(t) \in Nat
  BY SymbolsLayout
<1>2. PICK start :
        /\ start[1] = 0 /\ start[Len(t) + 1] = Len(Symbols(t))
        /\ \A i \in 1..Len(t) : Placed(Symbols(t), Spelled(t, i), start[i], start[i + 1])
  BY SymbolsLayout
<1>3. PICK g : /\ has_lone_surrogate_escape(text) = g[1][FALSE]
               /\ \A i \in 1..(Len(text) + 1) : g[i] = Scanning(text, g, i)
  BY <1>1, Scanner
<1>4. \A k \in 1..Len(Symbols(t)) : g[k] = Scanning(Symbols(t), g, k)
  BY <1>1, <1>3
<1>. DEFINE found(k) == g[start[k] + 1][FALSE]
<1>5. \A i \in 1..Len(t) :
        /\ Sound(t, i) => found(i) = found(i + 1)
        /\ Kind(t, i) = "string" /\ Says(t, i).error = "LoneSurrogate" => found(i) = TRUE
  BY <1>2, <1>4, TokenScanned
<1>6. found(1) = g[1][FALSE]
  BY <1>2
<1>7. found(Len(t) + 1) = FALSE
  <2>1. Len(text) + 1 \in 1..(Len(text) + 1)
    BY <1>1
  <2>2. g[Len(text) + 1] = Scanning(text, g, Len(text) + 1)
    BY <1>3, <2>1
  <2>3. g[Len(text) + 1][FALSE] = FALSE
    <3>. HIDE DEF text
    <3>. QED BY <1>1, <2>2, ScanEnd
  <2>. QED BY <1>2, <2>3
<1>. HIDE DEF text, found
<1>8. \A i \in 1..(n - 1) : i \in 1..Len(t) /\ Sound(t, i)
  BY <1>1
<1>9. found(n) = found(1)
  <2>. DEFINE S == {k \in Nat : k \in 1..n => found(k) = found(1)}
  <2>1. 0 \in S
    OBVIOUS
  <2>2. ASSUME NEW k \in Nat, k \in S PROVE k + 1 \in S
    <3>1. k \in 1..(n - 1) => found(k + 1) = found(k)
      BY <1>5, <1>8
    <3>2. k + 1 \in 1..n => k = 0 \/ (k \in 1..(n - 1) /\ k \in 1..n)
      OBVIOUS
    <3>3. k = 0 => found(k + 1) = found(1)
      OBVIOUS
    <3>4. k + 1 \in 1..n => found(k + 1) = found(1)
      BY <2>2, <3>1, <3>2, <3>3
    <3>. QED BY <3>4
  <2>3. Nat \subseteq S
    <3>. HIDE DEF S
    <3>. QED BY <2>1, <2>2, Induction
  <2>4. n \in Nat /\ n \in 1..n
    OBVIOUS
  <2>. QED BY <2>3, <2>4
<1>10. n = Len(t) + 1 => ~has_lone_surrogate_escape(text)
  BY <1>3, <1>6, <1>7, <1>9
<1>11. ASSUME Kind(t, n) = "string", Says(t, n).error = "LoneSurrogate"
       PROVE  has_lone_surrogate_escape(text)
  <2>1. n \in 1..Len(t)
    <3>1. n \in DOMAIN t
      BY <1>11 DEF Kind, End
    <3>. QED BY <3>1
  <2>2. found(n) = TRUE
    BY <1>5, <1>11, <2>1
  <2>. QED BY <1>3, <1>6, <1>9, <2>2
<1>. QED BY <1>10, <1>11 DEF text
----------------------------------------------------------------------------
(* The grammar *)

\* Where a list goes on, behind a comma.
Following(t, ends, i) ==
    {k \in (i + 2)..(Len(t) + 1) : k - 2 \in ends[i] /\ Kind(t, k - 1) = ","}

\* Where a list may end from i on, when f tells where from later places.
Listing(t, ends, f, i) == ends[i] \cup UNION {f[k] : k \in Following(t, ends, i)}

\* It goes on two places on at the least, and within the text.
LEMMA FollowingFacts ==
    ASSUME NEW t, Len(t) \in Nat, NEW ends, NEW i \in Places(t)
    PROVE  /\ i \in 1..(Len(t) + 1)
           /\ \A k \in Following(t, ends, i) :
                /\ k \in (i + 2)..(Len(t) + 1) /\ k \in (i + 1)..(Len(t) + 1)
                /\ k \in Places(t) /\ k - 2 \in ends[i] /\ Kind(t, k - 1) = ","
<1>1. i \in 1..(Len(t) + 1)
  BY DEF Places
<1>2. \A k \in (i + 2)..(Len(t) + 1) : k \in (i + 1)..(Len(t) + 1) /\ k \in 1..(Len(t) + 1)
  BY <1>1
<1>. QED BY <1>1, <1>2 DEF Following, Places

\* A list depends on what comes after its first element only.
LEMMA ListingOnward ==
    ASSUME NEW t, Len(t) \in Nat, NEW ends, NEW f, NEW g, NEW i \in Places(t),
           \A k \in (i + 1)..(Len(t) + 1) : f[k] = g[k]
    PROVE  Listing(t, ends, f, i) = Listing(t, ends, g, i)
<1>1. \A k \in Following(t, ends, i) : k \in (i + 1)..(Len(t) + 1)
  BY FollowingFacts
<1>2. \A k \in Following(t, ends, i) : f[k] = g[k]
  BY <1>1
<1>. QED BY <1>2 DEF Listing

\* Lists are what their definition says, from the last place to the first.
LEMMA Lister ==
    ASSUME NEW t, Len(t) \in Nat, NEW ends
    PROVE  \A i \in Places(t) : Lists(t, ends)[i] = Listing(t, ends, Lists(t, ends), i)
<1>. DEFINE n == Len(t)
            D == Places(t)
            Whole(f) == [i \in D |-> Listing(t, ends, f, i)]
            Known(f, k) == /\ f = [i \in D |-> f[i]]
                           /\ \A i \in D : i > n + 1 - k => f[i] = Listing(t, ends, f, i)
            S == {k \in Nat : k > n + 1 \/ \E f : Known(f, k)}
<1>0. D = 1..(n + 1)
  BY DEF Places
<1>1. n \in Nat
  OBVIOUS
<1>2. 0 \in S
  <2>. DEFINE f == [i \in D |-> 0]
  <2>1. Known(f, 0)
    BY <1>0, <1>1
  <2>. HIDE DEF f, Known
  <2>. QED BY <2>1
<1>3. ASSUME NEW k \in Nat, k \in S PROVE k + 1 \in S
  <2>1. CASE k + 1 > n + 1
    BY <1>1, <2>1
  <2>2. CASE k <= n
    <3>1. PICK f : Known(f, k)
      BY <1>1, <1>3, <2>2
    <3>2. PICK j \in D : j = n + 1 - k
      BY <1>0, <1>1, <2>2
    <3>. DEFINE g == [i \in D |-> IF i = j THEN Listing(t, ends, f, j) ELSE f[i]]
    <3>3. \A i \in D : g[i] = IF i = j THEN Listing(t, ends, f, j) ELSE f[i]
      OBVIOUS
    <3>4. g = [i \in D |-> g[i]]
      OBVIOUS
    <3>. HIDE DEF g
    <3>5. ASSUME NEW i \in D, i >= j PROVE Listing(t, ends, g, i) = Listing(t, ends, f, i)
      <4>1. \A x \in (i + 1)..(n + 1) : x \in D /\ x # j
        BY <1>0, <1>1, <3>5
      <4>2. \A x \in (i + 1)..(n + 1) : g[x] = f[x]
        BY <3>3, <4>1
      <4>. QED BY <4>2, ListingOnward
    <3>6. \A i \in D : i > j => f[i] = Listing(t, ends, f, i)
      BY <3>1, <3>2
    <3>7. \A i \in D : i > n + 1 - (k + 1) => g[i] = Listing(t, ends, g, i)
      <4>1. \A i \in D : i > n + 1 - (k + 1) => i >= j
        BY <1>0, <1>1, <3>2
      <4>2. \A i \in D : i >= j => i = j \/ i > j
        BY <1>0, <1>1
      <4>. QED BY <3>3, <3>5, <3>6, <4>1, <4>2
    <3>8. Known(g, k + 1)
      BY <3>4, <3>7
    <3>. HIDE DEF Known
    <3>. QED BY <3>8
  <2>. QED BY <1>1, <2>1, <2>2
<1>. HIDE DEF Known
<1>4. n + 1 \in S
  <2>. HIDE DEF S
  <2>1. Nat \subseteq S
    BY <1>2, <1>3, Induction
  <2>. QED BY <1>1, <2>1
<1>5. PICK f : Known(f, n + 1)
  BY <1>1, <1>4
<1>6. f = Whole(f)
  BY <1>0, <1>1, <1>5 DEF Known
<1>. DEFINE from == CHOOSE h : h = Whole(h)
<1>7. from = Whole(from)
  BY <1>6
<1>8. Lists(t, ends) = from
  BY DEF Lists, Listing, Following
<1>9. \A i \in D : from[i] = Listing(t, ends, from, i)
  <2>. HIDE DEF from
  <2>. QED BY <1>7
<1>. HIDE DEF from
<1>. QED BY <1>8, <1>9

\* What holds of a place if it holds of all after it, holds of all.
LEMMA Downward ==
    ASSUME NEW n \in Nat, NEW S,
           \A i \in 1..n : (\A x \in (i + 1)..n : x \in S) => i \in S
    PROVE  \A i \in 1..n : i \in S
<1>. DEFINE T == {k \in Nat : \A i \in 1..n : i > n - k => i \in S}
<1>1. 0 \in T
  OBVIOUS
<1>2. ASSUME NEW k \in Nat, k \in T PROVE k + 1 \in T
  <2> SUFFICES ASSUME NEW i \in 1..n, i > n - (k + 1) PROVE i \in S
    OBVIOUS
  <2>1. \A x \in (i + 1)..n : x \in 1..n /\ x > n - k
    OBVIOUS
  <2>2. \A x \in (i + 1)..n : x \in S
    BY <1>2, <2>1
  <2>. QED BY <2>2
<1>3. n \in T
  <2>. HIDE DEF T
  <2>. QED BY <1>1, <1>2, Induction
<1>. QED BY <1>3

\* P, a set of spans, has each element, and with a list also that list with an
\* element before it.
Inherits(t, ends, P) ==
    /\ \A i \in Places(t) : \A j \in ends[i] : <<i, j>> \in P
    /\ \A i, k \in Places(t) : \A j :
          k - 2 \in ends[i] /\ Kind(t, k - 1) = "," /\ <<k, j>> \in P => <<i, j>> \in P

\* Then it has all lists.
LEMMA ListInduction ==
    ASSUME NEW t, Len(t) \in Nat, NEW ends, NEW P, Inherits(t, ends, P)
    PROVE  \A i \in Places(t) : \A j \in Lists(t, ends)[i] : <<i, j>> \in P
<1>. DEFINE n == Len(t) + 1
            from == Lists(t, ends)
            Right(i) == \A j \in from[i] : <<i, j>> \in P
            S == {i \in 1..n : Right(i)}
<1>0. Places(t) = 1..n /\ n \in Nat
  BY DEF Places
<1>1. ASSUME NEW i \in Places(t), \A x \in (i + 1)..n : Right(x)
      PROVE  Right(i)
  <2>1. \A x \in Following(t, ends, i) : \A j \in from[x] : <<x, j>> \in P
    BY <1>1, FollowingFacts
  <2>2. \A x \in Following(t, ends, i) : \A j \in from[x] : <<i, j>> \in P
    BY <2>1, FollowingFacts DEF Inherits
  <2>3. from[i] = ends[i] \cup UNION {from[x] : x \in Following(t, ends, i)}
    <3>1. from[i] = Listing(t, ends, from, i)
      BY Lister
    <3>. HIDE DEF from
    <3>. QED BY <3>1 DEF Listing
  <2>4. \A j \in ends[i] : <<i, j>> \in P
    BY DEF Inherits
  <2>. HIDE DEF from
  <2>. QED BY <2>2, <2>3, <2>4
<1>. HIDE DEF Right
<1>2. \A i \in 1..n : (\A x \in (i + 1)..n : x \in S) => i \in S
  BY <1>0, <1>1
<1>3. \A i \in 1..n : i \in S
  <2>. HIDE DEF S, n
  <2>. QED BY <1>0, <1>2, Downward
<1>. QED BY <1>0, <1>3 DEF Right

\* One level more, when f tells the values of the levels below it.
Leveling(t, f, k) == IF k = 0 THEN {} ELSE Around(t, f[k - 1])

\* Levels are what their definition says, from none to the limit.
LEMMA Leveler ==
    ASSUME NEW t, NEW d \in Nat
    PROVE  \A k \in 0..d : Levels(t, d)[k] = Leveling(t, Levels(t, d), k)
<1>. DEFINE D == 0..d
            Whole(f) == [i \in D |-> Leveling(t, f, i)]
            Known(f, k) == /\ f = [i \in D |-> f[i]]
                           /\ \A i \in D : i <= k => f[i] = Leveling(t, f, i)
            S == {k \in Nat : k > d \/ \E f : Known(f, k)}
<1>1. 0 \in S
  <2>. DEFINE f == [i \in D |-> {}]
  <2>1. f = [i \in D |-> f[i]] /\ f[0] = {}
    OBVIOUS
  <2>2. \A i \in D : i <= 0 => f[i] = Leveling(t, f, i)
    BY DEF Leveling
  <2>. HIDE DEF f
  <2>. QED BY <2>1, <2>2
<1>2. ASSUME NEW k \in Nat, k \in S PROVE k + 1 \in S
  <2>1. CASE k + 1 > d
    BY <2>1
  <2>2. CASE k + 1 <= d
    <3>1. PICK f : Known(f, k)
      BY <1>2, <2>2
    <3>2. PICK j \in D : j = k + 1
      BY <2>2
    <3>. DEFINE g == [i \in D |-> IF i = j THEN Leveling(t, f, j) ELSE f[i]]
    <3>3. \A i \in D : g[i] = IF i = j THEN Leveling(t, f, j) ELSE f[i]
      OBVIOUS
    <3>4. g = [i \in D |-> g[i]]
      OBVIOUS
    <3>. HIDE DEF g
    <3>5. ASSUME NEW i \in D, i <= j PROVE Leveling(t, g, i) = Leveling(t, f, i)
      <4>1. i # 0 => i - 1 \in D /\ i - 1 # j
        BY <3>5
      <4>2. i # 0 => g[i - 1] = f[i - 1]
        BY <3>3, <4>1
      <4>. QED BY <4>2 DEF Leveling
    <3>6. \A i \in D : i < j => f[i] = Leveling(t, f, i)
      BY <3>1, <3>2
    <3>7. \A i \in D : i <= k + 1 => g[i] = Leveling(t, g, i)
      BY <3>2, <3>3, <3>5, <3>6
    <3>8. Known(g, k + 1)
      BY <3>4, <3>7
    <3>. HIDE DEF Known
    <3>. QED BY <3>8
  <2>. QED BY <2>1, <2>2
<1>. HIDE DEF Known
<1>3. d \in S
  <2>. HIDE DEF S
  <2>1. Nat \subseteq S
    BY <1>1, <1>2, Induction
  <2>. QED BY <2>1
<1>4. PICK f : Known(f, d)
  BY <1>3
<1>5. f = Whole(f)
  BY <1>4 DEF Known
<1>. DEFINE from == CHOOSE h : h = Whole(h)
<1>6. from = Whole(from)
  BY <1>5
<1>7. Levels(t, d) = from
  BY DEF Levels, Leveling
<1>8. \A i \in D : from[i] = Leveling(t, from, i)
  <2>. HIDE DEF from
  <2>. QED BY <1>6
<1>. HIDE DEF from
<1>. QED BY <1>7, <1>8

\* A value goes from its place on, and what is no UTF-8 is in none.
Valid(t) == {k \in Places(t) : Kind(t, k) # "invalid"}
Clean(t) ==
    {span \in (1..Len(t)) \X (1..Len(t)) :
        span[1] <= span[2] /\ span[1]..span[2] \subseteq Valid(t)}

\* Two stretches with one place between them are one.
LEMMA Stretches ==
    ASSUME NEW F, NEW i \in Nat, NEW j \in Nat, NEW k \in Nat, NEW x \in Nat,
           i <= j, j + 2 = k, k <= x, i..j \subseteq F, j + 1 \in F, k..x \subseteq F
    PROVE  i <= x /\ i..x \subseteq F
OBVIOUS

\* So is a stretch with two places before it.
LEMMA StretchFrom ==
    ASSUME NEW F, NEW i \in Nat, NEW j \in Nat,
           i \in F, i + 1 \in F, i + 2 <= j, (i + 2)..j \subseteq F
    PROVE  i <= j /\ i..j \subseteq F
OBVIOUS

\* And one with a place at each end.
LEMMA StretchBetween ==
    ASSUME NEW F, NEW i \in Nat, NEW j \in Nat, i \in F, j \in F,
           j = i + 1 \/ (i + 1 <= j - 1 /\ (i + 1)..(j - 1) \subseteq F)
    PROVE  i <= j /\ i..j \subseteq F
OBVIOUS

\* A text has a length, and one place more.
LEMMA LengthFacts == \A t \in Seq(Tokens) : Len(t) \in Nat /\ Len(t) + 1 \in Nat
OBVIOUS

\* The kind of a place that has one.
LEMMA KindIsThere ==
    ASSUME NEW t \in Seq(Tokens), NEW i, Kind(t, i) # End
    PROVE  i \in 1..Len(t) /\ i \in Places(t) /\ i + 1 \in Places(t)
<1>1. i \in DOMAIN t
  BY DEF Kind
<1>. QED BY <1>1 DEF Places

\* Two places back and one on is one place back.
LEMMA TwoBack ==
    ASSUME NEW t \in Seq(Tokens), NEW k \in Places(t), NEW m, m = k - 2
    PROVE  k - 1 = m + 1 /\ m + 2 = k
<1>1. k \in Int
  BY DEF Places
<1>. QED BY <1>1

\* A value behind a value and a comma.
LEMMA CleanJoins ==
    ASSUME NEW t \in Seq(Tokens), NEW i, NEW j, NEW k, NEW x,
           <<i, j>> \in Clean(t), <<k, x>> \in Clean(t), j + 2 = k, j + 1 \in Valid(t)
    PROVE  <<i, x>> \in Clean(t)
<1>1. /\ i \in 1..Len(t) /\ j \in 1..Len(t) /\ k \in 1..Len(t) /\ x \in 1..Len(t)
      /\ i <= j /\ k <= x /\ i..j \subseteq Valid(t) /\ k..x \subseteq Valid(t)
  BY DEF Clean
<1>2. \A p \in 1..Len(t) : p \in Nat
  OBVIOUS
<1>3. i <= x /\ i..x \subseteq Valid(t)
  BY <1>1, <1>2, Stretches
<1>. QED BY <1>1, <1>3 DEF Clean

\* What Clean(t) has of the values it has of the elements, and of the lists.
LEMMA ListsClean ==
    ASSUME NEW t \in Seq(Tokens), NEW kind, NEW values, values \subseteq Clean(t)
    PROVE  \A i \in Places(t) : \A j \in Lists(t, Elements(t, kind, values))[i] :
                <<i, j>> \in Clean(t)
<1>. DEFINE ends == Elements(t, kind, values)
<1>1. Len(t) \in Nat
  OBVIOUS
<1>2. ASSUME NEW i \in Places(t), NEW j \in ends[i] PROVE <<i, j>> \in Clean(t)
  <2>1. \/ <<i, j>> \in values
        \/ IsNamed(t, i) /\ <<i + 2, j>> \in values
    BY DEF Elements
  <2>2. ASSUME IsNamed(t, i), <<i + 2, j>> \in Clean(t) PROVE <<i, j>> \in Clean(t)
    <3>1. Kind(t, i) = "string" /\ Kind(t, i + 1) = ":"
      BY <2>2 DEF IsNamed
    <3>2. i \in Valid(t) /\ i + 1 \in Valid(t) /\ i \in 1..Len(t)
      BY <3>1, KindIsThere DEF Valid, End
    <3>3. j \in 1..Len(t) /\ i + 2 <= j /\ (i + 2)..j \subseteq Valid(t)
      BY <2>2 DEF Clean
    <3>4. \A p \in 1..Len(t) : p \in Nat
      OBVIOUS
    <3>5. i <= j /\ i..j \subseteq Valid(t)
      BY <3>2, <3>3, <3>4, StretchFrom
    <3>. QED BY <3>2, <3>3, <3>5 DEF Clean
  <2>. QED BY <2>1, <2>2
<1>. HIDE DEF ends
<1>3. \A i, k \in Places(t) : \A j :
          k - 2 \in ends[i] /\ Kind(t, k - 1) = "," /\ <<k, j>> \in Clean(t)
            => <<i, j>> \in Clean(t)
  <2> SUFFICES ASSUME NEW i \in Places(t), NEW k \in Places(t), NEW j,
                      k - 2 \in ends[i], Kind(t, k - 1) = ",", <<k, j>> \in Clean(t)
               PROVE  <<i, j>> \in Clean(t)
    OBVIOUS
  <2>1. PICK m : m = k - 2
    OBVIOUS
  <2>2. <<i, m>> \in Clean(t)
    BY <1>2, <2>1
  <2>3. Kind(t, k - 1) # "invalid" /\ Kind(t, k - 1) # End
    BY DEF End
  <2>4. k - 1 \in Valid(t)
    BY <2>3, KindIsThere DEF Valid
  <2>5. k - 1 = m + 1 /\ m + 2 = k
    BY <2>1, <2>2, TwoBack DEF Clean
  <2>6. m + 1 \in Valid(t)
    BY <2>4, <2>5
  <2>. QED BY <2>2, <2>5, <2>6, CleanJoins
<1>4. Inherits(t, ends, Clean(t))
  BY <1>2, <1>3 DEF Inherits
<1>. QED BY <1>1, <1>4, ListInduction DEF ends

\* What is one value.
LEMMA AroundIs ==
    ASSUME NEW t \in Seq(Tokens), NEW values, NEW i, NEW j
    PROVE  <<i, j>> \in Around(t, values) <=>
             \/ i = j /\ IsScalar(t, i)
             \/ /\ Kind(t, i) \in Opening /\ Kind(t, j) = CloserOf[Kind(t, i)]
                /\ j = i + 1 \/ j - 1 \in Lists(t, Elements(t, Kind(t, i), values))[i + 1]
<1>1. IsScalar(t, i) => i \in Places(t)
  <2>1. IsScalar(t, i) => Kind(t, i) # End
    BY DEF IsScalar, End
  <2>. QED BY <2>1, KindIsThere
<1>2. Kind(t, i) \in Opening => i \in Places(t)
  BY KindIsThere DEF Opening, End
<1>3. Kind(t, i) \in Opening /\ Kind(t, j) = CloserOf[Kind(t, i)] => j \in Places(t)
  BY KindIsThere DEF Opening, CloserOf, End
<1>. DEFINE lists == [kind \in Opening |-> Lists(t, Elements(t, kind, values))]
<1>4. Kind(t, i) \in Opening => lists[Kind(t, i)] = Lists(t, Elements(t, Kind(t, i), values))
  OBVIOUS
<1>5. <<i, j>> \in Around(t, values) <=>
        /\ i \in Places(t) /\ j \in Places(t)
        /\ \/ i = j /\ IsScalar(t, i)
           \/ /\ Kind(t, i) \in Opening /\ Kind(t, j) = CloserOf[Kind(t, i)]
              /\ j = i + 1 \/ j - 1 \in lists[Kind(t, i)][i + 1]
  BY DEF Around
<1>. HIDE DEF lists
<1>. QED BY <1>1, <1>2, <1>3, <1>4, <1>5

\* So it is with values of any depth.
LEMMA LevelsClean ==
    ASSUME NEW t \in Seq(Tokens), NEW d \in Nat
    PROVE  \A k \in 0..d : Levels(t, d)[k] \subseteq Clean(t)
<1>. DEFINE V == Levels(t, d)
            S == {k \in Nat : k <= d => V[k] \subseteq Clean(t)}
<1>1. V[0] = {}
  <2>1. 0 \in 0..d
    OBVIOUS
  <2>. HIDE DEF V
  <2>. QED BY <2>1, Leveler DEF Leveling, V
<1>2. 0 \in S
  BY <1>1
<1>3. ASSUME NEW values, values \subseteq Clean(t) PROVE Around(t, values) \subseteq Clean(t)
  <2>1. Around(t, values) \subseteq Places(t) \X Places(t)
    BY DEF Around
  <2>2. ASSUME NEW i \in Places(t), NEW j \in Places(t), <<i, j>> \in Around(t, values)
        PROVE  <<i, j>> \in Clean(t)
    <3>0. i \in Nat /\ j \in Nat
      BY DEF Places
    <3>1. CASE i = j /\ IsScalar(t, i)
      <4>1. i..j = {i} /\ i <= j
        BY <3>0, <3>1
      <4>2. i \in Valid(t) /\ i \in 1..Len(t)
        <5>1. Kind(t, i) # "invalid" /\ Kind(t, i) # End
          BY <3>1 DEF IsScalar, End
        <5>. QED BY <5>1, KindIsThere DEF Valid
      <4>. QED BY <4>1, <4>2 DEF Clean
    <3>2. CASE /\ Kind(t, i) \in Opening /\ Kind(t, j) = CloserOf[Kind(t, i)]
               /\ j = i + 1 \/ j - 1 \in Lists(t, Elements(t, Kind(t, i), values))[i + 1]
      <4>1. /\ Kind(t, i) # End /\ Kind(t, i) # "invalid"
            /\ Kind(t, j) # End /\ Kind(t, j) # "invalid"
        BY <3>2 DEF Opening, CloserOf, End
      <4>2. /\ i \in Valid(t) /\ i \in 1..Len(t) /\ i + 1 \in Places(t)
            /\ j \in Valid(t) /\ j \in 1..Len(t)
        BY <4>1, KindIsThere DEF Valid
      <4>3. j = i + 1 \/ <<i + 1, j - 1>> \in Clean(t)
        BY <1>3, <3>2, <4>2, ListsClean
      <4>4. j = i + 1 \/ (i + 1 <= j - 1 /\ (i + 1)..(j - 1) \subseteq Valid(t))
        BY <4>3 DEF Clean
      <4>5. i <= j /\ i..j \subseteq Valid(t)
        BY <3>0, <4>2, <4>4, StretchBetween
      <4>. QED BY <4>2, <4>5 DEF Clean
    <3>. QED BY <2>2, <3>1, <3>2, AroundIs
  <2>. QED BY <2>1, <2>2
<1>4. ASSUME NEW k \in Nat, k \in S PROVE k + 1 \in S
  <2> SUFFICES ASSUME k + 1 <= d PROVE V[k + 1] \subseteq Clean(t)
    OBVIOUS
  <2>1. V[k] \subseteq Clean(t)
    BY <1>4
  <2>2. k + 1 \in 0..d /\ k + 1 # 0 /\ k + 1 - 1 = k
    OBVIOUS
  <2>3. V[k + 1] = Around(t, V[k])
    BY <2>2, Leveler DEF Leveling
  <2>. HIDE DEF V
  <2>. QED BY <1>3, <2>1, <2>3
<1>5. Nat \subseteq S
  <2>. HIDE DEF S
  <2>. QED BY <1>2, <1>4, Induction
<1>. QED BY <1>5

\* The values that n levels of the limit are spent around.
Values(t, d, n) == Levels(t, d)[d - n]
Contents(t, d, n, kind) == Lists(t, Elements(t, kind, Values(t, d, n)))

\* What stands at q behind an element of a list ends it before e, or goes on
\* to other elements that do.
Continues(t, lists, q, e) == q = e \/ (Kind(t, q) = "," /\ e - 1 \in lists[q + 1])

\* Arithmetic of the place behind a comma.
LEMMA NextButOne ==
    ASSUME NEW n \in Nat, NEW i \in 1..n, NEW j \in 1..n, i <= j, j + 1 \in 1..n
    PROVE  \E k \in (i + 2)..(n + 1) : k = j + 1 + 1 /\ k - 1 = j + 1 /\ k - 2 = j
OBVIOUS

\* Behind a span of the text that a comma follows there is another place.
LEMMA BehindComma ==
    ASSUME NEW t \in Seq(Tokens), NEW i, NEW j, <<i, j>> \in Clean(t), Kind(t, j + 1) = ","
    PROVE  \E k \in (i + 2)..(Len(t) + 1) : k = j + 1 + 1 /\ k - 1 = j + 1 /\ k - 2 = j
<1>1. Kind(t, j + 1) # End
  BY DEF End
<1>2. j + 1 \in 1..Len(t)
  BY <1>1, KindIsThere
<1>3. i \in 1..Len(t) /\ j \in 1..Len(t) /\ i <= j
  BY DEF Clean
<1>. QED BY <1>2, <1>3, LengthFacts, NextButOne

\* What the elements of a list are is in Clean(t), with what is in them.
LEMMA ElementsClean ==
    ASSUME NEW t \in Seq(Tokens), NEW kind, NEW values, values \subseteq Clean(t),
           NEW i \in Places(t), NEW j \in Elements(t, kind, values)[i]
    PROVE  <<i, j>> \in Clean(t)
<1>. DEFINE ends == Elements(t, kind, values)
<1>1. ends[i] \subseteq Lists(t, ends)[i]
  <2>1. Lists(t, ends)[i] = Listing(t, ends, Lists(t, ends), i)
    BY LengthFacts, Lister
  <2>. HIDE DEF ends
  <2>. QED BY <2>1 DEF Listing
<1>. QED BY <1>1, ListsClean

\* Arithmetic of an end and the place behind it.
LEMMA BehindEnd ==
    ASSUME NEW n \in Nat, NEW j \in 1..n, NEW e \in 1..(n + 1)
    PROVE  e - 1 = j <=> j + 1 = e
OBVIOUS

\* A list ends before e with its first element, or behind it.
LEMMA ListsAre ==
    ASSUME NEW t \in Seq(Tokens), NEW kind, NEW values, values \subseteq Clean(t),
           NEW i \in Places(t), NEW e \in Places(t)
    PROVE  LET ends == Elements(t, kind, values)
               lists == Lists(t, ends)
           IN  e - 1 \in lists[i] <=> \E j \in ends[i] : Continues(t, lists, j + 1, e)
<1>. DEFINE ends == Elements(t, kind, values)
            lists == Lists(t, ends)
<1>1. lists[i] = ends[i] \cup UNION {lists[k] : k \in Following(t, ends, i)}
  <2>1. lists[i] = Listing(t, ends, lists, i)
    BY LengthFacts, Lister
  <2>. HIDE DEF ends, lists
  <2>. QED BY <2>1 DEF Listing
<1>2. \A j \in ends[i] : <<i, j>> \in Clean(t)
  BY ElementsClean
<1>3. \A j \in ends[i] : Kind(t, j + 1) = "," =>
        \E k \in (i + 2)..(Len(t) + 1) : k = j + 1 + 1 /\ k - 1 = j + 1 /\ k - 2 = j
  BY <1>2, BehindComma
<1>4. \A j \in ends[i] : e - 1 = j <=> j + 1 = e
  <2>1. ends[i] \subseteq 1..Len(t) /\ e \in 1..(Len(t) + 1)
    BY <1>2 DEF Clean, Places
  <2>. HIDE DEF ends
  <2>. QED BY <2>1, LengthFacts, BehindEnd
<1>5. \A k \in Following(t, ends, i) : k - 2 + 1 = k - 1 /\ k - 2 + 1 + 1 = k
  <2>1. \A k \in Following(t, ends, i) : k \in 1..(Len(t) + 1)
    BY LengthFacts, FollowingFacts DEF Places
  <2>. HIDE DEF ends
  <2>. QED BY <2>1
<1>. HIDE DEF ends, lists
<1>6. ASSUME e - 1 \in lists[i] PROVE \E j \in ends[i] : Continues(t, lists, j + 1, e)
  <2>1. CASE e - 1 \in ends[i]
    BY <1>4, <2>1 DEF Continues
  <2>2. CASE e - 1 \notin ends[i]
    <3>1. PICK k \in Following(t, ends, i) : e - 1 \in lists[k]
      BY <1>1, <1>6, <2>2
    <3>2. k - 2 \in ends[i] /\ Kind(t, k - 1) = ","
      BY <3>1 DEF Following
    <3>3. Kind(t, k - 2 + 1) = "," /\ e - 1 \in lists[k - 2 + 1 + 1]
      BY <1>5, <3>1, <3>2
    <3>. QED BY <3>2, <3>3 DEF Continues
  <2>. QED BY <2>1, <2>2
<1>7. ASSUME NEW j \in ends[i], Continues(t, lists, j + 1, e) PROVE e - 1 \in lists[i]
  <2>1. CASE j + 1 = e
    BY <1>1, <1>4, <2>1
  <2>2. CASE Kind(t, j + 1) = "," /\ e - 1 \in lists[j + 1 + 1]
    <3>1. PICK k \in (i + 2)..(Len(t) + 1) : k = j + 1 + 1 /\ k - 1 = j + 1 /\ k - 2 = j
      BY <1>3, <2>2
    <3>2. Kind(t, k - 1) = "," /\ k - 2 \in ends[i]
      BY <2>2, <3>1
    <3>3. k \in Following(t, ends, i)
      BY <3>2, Zenon DEF Following
    <3>. QED BY <1>1, <2>2, <3>1, <3>3
  <2>. QED BY <1>7, <2>1, <2>2 DEF Continues
<1>. QED BY <1>6, <1>7 DEF ends, lists

\* A value is no deeper than the limit allows.
LEMMA ValuesClean ==
    ASSUME NEW t \in Seq(Tokens), NEW d \in Nat, NEW n \in 0..d
    PROVE  Values(t, d, n) \subseteq Clean(t)
<1>1. d - n \in 0..d
  OBVIOUS
<1>. QED BY <1>1, LevelsClean DEF Values

\* A list of items begins with a value.
LEMMA ItemsAre ==
    ASSUME NEW t \in Seq(Tokens), NEW d \in Nat, NEW n \in 0..d,
           NEW i \in Places(t), NEW e \in Places(t)
    PROVE  LET lists == Contents(t, d, n, "[")
           IN  e - 1 \in lists[i] <=>
                 \E j : <<i, j>> \in Values(t, d, n) /\ Continues(t, lists, j + 1, e)
<1>. DEFINE values == Values(t, d, n)
            lists == Contents(t, d, n, "[")
            ends == Elements(t, "[", values)
<1>1. values \subseteq Clean(t)
  BY ValuesClean
<1>2. lists = Lists(t, ends)
  BY DEF Contents
<1>3. \A j : j \in ends[i] <=> <<i, j>> \in values
  <2>1. ends[i] = {j \in i..Len(t) : <<i, j>> \in values}
    BY DEF Elements
  <2>2. \A j : <<i, j>> \in values => j \in i..Len(t)
    BY <1>1 DEF Clean
  <2>. HIDE DEF ends, values
  <2>. QED BY <2>1, <2>2
<1>. HIDE DEF values
<1>4. e - 1 \in Lists(t, ends)[i] <=> \E j \in ends[i] : Continues(t, Lists(t, ends), j + 1, e)
  BY <1>1, ListsAre
<1>. HIDE DEF ends, lists
<1>5. e - 1 \in lists[i] <=> \E j : <<i, j>> \in values /\ Continues(t, lists, j + 1, e)
  BY <1>2, <1>3, <1>4
<1>. QED BY <1>5 DEF values, lists

\* A list of members begins with a name, a colon and a value.
LEMMA MembersAre ==
    ASSUME NEW t \in Seq(Tokens), NEW d \in Nat, NEW n \in 0..d,
           NEW i \in Places(t), NEW e \in Places(t)
    PROVE  LET lists == Contents(t, d, n, "{")
           IN  e - 1 \in lists[i] <=>
                 /\ IsNamed(t, i)
                 /\ \E j : <<i + 2, j>> \in Values(t, d, n) /\ Continues(t, lists, j + 1, e)
<1>. DEFINE values == Values(t, d, n)
            lists == Contents(t, d, n, "{")
            ends == Elements(t, "{", values)
<1>1. values \subseteq Clean(t)
  BY ValuesClean
<1>2. lists = Lists(t, ends)
  BY DEF Contents
<1>3. \A j : j \in ends[i] <=> IsNamed(t, i) /\ <<i + 2, j>> \in values
  <2>1. ends[i] = IF IsNamed(t, i) THEN {j \in (i + 2)..Len(t) : <<i + 2, j>> \in values} ELSE {}
    BY DEF Elements
  <2>2. \A j : <<i + 2, j>> \in values => j \in (i + 2)..Len(t)
    BY <1>1 DEF Clean
  <2>. HIDE DEF ends, values
  <2>. QED BY <2>1, <2>2
<1>. HIDE DEF values
<1>4. e - 1 \in Lists(t, ends)[i] <=> \E j \in ends[i] : Continues(t, Lists(t, ends), j + 1, e)
  BY <1>1, ListsAre
<1>. HIDE DEF ends, lists
<1>5. e - 1 \in lists[i] <=>
        /\ IsNamed(t, i)
        /\ \E j : <<i + 2, j>> \in values /\ Continues(t, lists, j + 1, e)
  BY <1>2, <1>3, <1>4
<1>. QED BY <1>5 DEF values, lists

\* A value is one token, or a list in brackets, of values with a level less.
LEMMA ValuesAre ==
    ASSUME NEW t \in Seq(Tokens), NEW d \in Nat, NEW n \in 0..d, NEW i, NEW j
    PROVE  <<i, j>> \in Values(t, d, n) <=>
             /\ n < d
             /\ \/ i = j /\ IsScalar(t, i)
                \/ /\ Kind(t, i) \in Opening /\ Kind(t, j) = CloserOf[Kind(t, i)]
                   /\ j = i + 1 \/ j - 1 \in Contents(t, d, n + 1, Kind(t, i))[i + 1]
<1>1. CASE n = d
  <2>1. d - n = 0 /\ 0 \in 0..d /\ ~(n < d)
    BY <1>1
  <2>2. Levels(t, d)[0] = {}
    BY <2>1, Leveler DEF Leveling
  <2>. QED BY <2>1, <2>2 DEF Values
<1>2. CASE n < d
  <2>1. d - n \in 0..d /\ d - n # 0 /\ d - n - 1 = d - (n + 1)
    BY <1>2
  <2>2. Levels(t, d)[d - n] = Around(t, Levels(t, d)[d - n - 1])
    BY <2>1, Leveler DEF Leveling
  <2>3. Values(t, d, n) = Around(t, Values(t, d, n + 1))
    BY <2>1, <2>2 DEF Values
  <2>4. <<i, j>> \in Around(t, Values(t, d, n + 1)) <=>
          \/ i = j /\ IsScalar(t, i)
          \/ /\ Kind(t, i) \in Opening /\ Kind(t, j) = CloserOf[Kind(t, i)]
             /\ j = i + 1
                \/ j - 1 \in Lists(t, Elements(t, Kind(t, i), Values(t, d, n + 1)))[i + 1]
    BY AroundIs
  <2>. QED BY <1>2, <2>3, <2>4, Zenon DEF Contents
<1>. QED BY <1>1, <1>2

----------------------------------------------------------------------------
(* What is left of a document *)

\* What stands at q behind a value in n levels of frames, the innermost of
\* which ends at e; the text does, for no level.
Closes(t, d, frames, n, q, e) ==
    IF n = 0 THEN q = e ELSE Continues(t, Contents(t, d, n, frames[n].kind), q, e)

\* The levels end at these places, one inside of the other.
Chain(t, d, frames, ends) ==
    /\ ends[0] = Len(t) + 1
    /\ \A n \in 1..Len(frames) :
          /\ Kind(t, ends[n]) = CloserOf[frames[n].kind]
          /\ Closes(t, d, frames, n - 1, ends[n] + 1, ends[n - 1])

\* A value that begins at i, and what is behind it.
Awaited(t, d, frames, i, e) ==
    \E j : /\ <<i, j>> \in Values(t, d, Len(frames))
           /\ Closes(t, d, frames, Len(frames), j + 1, e)

Elsewhere(t, d, frames, i, e) ==
    e - 1 \in Contents(t, d, Len(frames), frames[Len(frames)].kind)[i]

\* What the parser expects from i on, up to the end of the innermost level.
Fits(t, d, frames, place, i, e) ==
    /\ place \in {"check", "value"} => Awaited(t, d, frames, i, e)
    /\ place \in {"first_item", "first_name"} => i = e \/ Elsewhere(t, d, frames, i, e)
    /\ place = "name" => Elsewhere(t, d, frames, i, e)
    /\ place = "colon" => Kind(t, i) = ":" /\ Awaited(t, d, frames, i + 1, e)
    /\ place \in {"separator", "end"} => Closes(t, d, frames, Len(frames), i, e)

Rest(t, d, frames, place, i) ==
    \E ends : /\ Chain(t, d, frames, ends)
              /\ Fits(t, d, frames, place, i, ends[Len(frames)])

\* Where the innermost level can end.
IsEnd(t, frames, e) ==
    /\ e \in Places(t)
    /\ IF Len(frames) = 0 THEN e = Len(t) + 1
       ELSE Kind(t, e) = CloserOf[frames[Len(frames)].kind]

SameKinds(frames, others) ==
    /\ Len(frames) = Len(others) /\ Len(frames) \in Nat
    /\ \A n \in 1..Len(frames) : frames[n].kind = others[n].kind

AllOpening(frames) ==
    /\ Len(frames) \in Nat
    /\ \A n \in 1..Len(frames) : frames[n].kind \in Opening

\* Levels end at the places of closing brackets, or of the text.
LEMMA ChainEnds ==
    ASSUME NEW t \in Seq(Tokens), NEW d, NEW frames, AllOpening(frames),
           NEW ends, Chain(t, d, frames, ends)
    PROVE  \A n \in 0..Len(frames) : ends[n] \in Places(t)
<1>1. ends[0] \in Places(t)
  <2>1. ends[0] = Len(t) + 1
    BY DEF Chain
  <2>. QED BY <2>1 DEF Places
<1>2. ASSUME NEW n \in 1..Len(frames) PROVE ends[n] \in Places(t)
  <2>1. Kind(t, ends[n]) = CloserOf[frames[n].kind] /\ frames[n].kind \in Opening
    BY DEF Chain, AllOpening
  <2>2. Kind(t, ends[n]) # End
    BY <2>1 DEF CloserOf, Opening, End
  <2>. QED BY <2>2, KindIsThere
<1>3. \A n \in 0..Len(frames) : n = 0 \/ n \in 1..Len(frames)
  BY DEF AllOpening
<1>. QED BY <1>1, <1>2, <1>3

\* The innermost of them too.
LEMMA ChainEnd ==
    ASSUME NEW t \in Seq(Tokens), NEW d, NEW frames, AllOpening(frames),
           NEW ends, Chain(t, d, frames, ends)
    PROVE  IsEnd(t, frames, ends[Len(frames)])
<1>1. Len(frames) \in 0..Len(frames) /\ (Len(frames) # 0 => Len(frames) \in 1..Len(frames))
  BY DEF AllOpening
<1>2. ends[Len(frames)] \in Places(t)
  BY <1>1, ChainEnds
<1>. QED BY <1>1, <1>2 DEF IsEnd, Chain

\* Only the kinds of the frames matter.
LEMMA ChainSame ==
    ASSUME NEW t, NEW d, NEW frames, NEW others, SameKinds(frames, others)
    PROVE  /\ \A n \in 0..Len(frames) : \A q, e :
                Closes(t, d, frames, n, q, e) <=> Closes(t, d, others, n, q, e)
           /\ \A ends : Chain(t, d, frames, ends) <=> Chain(t, d, others, ends)
<1>1. ASSUME NEW n \in 0..Len(frames), NEW q, NEW e
      PROVE  Closes(t, d, frames, n, q, e) <=> Closes(t, d, others, n, q, e)
  <2>1. n = 0 \/ n \in 1..Len(frames)
    BY DEF SameKinds
  <2>. QED BY <2>1 DEF Closes, SameKinds
<1>2. \A n \in 1..Len(frames) : n - 1 \in 0..Len(frames)
  BY DEF SameKinds
<1>3. ASSUME NEW ends
      PROVE  Chain(t, d, frames, ends) <=> Chain(t, d, others, ends)
  <2>1. ASSUME NEW n \in 1..Len(frames)
        PROVE  /\ Kind(t, ends[n]) = CloserOf[frames[n].kind]
                  <=> Kind(t, ends[n]) = CloserOf[others[n].kind]
               /\ Closes(t, d, frames, n - 1, ends[n] + 1, ends[n - 1])
                  <=> Closes(t, d, others, n - 1, ends[n] + 1, ends[n - 1])
    BY <1>1, <1>2, Zenon DEF SameKinds
  <2>2. Len(frames) = Len(others)
    BY DEF SameKinds
  <2>. QED BY <2>1, <2>2, Zenon DEF Chain
<1>. QED BY <1>1, <1>3

\* A step that leaves the levels as they are leaves as much of a document to
\* be read, if it does so for every place where the innermost one can end.
LEMMA RestOnward ==
    ASSUME NEW t \in Seq(Tokens), NEW d, NEW frames, NEW others,
           AllOpening(frames), SameKinds(frames, others), NEW place, NEW to, NEW i, NEW k,
           \A e : IsEnd(t, frames, e) =>
                (Fits(t, d, frames, place, i, e) <=> Fits(t, d, others, to, k, e))
    PROVE  Rest(t, d, frames, place, i) <=> Rest(t, d, others, to, k)
<1>1. Len(frames) = Len(others)
  BY DEF SameKinds
<1>2. \A ends : Chain(t, d, frames, ends) <=> Chain(t, d, others, ends)
  BY ChainSame
<1>3. \A ends : Chain(t, d, frames, ends) => IsEnd(t, frames, ends[Len(frames)])
  BY ChainEnd
<1>. QED BY <1>1, <1>2, <1>3, Zenon DEF Rest

\* Kinds of tokens that end nothing.
LEMMA NoEnd ==
    ASSUME NEW t, NEW frames, AllOpening(frames), Len(frames) # 0, NEW e, IsEnd(t, frames, e),
           NEW i, Kind(t, i) # CloserOf[frames[Len(frames)].kind]
    PROVE  i # e
BY DEF IsEnd

\* Frames within the limit are levels of it, and the last is one of them.
LEMMA FramesFit ==
    ASSUME NEW d \in Nat, NEW frames, AllOpening(frames), Len(frames) <= d
    PROVE  /\ Len(frames) \in 0..d /\ Len(frames) \in 0..Len(frames)
           /\ Len(frames) < d <=> Len(frames) # d
           /\ Len(frames) # 0 => /\ Len(frames) \in 1..Len(frames)
                                 /\ frames[Len(frames)].kind \in Opening
BY DEF AllOpening

\* One token is a value.
LEMMA FitsScalar ==
    ASSUME NEW t \in Seq(Tokens), NEW d \in Nat, NEW frames, AllOpening(frames),
           Len(frames) < d, NEW i, IsScalar(t, i), NEW e,
           NEW others, SameKinds(frames, others), NEW to \in {"separator", "end"}
    PROVE  Fits(t, d, frames, "value", i, e) <=> Fits(t, d, others, to, i + 1, e)
<1>1. Len(frames) \in 0..d /\ Len(frames) \in 0..Len(frames)
  BY DEF AllOpening
<1>2. Kind(t, i) \notin Opening
  BY DEF IsScalar, Opening
<1>3. \A j : <<i, j>> \in Values(t, d, Len(frames)) <=> i = j
  BY <1>1, <1>2, ValuesAre
<1>4. Awaited(t, d, frames, i, e) <=> Closes(t, d, frames, Len(frames), i + 1, e)
  BY <1>3 DEF Awaited
<1>5. Closes(t, d, frames, Len(frames), i + 1, e) <=> Closes(t, d, others, Len(others), i + 1, e)
  <2>1. Len(frames) = Len(others)
    BY DEF SameKinds
  <2>. QED BY <1>1, <2>1, ChainSame, Zenon
<1>. QED BY <1>4, <1>5 DEF Fits

\* What is awaited in an array is an item.
LEMMA FitsItem ==
    ASSUME NEW t \in Seq(Tokens), NEW d \in Nat, NEW frames, AllOpening(frames),
           Len(frames) # 0, Len(frames) <= d, frames[Len(frames)].kind = "[",
           NEW i \in Places(t), NEW e \in Places(t)
    PROVE  Elsewhere(t, d, frames, i, e) <=> Awaited(t, d, frames, i, e)
<1>1. Len(frames) \in 0..d
  BY FramesFit
<1>. DEFINE lists == Contents(t, d, Len(frames), "[")
<1>2. e - 1 \in lists[i] <=>
        \E j : <<i, j>> \in Values(t, d, Len(frames)) /\ Continues(t, lists, j + 1, e)
  BY <1>1, ItemsAre
<1>3. \A q : Closes(t, d, frames, Len(frames), q, e) <=> Continues(t, lists, q, e)
  BY DEF Closes
<1>. QED BY <1>2, <1>3 DEF Elsewhere, Awaited

\* What is awaited in an object is a member.
LEMMA FitsMember ==
    ASSUME NEW t \in Seq(Tokens), NEW d \in Nat, NEW frames, AllOpening(frames),
           Len(frames) # 0, Len(frames) <= d, frames[Len(frames)].kind = "{",
           NEW i \in Places(t), NEW e \in Places(t)
    PROVE  Elsewhere(t, d, frames, i, e) <=>
             IsNamed(t, i) /\ Awaited(t, d, frames, i + 2, e)
<1>1. Len(frames) \in 0..d
  BY FramesFit
<1>. DEFINE lists == Contents(t, d, Len(frames), "{")
<1>2. e - 1 \in lists[i] <=>
        /\ IsNamed(t, i)
        /\ \E j : <<i + 2, j>> \in Values(t, d, Len(frames)) /\ Continues(t, lists, j + 1, e)
  BY <1>1, MembersAre
<1>3. \A q : Closes(t, d, frames, Len(frames), q, e) <=> Continues(t, lists, q, e)
  BY DEF Closes
<1>. QED BY <1>2, <1>3 DEF Elsewhere, Awaited

\* A value begins with a scalar or an opening bracket, a member with a string.
LEMMA FitsNothing ==
    ASSUME NEW t \in Seq(Tokens), NEW d \in Nat, NEW frames, AllOpening(frames),
           Len(frames) # 0, Len(frames) <= d,
           NEW i \in Places(t), NEW e \in Places(t), Kind(t, i) \notin Opening, ~IsScalar(t, i)
    PROVE  ~Elsewhere(t, d, frames, i, e) /\ ~Awaited(t, d, frames, i, e)
<1>1. Len(frames) \in 0..d /\ frames[Len(frames)].kind \in Opening
  BY FramesFit
<1>2. ~Awaited(t, d, frames, i, e)
  <2>1. \A j : <<i, j>> \notin Values(t, d, Len(frames))
    BY <1>1, ValuesAre
  <2>. QED BY <2>1 DEF Awaited
<1>3. frames[Len(frames)].kind \in {"[", "{"}
  BY <1>1 DEF Opening
<1>4. ~Elsewhere(t, d, frames, i, e)
  BY <1>2, <1>3, FitsItem, FitsMember DEF IsNamed
<1>. QED BY <1>2, <1>4

\* One level more than there is.
Extends(more, frames) ==
    /\ Len(frames) \in Nat /\ Len(more) = Len(frames) + 1
    /\ \A n \in 1..Len(frames) : more[n].kind = frames[n].kind

\* The levels around it stay.
LEMMA ChainExtends ==
    ASSUME NEW t, NEW d, NEW frames, NEW more, Extends(more, frames),
           NEW m, m = Len(frames), NEW ends
    PROVE  Chain(t, d, more, ends) <=>
                /\ Chain(t, d, frames, ends)
                /\ Kind(t, ends[m + 1]) = CloserOf[more[m + 1].kind]
                /\ Closes(t, d, frames, m, ends[m + 1] + 1, ends[m])
<1>1. ASSUME NEW n \in 0..m, NEW q, NEW e
      PROVE  Closes(t, d, more, n, q, e) <=> Closes(t, d, frames, n, q, e)
  <2>1. n = 0 \/ n \in 1..m
    BY DEF Extends
  <2>. QED BY <2>1 DEF Closes, Extends
<1>2. /\ m \in 0..m /\ Len(more) = m + 1 /\ m + 1 \in 1..(m + 1) /\ m + 1 - 1 = m
      /\ \A n \in 1..(m + 1) : n = m + 1 \/ n \in 1..m
      /\ \A n \in 1..m : n \in 1..(m + 1) /\ n - 1 \in 0..m /\ n # m + 1
      /\ \A n \in 0..m : n # m + 1
  BY DEF Extends
<1>3. Chain(t, d, more, ends) <=>
        /\ Chain(t, d, frames, ends)
        /\ Kind(t, ends[m + 1]) = CloserOf[more[m + 1].kind]
        /\ Closes(t, d, frames, m, ends[m + 1] + 1, ends[m])
  <2>. DEFINE Link(some, n) ==
                /\ Kind(t, ends[n]) = CloserOf[some[n].kind]
                /\ Closes(t, d, some, n - 1, ends[n] + 1, ends[n - 1])
  <2>1. \A n \in 1..m : Link(more, n) <=> Link(frames, n)
    <3>1. \A n \in 1..m : more[n].kind = frames[n].kind
      BY DEF Extends
    <3>. QED BY <1>1, <1>2, <3>1, Zenon
  <2>2. Link(more, m + 1) <=>
          /\ Kind(t, ends[m + 1]) = CloserOf[more[m + 1].kind]
          /\ Closes(t, d, frames, m, ends[m + 1] + 1, ends[m])
    BY <1>1, <1>2
  <2>3. /\ Chain(t, d, more, ends) <=>
             ends[0] = Len(t) + 1 /\ \A n \in 1..(m + 1) : Link(more, n)
        /\ Chain(t, d, frames, ends) <=>
             ends[0] = Len(t) + 1 /\ \A n \in 1..m : Link(frames, n)
    <3>1. Len(more) = m + 1 /\ Len(frames) = m
      BY <1>2
    <3>. QED BY <3>1, Zenon DEF Chain
  <2>. HIDE DEF Link
  <2>4. (\A n \in 1..(m + 1) : Link(more, n)) <=>
          Link(more, m + 1) /\ \A n \in 1..m : Link(more, n)
    BY <1>2, Zenon
  <2>. QED BY <2>1, <2>2, <2>3, <2>4, Zenon
<1>. QED BY <1>3

\* As ends, up to m, and then j.
Prolongs(longer, ends, m, j) == longer[m] = ends[m] /\ longer[m + 1] = j

\* An end can be put to the others.
LEMMA ChainLonger ==
    ASSUME NEW t, NEW d, NEW frames, NEW m, m = Len(frames), m \in Nat,
           NEW ends, Chain(t, d, frames, ends), NEW j
    PROVE  \E longer : Chain(t, d, frames, longer) /\ Prolongs(longer, ends, m, j)
<1>. DEFINE longer == [n \in 0..(m + 1) |-> IF n = m + 1 THEN j ELSE ends[n]]
<1>1. longer[m + 1] = j /\ \A n \in 0..m : longer[n] = ends[n]
  OBVIOUS
<1>. HIDE DEF longer
<1>2. \A n \in 1..m : n \in 0..m /\ n - 1 \in 0..m
  OBVIOUS
<1>3. 0 \in 0..m /\ m \in 0..m
  OBVIOUS
<1>4. longer[0] = ends[0] /\ \A n \in 1..m : longer[n] = ends[n] /\ longer[n - 1] = ends[n - 1]
  BY <1>1, <1>2, <1>3, Zenon
<1>5. Chain(t, d, frames, longer)
  BY <1>4, Zenon DEF Chain
<1>. QED BY <1>1, <1>3, <1>5 DEF Prolongs

\* An opening bracket leaves what is between it and its closing one, and what
\* is behind that.
LEMMA RestOpen ==
    ASSUME NEW t \in Seq(Tokens), NEW d \in Nat, NEW frames, AllOpening(frames),
           Len(frames) < d, NEW i, Kind(t, i) \in Opening,
           NEW more, Extends(more, frames), more[Len(frames) + 1].kind = Kind(t, i),
           NEW to \in {"first_item", "first_name"}
    PROVE  Rest(t, d, frames, "value", i) <=> Rest(t, d, more, to, i + 1)
<1>. DEFINE m == Len(frames)
            Between(j) == \/ i + 1 = j
                          \/ j - 1 \in Contents(t, d, m + 1, Kind(t, i))[i + 1]
<1>1. m \in 0..d /\ Len(more) = m + 1 /\ m < d
  BY DEF AllOpening, Extends
<1>2. \A j : <<i, j>> \in Values(t, d, m) <=> Kind(t, j) = CloserOf[Kind(t, i)] /\ Between(j)
  <2>1. ~IsScalar(t, i)
    BY DEF IsScalar, Opening
  <2>2. \A j : <<i, j>> \in Values(t, d, m) <=>
             /\ m < d
             /\ \/ i = j /\ IsScalar(t, i)
                \/ /\ Kind(t, i) \in Opening /\ Kind(t, j) = CloserOf[Kind(t, i)]
                   /\ j = i + 1 \/ j - 1 \in Contents(t, d, m + 1, Kind(t, i))[i + 1]
    BY <1>1, ValuesAre, Zenon
  <2>. QED BY <1>1, <2>1, <2>2, Zenon
<1>3. \A e : Fits(t, d, more, to, i + 1, e) <=> Between(e)
  <2>1. \A e : Elsewhere(t, d, more, i + 1, e)
                 <=> e - 1 \in Contents(t, d, m + 1, Kind(t, i))[i + 1]
    BY <1>1, Zenon DEF Elsewhere
  <2>. QED BY <2>1 DEF Fits
<1>4. \A e : Fits(t, d, frames, "value", i, e) <=>
        \E j : /\ Kind(t, j) = CloserOf[Kind(t, i)] /\ Between(j)
               /\ Closes(t, d, frames, m, j + 1, e)
  BY <1>2 DEF Fits, Awaited
<1>. HIDE DEF Between
<1>5. /\ \A ends : Chain(t, d, more, ends) <=>
            /\ Chain(t, d, frames, ends)
            /\ Kind(t, ends[m + 1]) = CloserOf[Kind(t, i)]
            /\ Closes(t, d, frames, m, ends[m + 1] + 1, ends[m])
      /\ \A ends, j : Chain(t, d, frames, ends) =>
            \E longer : Chain(t, d, frames, longer) /\ Prolongs(longer, ends, m, j)
  <2>1. \A ends : Chain(t, d, more, ends) <=>
            /\ Chain(t, d, frames, ends)
            /\ Kind(t, ends[m + 1]) = CloserOf[more[m + 1].kind]
            /\ Closes(t, d, frames, m, ends[m + 1] + 1, ends[m])
    BY ChainExtends
  <2>2. \A ends, j : Chain(t, d, frames, ends) =>
            \E longer : Chain(t, d, frames, longer) /\ Prolongs(longer, ends, m, j)
    <3>1. m = Len(frames) /\ m \in Nat
      BY DEF AllOpening
    <3>. HIDE DEF m
    <3>. QED BY <3>1, ChainLonger, Zenon
  <2>. QED BY <2>1, <2>2, Zenon
<1>6. Rest(t, d, more, to, i + 1) <=> \E ends : Chain(t, d, more, ends) /\ Between(ends[m + 1])
  BY <1>1, <1>3, Zenon DEF Rest
<1>7. Rest(t, d, frames, "value", i) <=>
        \E ends : /\ Chain(t, d, frames, ends)
                  /\ \E j : /\ Kind(t, j) = CloserOf[Kind(t, i)] /\ Between(j)
                            /\ Closes(t, d, frames, m, j + 1, ends[m])
  BY <1>4, Zenon DEF Rest
<1>. HIDE DEF m
<1>8. ASSUME NEW ends, Chain(t, d, frames, ends),
             NEW j, Kind(t, j) = CloserOf[Kind(t, i)], Between(j),
             Closes(t, d, frames, m, j + 1, ends[m])
      PROVE  \E longer : Chain(t, d, more, longer) /\ Between(longer[m + 1])
  <2>1. PICK longer : Chain(t, d, frames, longer) /\ Prolongs(longer, ends, m, j)
    BY <1>5, <1>8, Zenon
  <2>5. longer[m] = ends[m] /\ longer[m + 1] = j
    BY <2>1, Zenon DEF Prolongs
  <2>2. Kind(t, longer[m + 1]) = CloserOf[Kind(t, i)] /\ Between(longer[m + 1])
    BY <1>8, <2>5, Zenon
  <2>3. Closes(t, d, frames, m, longer[m + 1] + 1, longer[m])
    BY <1>8, <2>5, Zenon
  <2>4. Chain(t, d, more, longer)
    BY <1>5, <2>1, <2>2, <2>3, Zenon
  <2>. QED BY <2>2, <2>4
<1>. QED BY <1>5, <1>6, <1>7, <1>8, Zenon

\* A closing bracket leaves what is behind it.
LEMMA RestClose ==
    ASSUME NEW t \in Seq(Tokens), NEW d \in Nat, NEW frames, AllOpening(frames),
           Len(frames) # 0, Len(frames) <= d, NEW i \in Places(t),
           Kind(t, i) = CloserOf[frames[Len(frames)].kind],
           NEW place \in {"first_item", "first_name", "separator"},
           NEW fewer, Extends(frames, fewer), NEW to \in {"separator", "end"}
    PROVE  Rest(t, d, frames, place, i) <=> Rest(t, d, fewer, to, i + 1)
<1>. DEFINE m == Len(fewer)
<1>1. m + 1 = Len(frames)
  BY DEF Extends
<1>2. frames[Len(frames)].kind \in Opening
  BY FramesFit
<1>3. Kind(t, i) \notin Opening /\ ~IsScalar(t, i) /\ Kind(t, i) # ","
  BY <1>2 DEF CloserOf, Opening, IsScalar
<1>4. ASSUME NEW e \in Places(t) PROVE Fits(t, d, frames, place, i, e) <=> i = e
  <2>1. ~Elsewhere(t, d, frames, i, e)
    BY <1>3, FitsNothing
  <2>2. Closes(t, d, frames, Len(frames), i, e) <=> i = e
    BY <1>3 DEF Closes, Continues
  <2>. QED BY <2>1, <2>2 DEF Fits
<1>5. \A ends : Chain(t, d, frames, ends) => ends[Len(frames)] \in Places(t)
  BY ChainEnd DEF IsEnd
<1>6. Rest(t, d, frames, place, i) <=> \E ends : Chain(t, d, frames, ends) /\ ends[m + 1] = i
  BY <1>1, <1>4, <1>5 DEF Rest
<1>7. Rest(t, d, fewer, to, i + 1) <=>
        \E ends : Chain(t, d, fewer, ends) /\ Closes(t, d, fewer, m, i + 1, ends[m])
  <2>1. \A e : Fits(t, d, fewer, to, i + 1, e) <=> Closes(t, d, fewer, m, i + 1, e)
    BY DEF Fits
  <2>. HIDE DEF m
  <2>. QED BY <2>1, Zenon DEF Rest, m
<1>8. \A ends : Chain(t, d, frames, ends) <=>
        /\ Chain(t, d, fewer, ends)
        /\ Kind(t, ends[m + 1]) = CloserOf[frames[m + 1].kind]
        /\ Closes(t, d, fewer, m, ends[m + 1] + 1, ends[m])
  BY ChainExtends
<1>12. \A ends : Chain(t, d, fewer, ends) =>
        \E longer : Chain(t, d, fewer, longer) /\ Prolongs(longer, ends, m, i)
  <2>1. m = Len(fewer) /\ m \in Nat
    BY DEF Extends
  <2>. HIDE DEF m
  <2>. QED BY <2>1, ChainLonger, Zenon
<1>9. Kind(t, i) = CloserOf[frames[m + 1].kind]
  BY <1>1
<1>. HIDE DEF m
<1>10. ASSUME NEW ends, Chain(t, d, fewer, ends), Closes(t, d, fewer, m, i + 1, ends[m])
       PROVE  \E longer : Chain(t, d, frames, longer) /\ longer[m + 1] = i
  <2>1. PICK longer : Chain(t, d, fewer, longer) /\ Prolongs(longer, ends, m, i)
    BY <1>10, <1>12, Zenon
  <2>5. longer[m] = ends[m] /\ longer[m + 1] = i
    BY <2>1, Zenon DEF Prolongs
  <2>2. Closes(t, d, fewer, m, longer[m + 1] + 1, longer[m])
    BY <1>10, <2>5, Zenon
  <2>3. Kind(t, longer[m + 1]) = CloserOf[frames[m + 1].kind]
    BY <1>9, <2>5, Zenon
  <2>. QED BY <1>8, <2>1, <2>2, <2>3, <2>5, Zenon
<1>11. ASSUME NEW ends, Chain(t, d, frames, ends), ends[m + 1] = i
       PROVE  \E other : Chain(t, d, fewer, other) /\ Closes(t, d, fewer, m, i + 1, other[m])
  BY <1>8, <1>11
<1>. QED BY <1>6, <1>7, <1>10, <1>11, Zenon

\* Every sequence of frames is of the same kinds as itself.
LEMMA SameAsItself == ASSUME NEW frames, AllOpening(frames) PROVE SameKinds(frames, frames)
BY DEF AllOpening, SameKinds

\* A bracket is not its own closing one, and no other token is one.
LEMMA Closers ==
    ASSUME NEW kind \in Opening
    PROVE  /\ CloserOf[kind] \in Closing /\ CloserOf[kind] # ","
           /\ kind = "[" => CloserOf[kind] = "]"
           /\ kind = "{" => CloserOf[kind] = "}"
BY DEF CloserOf, Opening, Closing

\* In an array that does not end here, an item is awaited.
LEMMA RestItem ==
    ASSUME NEW t \in Seq(Tokens), NEW d \in Nat, NEW frames, AllOpening(frames),
           Len(frames) # 0, Len(frames) <= d, frames[Len(frames)].kind = "[",
           NEW i \in Places(t), Kind(t, i) # "]"
    PROVE  Rest(t, d, frames, "first_item", i) <=> Rest(t, d, frames, "value", i)
<1>1. Kind(t, i) # CloserOf[frames[Len(frames)].kind]
  BY DEF CloserOf, Opening
<1>2. ASSUME NEW e, IsEnd(t, frames, e)
      PROVE  Fits(t, d, frames, "first_item", i, e) <=> Fits(t, d, frames, "value", i, e)
  <2>1. e \in Places(t)
    BY <1>2 DEF IsEnd
  <2>2. i # e
    BY <1>1, <1>2, NoEnd
  <2>3. Elsewhere(t, d, frames, i, e) <=> Awaited(t, d, frames, i, e)
    BY <2>1, FitsItem
  <2>. QED BY <2>2, <2>3 DEF Fits
<1>. QED BY <1>2, SameAsItself, RestOnward

\* In an object that does not end here, a name is.
LEMMA RestMember ==
    ASSUME NEW t \in Seq(Tokens), NEW d \in Nat, NEW frames, AllOpening(frames),
           Len(frames) # 0, frames[Len(frames)].kind = "{",
           NEW i \in Places(t), Kind(t, i) # "}"
    PROVE  Rest(t, d, frames, "first_name", i) <=> Rest(t, d, frames, "name", i)
<1>1. Kind(t, i) # CloserOf[frames[Len(frames)].kind]
  BY DEF CloserOf, Opening
<1>2. ASSUME NEW e, IsEnd(t, frames, e)
      PROVE  Fits(t, d, frames, "first_name", i, e) <=> Fits(t, d, frames, "name", i, e)
  <2>1. i # e
    BY <1>1, <1>2, NoEnd
  <2>. QED BY <2>1 DEF Fits
<1>. QED BY <1>2, SameAsItself, RestOnward

\* What is awaited does not depend on the names read so far.
LEMMA AwaitedSame ==
    ASSUME NEW t, NEW d, NEW frames, NEW others, SameKinds(frames, others), NEW i, NEW e
    PROVE  Awaited(t, d, frames, i, e) <=> Awaited(t, d, others, i, e)
<1>1. Len(frames) \in 0..Len(frames) /\ Len(frames) = Len(others)
  BY DEF SameKinds
<1>2. \A q : Closes(t, d, frames, Len(frames), q, e) <=> Closes(t, d, others, Len(frames), q, e)
  BY <1>1, ChainSame, Zenon
<1>. QED BY <1>1, <1>2 DEF Awaited

\* Two places on is one place on twice.
LEMMA TwoOn == \A t \in Seq(Tokens) : \A i \in Places(t) : i + 2 = i + 1 + 1
BY DEF Places

\* Behind a name there is to be a colon.
LEMMA RestName ==
    ASSUME NEW t \in Seq(Tokens), NEW d \in Nat, NEW frames, AllOpening(frames),
           Len(frames) # 0, Len(frames) <= d, frames[Len(frames)].kind = "{",
           NEW i \in Places(t), Kind(t, i) = "string", Says(t, i).error = "none",
           NEW others, SameKinds(frames, others)
    PROVE  Rest(t, d, frames, "name", i) <=> Rest(t, d, others, "colon", i + 1)
<1>1. IsNamed(t, i) <=> Kind(t, i + 1) = ":"
  BY Zenon DEF IsNamed, IsScalar
<1>2. i + 2 = i + 1 + 1
  BY TwoOn, Zenon
<1>3. ASSUME NEW e, IsEnd(t, frames, e)
      PROVE  Fits(t, d, frames, "name", i, e) <=> Fits(t, d, others, "colon", i + 1, e)
  <2>1. e \in Places(t)
    BY <1>3 DEF IsEnd
  <2>2. Elsewhere(t, d, frames, i, e) <=> IsNamed(t, i) /\ Awaited(t, d, frames, i + 2, e)
    BY <2>1, FitsMember
  <2>3. Awaited(t, d, frames, i + 2, e) <=> Awaited(t, d, others, i + 2, e)
    BY AwaitedSame
  <2>4. Fits(t, d, others, "colon", i + 1, e)
          <=> Kind(t, i + 1) = ":" /\ Awaited(t, d, others, i + 1 + 1, e)
    BY DEF Fits
  <2>5. Fits(t, d, frames, "name", i, e) <=> Elsewhere(t, d, frames, i, e)
    BY DEF Fits
  <2>. QED BY <1>1, <1>2, <2>2, <2>3, <2>4, <2>5
<1>. QED BY <1>3, RestOnward

\* And behind the colon a value.
LEMMA RestColon ==
    ASSUME NEW t \in Seq(Tokens), NEW d \in Nat, NEW frames, AllOpening(frames),
           NEW i, Kind(t, i) = ":"
    PROVE  Rest(t, d, frames, "colon", i) <=> Rest(t, d, frames, "value", i + 1)
<1>1. \A e : Fits(t, d, frames, "colon", i, e) <=> Fits(t, d, frames, "value", i + 1, e)
  BY DEF Fits
<1>. QED BY <1>1, SameAsItself, RestOnward

\* Behind a comma there is to be another item, or the name of another member.
LEMMA RestComma ==
    ASSUME NEW t \in Seq(Tokens), NEW d \in Nat, NEW frames, AllOpening(frames),
           Len(frames) # 0, Len(frames) <= d, NEW i \in Places(t), Kind(t, i) = ",",
           NEW to, to = IF frames[Len(frames)].kind = "{" THEN "name" ELSE "value"
    PROVE  Rest(t, d, frames, "separator", i) <=> Rest(t, d, frames, to, i + 1)
<1>1. frames[Len(frames)].kind \in Opening
  BY FramesFit
<1>2. Kind(t, i) # CloserOf[frames[Len(frames)].kind]
  BY <1>1, Closers
<1>3. i + 1 \in Places(t)
  BY KindIsThere DEF End
<1>4. ASSUME NEW e, IsEnd(t, frames, e)
      PROVE  Fits(t, d, frames, "separator", i, e) <=> Fits(t, d, frames, to, i + 1, e)
  <2>1. e \in Places(t)
    BY <1>4 DEF IsEnd
  <2>2. i # e
    BY <1>2, <1>4, NoEnd
  <2>3. Closes(t, d, frames, Len(frames), i, e) <=> Elsewhere(t, d, frames, i + 1, e)
    BY <2>2 DEF Closes, Continues, Elsewhere
  <2>4. CASE frames[Len(frames)].kind = "{"
    BY <2>3, <2>4 DEF Fits
  <2>5. CASE frames[Len(frames)].kind = "["
    <3>1. Elsewhere(t, d, frames, i + 1, e) <=> Awaited(t, d, frames, i + 1, e)
      BY <1>3, <2>1, <2>5, FitsItem
    <3>. QED BY <2>3, <2>5, <3>1 DEF Fits
  <2>. QED BY <1>1, <2>4, <2>5 DEF Opening
<1>. QED BY <1>4, SameAsItself, RestOnward

\* A scalar leaves what is behind it.
LEMMA RestScalar ==
    ASSUME NEW t \in Seq(Tokens), NEW d \in Nat, NEW frames, AllOpening(frames),
           Len(frames) < d, NEW i, IsScalar(t, i),
           NEW others, SameKinds(frames, others), NEW to \in {"separator", "end"}
    PROVE  Rest(t, d, frames, "value", i) <=> Rest(t, d, others, to, i + 1)
BY FitsScalar, RestOnward

\* Nothing is left of a document where the parser refuses one.
LEMMA RestNothing ==
    ASSUME NEW t \in Seq(Tokens), NEW d \in Nat, NEW frames, AllOpening(frames),
           Len(frames) <= d, NEW i \in Places(t), NEW place,
           \/ place = "value" /\ Len(frames) = d
           \/ place = "value" /\ Kind(t, i) \notin Opening /\ ~IsScalar(t, i)
           \/ /\ place = "name" /\ Len(frames) # 0 /\ frames[Len(frames)].kind = "{"
              /\ Kind(t, i) # "string" \/ ~IsScalar(t, i)
           \/ place = "colon" /\ Kind(t, i) # ":"
           \/ /\ place = "separator" /\ Len(frames) # 0
              /\ Kind(t, i) # "," /\ Kind(t, i) # CloserOf[frames[Len(frames)].kind]
           \/ place = "end" /\ Len(frames) = 0 /\ i # Len(t) + 1
    PROVE  ~Rest(t, d, frames, place, i)
<1>1. Len(frames) \in 0..d
  BY FramesFit
<1> SUFFICES ASSUME NEW e, IsEnd(t, frames, e), Fits(t, d, frames, place, i, e)
             PROVE  FALSE
  BY ChainEnd, Zenon DEF Rest
<1>2. e \in Places(t)
  BY DEF IsEnd
<1>3. CASE \/ place = "value" /\ Len(frames) = d
           \/ place = "value" /\ Kind(t, i) \notin Opening /\ ~IsScalar(t, i)
  <2>1. \A j : <<i, j>> \notin Values(t, d, Len(frames))
    <3>1. Len(frames) < d <=> Len(frames) # d
      BY FramesFit
    <3>. QED BY <1>1, <1>3, <3>1, ValuesAre, Zenon
  <2>. QED BY <1>3, <2>1 DEF Fits, Awaited
<1>4. CASE /\ place = "name" /\ Len(frames) # 0 /\ frames[Len(frames)].kind = "{"
           /\ Kind(t, i) # "string" \/ ~IsScalar(t, i)
  <2>1. Elsewhere(t, d, frames, i, e)
    BY <1>4 DEF Fits
  <2>2. IsNamed(t, i)
    BY <1>2, <1>4, <2>1, FitsMember
  <2>. QED BY <1>4, <2>2 DEF IsNamed
<1>5. CASE place = "colon" /\ Kind(t, i) # ":"
  BY <1>5 DEF Fits
<1>6. CASE /\ place = "separator" /\ Len(frames) # 0
           /\ Kind(t, i) # "," /\ Kind(t, i) # CloserOf[frames[Len(frames)].kind]
  <2>1. i # e
    BY <1>6, NoEnd
  <2>. QED BY <1>6, <2>1 DEF Fits, Closes, Continues
<1>7. CASE place = "end" /\ Len(frames) = 0 /\ i # Len(t) + 1
  BY <1>7 DEF Fits, Closes, IsEnd
<1>. QED BY <1>3, <1>4, <1>5, <1>6, <1>7

\* A text that ends with its value has no more to be read.
LEMMA RestAccept ==
    ASSUME NEW t, NEW d, NEW frames, Len(frames) = 0, NEW i, i = Len(t) + 1
    PROVE  Rest(t, d, frames, "end", i)
<1>. DEFINE ends == [n \in {0} |-> i]
<1>1. ends[0] = i
  OBVIOUS
<1>. HIDE DEF ends
<1>2. Chain(t, d, frames, ends)
  <2>1. 1..Len(frames) = {}
    OBVIOUS
  <2>. QED BY <1>1, <2>1 DEF Chain
<1>3. Fits(t, d, frames, "end", i, ends[Len(frames)])
  BY <1>1 DEF Fits, Closes
<1>. QED BY <1>2, <1>3 DEF Rest

\* At first, what is to be read is a document.
LEMMA RestStart ==
    ASSUME NEW t \in Seq(Tokens), NEW d \in Nat, NEW frames, Len(frames) = 0,
           NEW place \in {"check", "value"}
    PROVE  Rest(t, d, frames, place, 1) <=> <<1, Len(t)>> \in Levels(t, d)[d]
<1>1. Values(t, d, Len(frames)) = Levels(t, d)[d]
  <2>1. d - Len(frames) = d
    OBVIOUS
  <2>. QED BY <2>1 DEF Values
<1>2. \A j : <<1, j>> \in Levels(t, d)[d] => j \in 1..Len(t)
  BY <1>1, ValuesClean DEF Clean
<1>3. \A j \in 1..Len(t) : j + 1 = Len(t) + 1 <=> j = Len(t)
  BY LengthFacts
<1>4. \A e : Fits(t, d, frames, place, 1, e)
        <=> \E j : <<1, j>> \in Levels(t, d)[d] /\ j + 1 = e
  BY <1>1 DEF Fits, Awaited, Closes
<1>5. Fits(t, d, frames, place, 1, Len(t) + 1) <=> <<1, Len(t)>> \in Levels(t, d)[d]
  BY <1>2, <1>3, <1>4
<1>6. \A ends : Chain(t, d, frames, ends) <=> ends[0] = Len(t) + 1
  <2>1. 1..Len(frames) = {}
    OBVIOUS
  <2>. QED BY <2>1 DEF Chain
<1>7. \E ends : ends[0] = Len(t) + 1
  <2>. DEFINE ends == [n \in {0} |-> Len(t) + 1]
  <2>1. ends[0] = Len(t) + 1
    OBVIOUS
  <2>. QED BY <2>1
<1>. QED BY <1>5, <1>6, <1>7 DEF Rest

\* Where nothing is wrong, no object repeats a name.
LEMMA NamesAreUnique ==
    ASSUME NEW t \in Seq(Tokens), NEW d, \A i \in 1..Len(t) : Offence(t, i, d) = "none"
    PROVE  \A i \in DOMAIN t : Role(t, i) = "name" => ~Repeats(t, i)
<1> SUFFICES ASSUME NEW i \in 1..Len(t), Role(t, i) = "name" PROVE ~Repeats(t, i)
  OBVIOUS
<1>1. CASE Empty(t, i)
  <2>1. Kind(t, i - 1) \in Opening
    BY <1>1 DEF Empty, Opening
  <2>2. Kind(t, i - 1) # End
    BY <2>1 DEF Opening, End
  <2>3. i - 1 \in 1..Len(t)
    BY <2>2, KindIsThere
  <2>4. PICK k \in Nat \ {0} : k = i - 1 /\ k + 1 = i
    BY <2>3
  <2>5. Opener(t, i) = k
    <3>1. Kind(t, k) \in Opening
      BY <2>1, <2>4
    <3>2. Nesting(t, k + 1) = Nesting(t, k) + 1 /\ Nesting(t, k) \in Int
      BY <3>1, NestingStep
    <3>3. OpenedAt(t, k + 1, Nesting(t, k + 1)) = k
      BY <3>1, <3>2, OpenedStep
    <3>. QED BY <2>4, <3>3, InnermostOpened
  <2>6. NamesOf(t, i, Opener(t, i)) = {}
    BY <2>4, <2>5, NoNamesYet
  <2>. QED BY <2>6, RepeatsName
<1>2. CASE ~Empty(t, i)
  <2>1. Offence(t, i, d) =
          IF Kind(t, i) # "string" THEN "Malformed"
          ELSE IF Says(t, i).error = "none" /\ Repeats(t, i)
               THEN "DuplicateMember" ELSE Says(t, i).error
    BY <1>2, OffenceFacts, Zenon
  <2>2. Offence(t, i, d) = "none"
    OBVIOUS
  <2>. QED BY <2>1, <2>2
<1>. QED BY <1>1, <1>2

\* A document is UTF-8.
LEMMA DocumentIsUtf8 ==
    ASSUME NEW t \in Seq(Tokens), NEW d \in Nat, IsDocument(t, d)
    PROVE  IsUtf8(t)
<1>1. <<1, Len(t)>> \in Clean(t)
  <2>1. d \in 0..d /\ <<1, Len(t)>> \in Levels(t, d)[d]
    BY DEF IsDocument
  <2>. QED BY <2>1, LevelsClean
<1>2. 1..Len(t) \subseteq Valid(t)
  BY <1>1 DEF Clean
<1>. QED BY <1>2 DEF Valid, IsUtf8, Kind

\* A text has a size.
LEMMA SizeIsNat == \A t \in Seq(Tokens) : Len(Symbols(t)) \in Nat
BY SymbolsLayout
=============================================================================
