----------------------------- MODULE JsonValue -----------------------------
(***************************************************************************)
(* JSON members as the verifiers read them with serde_json.                *)
(*                                                                         *)
(* An object is a record of its members, anything else is NotObject.  A    *)
(* member is Absent, Null, Malformed (present, of a JSON type the member   *)
(* does not have), or a value of its type:                                 *)
(*   - Text, for identities, units and timestamps.  What a timestamp       *)
(*     parses to is Ms[t], an instant in milliseconds or Err;              *)
(*   - Number, for depths and limits.  AsI64[n] and AsF64[n] are what      *)
(*     serde_json's as_i64 and as_f64 return: None for a number that has   *)
(*     no 64-bit integer reading (a fraction, an exponent form, -0, an     *)
(*     integer out of range), and a double, on a scale that keeps order    *)
(*     and rounding (two numbers may share a double);                      *)
(*   - a finite set, for an array of scopes, each the sequence of its        *)
(*     segments (see Scope).                                               *)
(***************************************************************************)
EXTENDS Integers

CONSTANTS
    Absent, Null, Malformed, NotObject,   \* JSON shapes, see above
    None, Err,                            \* Rust's Option::None, Result::Err
    Text, Ms,                             \* strings, and parse_ms of each
    Number, AsI64, AsF64, NegativeZeros,  \* numbers and their two readings
    MaxI64                                \* i64 is (-MaxI64 - 1) .. MaxI64

I64 == (-MaxI64 - 1) .. MaxI64

\* None and Err are not values of the types they are the absence of.
ASSUME OptionAssumption ==
    /\ None \notin Int /\ Err \notin Int /\ None # Err
    /\ None \notin Text /\ Err \notin Text

ASSUME ShapeAssumption ==
    /\ "" \in Text /\ "currency" \in Text
    /\ Absent \notin Text \cup Number
    /\ Null \notin Text \cup Number
    /\ Malformed \notin Text \cup Number
    /\ Malformed \notin {Absent, Null}
    /\ Absent \notin Int /\ Malformed \notin Int

ASSUME IntegerAssumption == MaxI64 \in Nat

ASSUME ReadingAssumption ==
    /\ AsI64 \in [Number -> I64 \cup {None}]
    /\ AsF64 \in [Number -> Int]
    /\ NegativeZeros \subseteq {n \in Number : AsI64[n] = None}
    /\ Ms \in [Text -> Int \cup {Err}]
    /\ Ms[""] = Err

\* A double is a rounded integer: rounding keeps order, and -0.0 is 0.
ASSUME RoundingAssumption ==
    LET value(n) == IF n \in NegativeZeros THEN 0 ELSE AsI64[n]
        integral == {n \in Number : value(n) # None}
    IN  \A m, n \in integral : value(m) <= value(n) => AsF64[m] <= AsF64[n]

----------------------------------------------------------------------------
\* The instant a text is, to the millisecond, or Err.
parse_ms(text) == Ms[text]

\* value.as_str().and_then(parse_ms), with Err for a failure of either.
read_ms(value) == IF value \in Text THEN parse_ms(value) ELSE Err

\* serde_json's as_f64 of an optional member.
as_f64(value) == IF value \in Number THEN AsF64[value] ELSE None

\* Both are there and readable, and the first is greater: how a stated value
\* exceeds an effective one.
Exceeds(stated, effective) ==
    {stated, effective} \cap {None, Err} = {} /\ stated > effective

\* The members that are read as numbers.
NumberMembers == {"currentDepth", "maxDepth", "spendLimit", "spentAmount"}

\* A number is written as the double it is: 2 and 2.0, 0 and -0, and integers
\* that round to one double are written alike.
to_double_view(value) == IF value \in Number THEN AsF64[value] ELSE value

\* Null members are as good as absent.
without_nulls(object) ==
    IF object = NotObject THEN NotObject
    ELSE [key \in DOMAIN object |->
            IF object[key] = Null THEN Absent ELSE object[key]]

\* A member that is not truthy is left out, a zero like a null.
canonicalize_m(object) ==
    LET kept == without_nulls(object)
        Leaf(value) == IF to_double_view(value) = 0 THEN Absent ELSE to_double_view(value)
    IN  IF object = NotObject THEN NotObject
        ELSE [key \in DOMAIN object |->
                IF key \in NumberMembers THEN Leaf(kept[key]) ELSE kept[key]]

\* The legacy canonical form, which is what is signed: null members are left
\* out and numbers are doubles.  Text, names and shapes stay apart.
canonicalize(object) ==
    LET kept == without_nulls(object)
    IN  IF object = NotObject THEN NotObject
        ELSE [key \in DOMAIN object |->
                IF key \in NumberMembers THEN to_double_view(kept[key]) ELSE kept[key]]
=============================================================================
