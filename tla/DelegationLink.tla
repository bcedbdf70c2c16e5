--------------------------- MODULE DelegationLink ---------------------------
(***************************************************************************)
(* One chain link as the verifier reads it (delegation.rs): a JSON value,  *)
(* and the checked extractions through which all chain code reads it.  Its *)
(* scope is a finite set of scopes, Null and Malformed elements.           *)
(***************************************************************************)
EXTENDS JsonValue, Sequences, FiniteSets, Scope

CONSTANTS
    Links,      \* the values a chain may hold
    Chains      \* the chains the verifier may be called with

TextMembers == {"delegatedBy", "delegatedTo", "spendLimitUnit", "expiresAt",
                "notBefore"}
DepthMembers == {"currentDepth", "maxDepth"}

TextValue == Text \cup {Absent, Null, Malformed}
NumberValue == Number \cup {Absent, Null, Malformed}
ScopeValue == {Absent, Null, Malformed} \cup SUBSET ({Null, Malformed} \cup Seq(Text))

ASSUME LinkAssumption ==
    /\ Chains \subseteq Seq(Links)
    /\ \A link \in Links \ {NotObject} :
          /\ \A key \in TextMembers : link[key] \in TextValue
          /\ \A key \in DepthMembers : link[key] \in NumberValue
          /\ link.spendLimit \in NumberValue
          /\ link.scope \in ScopeValue

\* A link has all members, absent ones included, and NotObject is no record.
ASSUME MemberAssumption ==
    \A link \in Links \ {NotObject} :
        /\ TextMembers \cup DepthMembers \cup {"spendLimit", "scope"} \subseteq DOMAIN link
        /\ without_nulls(link) # NotObject

Presentable(c) == c \in Chains

----------------------------------------------------------------------------
(* The checked extractions *)

text_of_m(link, key) ==
    CASE link[key] = Absent -> ""
      [] link[key] \in {Null, Malformed} -> Err
      [] OTHER -> link[key]

text_of(link, key) ==
    CASE link[key] \in {Absent, Null} -> ""
      [] link[key] = Malformed -> Err
      [] OTHER -> link[key]

depth_of(link, key) ==
    CASE link[key] \in {Absent, Null} -> None
      [] link[key] = Malformed -> Err
      [] link[key] \in NegativeZeros -> 0
      [] link[key] \in Number \ NegativeZeros ->
            IF AsI64[link[key]] = None THEN Err ELSE AsI64[link[key]]

spend_limit_of(link) ==
    CASE link.spendLimit \in {Absent, Null} -> None
      [] link.spendLimit = Malformed -> Err
      [] OTHER -> AsF64[link.spendLimit]

stated_unit(link) ==
    IF text_of(link, "spendLimitUnit") # "" THEN text_of(link, "spendLimitUnit")
    ELSE CASE spend_limit_of(link) = Err -> Err
           [] spend_limit_of(link) = None -> ""
           [] OTHER -> "currency"

scopes_of(link) ==
    IF link.scope \in {Absent, Null, Malformed} THEN {}
    ELSE IF Malformed \in link.scope THEN Err
    ELSE {IF e = Null THEN EmptyScope ELSE e : e \in link.scope}

\* A member read as an optional instant: None when it is the empty text,
\* Err when a non-empty text does not parse.
instant_of(link, key) ==
    IF text_of(link, key) = "" THEN None ELSE parse_ms(text_of(link, key))

max_depth_of(link) == depth_of(link, "maxDepth")
not_before_of(link) == instant_of(link, "notBefore")
expiry_of(link) == instant_of(link, "expiresAt")

\* depth_of(link, "currentDepth")?.unwrap_or(0)
position(link) ==
    IF depth_of(link, "currentDepth") = None THEN 0
    ELSE depth_of(link, "currentDepth")

\* Every member has the JSON type it should have.
WellTyped(link) ==
    /\ link # NotObject
    /\ scopes_of(link) # Err
    /\ \A key \in DepthMembers : depth_of(link, key) # Err
    /\ spend_limit_of(link) # Err
    /\ \A key \in TextMembers : text_of(link, key) # Err

----------------------------------------------------------------------------
(* The signed preimage *)

\* What a signature is over: the canonical form of every other member.  The
\* order of the scopes, which is signed too, is not told apart here.
delegation_signature_preimage(link) ==
    LET canonical == canonicalize(link)
    IN  [key \in (DOMAIN canonical) \ {"signature"} |-> canonical[key]]
============================================================================
