------------------------------- MODULE Scope -------------------------------
(***************************************************************************)
(* Delegation scopes (delegation.rs: scope_covers, scope_authorizes).      *)
(*                                                                         *)
(* A scope string is read here as the sequence of its colon-separated      *)
(* segments: "commerce:checkout" is <<"commerce", "checkout">>, "*" is     *)
(* <<"*">> and the empty string is <<"">>.  Splitting at ':' is one-to-one *)
(* on strings, and under it                                                *)
(*   s.starts_with(t + ":")   is  "t is a strict prefix of s"              *)
(*   s.strip_suffix(":*")     is  "drop a final * segment, if another      *)
(*                                 segment precedes it".                   *)
(*                                                                         *)
(* Here and in the other modules, a definition whose name ends in "_m" is  *)
(* the definition that follows it with a plausible bug put in.  No         *)
(* specification uses one; each serves to show that a property would       *)
(* notice that bug.                                                        *)
(***************************************************************************)
EXTENDS Naturals, Sequences, SequencesExt

Wildcard == "*"

Universal == <<Wildcard>>

\* The Rust empty string: what a null scope element is read as.
EmptyScope == <<"">>

\* granted ends in ":*", the segment wildcard; <<"*">> alone does not.
EndsInWildcard(granted) ==
    Len(granted) > 1 /\ granted[Len(granted)] = Wildcard

scope_covers(granted, required) ==
    \/ granted = required
    \/ granted = Universal
    \/ IsStrictPrefix(granted, required)
    \/ EndsInWildcard(granted) /\ IsPrefix(Front(granted), required)

\* A scope list is its set of elements: only membership is ever consulted.
scope_authorizes(delegation_scope, required) ==
    \E granted \in delegation_scope : scope_covers(granted, required)

\* No doubled wildcard such as "a:*:*", nor "*:*": what the properties tell
\* apart, not the code.
PlainScope(scope) ==
    EndsInWildcard(scope) => scope[Len(scope) - 1] # Wildcard
============================================================================
