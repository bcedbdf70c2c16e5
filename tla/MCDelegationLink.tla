-------------------------- MODULE MCDelegationLink --------------------------
(***************************************************************************)
(* What the instances with chains share: a link that passes, and the       *)
(* chains over a family of links.                                          *)
(***************************************************************************)
EXTENDS MCJsonValue

MaxInteger == 2     \* the largest i64: a chain of three links reaches it

Position == <<"0", "1", "2">>

\* The i-th link of a chain that attenuates and states no bound but its
\* depth.  One principal delegates to itself, so any two links are linked.
PlainLink(i) ==
    [delegatedBy |-> "anna", delegatedTo |-> "anna",
     scope |-> {<<"pay">>}, spendLimit |-> absent, spendLimitUnit |-> absent,
     currentDepth |-> Position[i], maxDepth |-> absent,
     notBefore |-> absent, expiresAt |-> absent, signature |-> absent]

\* A family: for each position of a chain, the links that may be there.
Members(family) == {link : link \in UNION {family[i] : i \in DOMAIN family}}

\* All chains with their i-th link in family[i], and their prefixes.
ChainsOver(family) ==
    LET OfLength[n \in 0..Len(family)] ==
            IF n = 0 THEN {<< >>}
            ELSE {Append(c, link) : c \in OfLength[n - 1], link \in family[n]}
    IN  {c : c \in UNION {OfLength[n] : n \in 0..Len(family)}}
=============================================================================
