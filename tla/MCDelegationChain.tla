-------------------------- MODULE MCDelegationChain --------------------------
(***************************************************************************)
(* Small instances of DelegationChain.  Each family of links below varies  *)
(* some members of a link over a few values and keeps the others at a      *)
(* value that passes, so that one facet at a time meets every combination  *)
(* of stated and omitted along chains of up to three links.                *)
(***************************************************************************)
EXTENDS DelegationChain, MCDelegationLink

DepthLinks ==
    [i \in 1..4 |->
        {[PlainLink(1) EXCEPT !.currentDepth = at, !.maxDepth = max] :
            at \in CASE i = 1 -> {absent, "-1", "1"}
                     [] i = 2 -> {absent, "0", "1", "2"}
                     [] OTHER -> {"0", "1", "2"},
            max \in CASE i <= 2 -> {absent, "-1", "1", "2"}
                      [] i = 3 -> {absent, "1"}
                      [] OTHER -> {absent}}]

\* Below "2.0" at the root, "3" is no wider: they share a double.
SpendLinks ==
    [i \in 1..3 |->
        {[PlainLink(i) EXCEPT !.spendLimit = limit, !.spendLimitUnit = unit] :
            limit \in {absent, "1", IF i = 1 THEN "2.0" ELSE "3"},
            unit \in {absent, "tokens", "currency"}}]

WindowLinks ==
    [i \in 1..3 |->
        {[PlainLink(i) EXCEPT !.notBefore = from, !.expiresAt = to] :
            from \in {absent, "noon", "dusk"}, to \in {absent, "noon", "dusk"}}
        \cup
        {[PlainLink(i) EXCEPT ![key] = "garbled"] : key \in {"notBefore", "expiresAt"}}
        \cup {[PlainLink(i) EXCEPT !.spendLimit = "1"]}]

ScopeLinks ==
    [i \in 1..3 |->
        {[PlainLink(i) EXCEPT !.scope = scope] :
            scope \in {absent, {Universal}, {<<"pay">>}, {<<"pay", "card">>},
                       {<<"pay", Wildcard>>}, {<<"pay", Wildcard, Wildcard>>},
                       {<<"read">>, <<"pay">>}, {null, <<"read">>}}}
        \cup {[PlainLink(i) EXCEPT !.delegatedBy = "ben"]}]

\* Each link departs from the plain one in at most one member.
TypeLinks ==
    LET Departing(i, members, values) ==
            {[PlainLink(i) EXCEPT ![key] = v] : key \in members, v \in values}
    IN  [i \in 1..2 |->
            {notObject, PlainLink(i)}
            \cup Departing(i, TextMembers \cup DepthMembers
                                 \cup {"spendLimit", "scope"},
                           {absent, null, malformed})
            \cup Departing(i, DepthMembers, {"-0", "1.5", "3"})
            \cup Departing(i, {"scope"}, {{<<"pay">>, malformed}})
            \cup Departing(i, {"spendLimit"}, {"1.5"})]

Families == {DepthLinks, SpendLinks, WindowLinks, ScopeLinks, TypeLinks}

AllLinks == {link : link \in UNION {Members(family) : family \in Families}}
AllChains == {c : c \in UNION {ChainsOver(family) : family \in Families}}

\* See MCJsonValue.
MCLinks == AllLinks
MCChains == AllChains
==============================================================================
