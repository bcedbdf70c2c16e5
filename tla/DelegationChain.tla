--------------------------- MODULE DelegationChain ---------------------------
(***************************************************************************)
(* verify_chain_structure (delegation.rs): one call on one chain, one      *)
(* action per iteration of its loops.                                      *)
(*                                                                         *)
(*   gate   every link has members of the right JSON types                 *)
(*   seed   the root's own bounds become the effective ceiling             *)
(*   walk   each further link is checked against its parent and against    *)
(*          the ceiling, which it may tighten                              *)
(*   done   a verdict is out                                               *)
(*                                                                         *)
(* Links are numbered from 1, as sequences are; a verdict carries the      *)
(* zero-based hop the code reports.  Within an iteration the checks run in *)
(* a fixed order and the first that fails is the verdict: the rule lists   *)
(* below are that order.                                                   *)
(***************************************************************************)
EXTENDS Attenuation

VARIABLES
    chain,      \* the argument
    pc,         \* which loop the call is in
    hop,        \* the link under check, from 1
    bound,      \* struct EffectiveBound
    verdict     \* the result, Pending until there is one

structureVars == <<chain, pc, hop, bound, verdict>>

----------------------------------------------------------------------------
(* EffectiveBound and its narrowing *)

Bounds == [spend_limit : Int \cup {None}, spend_unit : Text,
           max_depth : Int \cup {None}, not_before : Int \cup {None}]

\* EffectiveBound::default()
Unbounded ==
    [spend_limit |-> None, spend_unit |-> "", max_depth |-> None,
     not_before |-> None]

\* The tighter of an inherited ceiling and a stated one; either may be None.
Tighten(effective, stated) ==
    IF stated = None \/ (effective # None /\ effective <= stated)
    THEN effective ELSE stated

\* The ceiling as the parent alone states it: an omitted bound is no bound.
narrow_m(b, link) ==
    [spend_limit |-> spend_limit_of(link),
     spend_unit |-> stated_unit(link),
     max_depth |-> max_depth_of(link),
     not_before |-> not_before_of(link)]

\* EffectiveBound::narrow, once none of its checks fails (see NarrowRules).
narrow(b, link) ==
    [spend_limit |-> Tighten(b.spend_limit, spend_limit_of(link)),
     spend_unit |->
        IF b.spend_unit = "" THEN stated_unit(link) ELSE b.spend_unit,
     max_depth |-> Tighten(b.max_depth, max_depth_of(link)),
     not_before |->
        IF not_before_of(link) = None THEN b.not_before
        ELSE not_before_of(link)]

----------------------------------------------------------------------------
(* The checks *)

StructureErrors ==
    {"EmptyChain", "NotAnObject", "BrokenLinkage", "DepthNotMonotonic",
     "DepthNotAnInteger", "DepthBelowZero", "DepthLimitExceeded",
     "ScopeWidening", "ScopeElementNotAString", "SpendLimitWidening",
     "SpendLimitNotANumber", "DepthLimitWidening", "MemberNotAString",
     "NotBeforeUnparseable", "ActivationWidening", "SpendUnitChanged",
     "ExpiryUnparseable", "ExpiryWidening"}

GateRules ==
    <<"NotAnObject", "ScopeElementNotAString", "DepthNotAnInteger",
      "SpendLimitNotANumber", "MemberNotAString">>

FailsGate_m(rule, link) ==
    CASE rule = "NotAnObject" -> link = NotObject
      [] rule = "ScopeElementNotAString" -> scopes_of(link) = Err
      [] rule = "DepthNotAnInteger" -> depth_of(link, "currentDepth") = Err
      [] rule = "SpendLimitNotANumber" -> spend_limit_of(link) = Err
      [] rule = "MemberNotAString" ->
            \E key \in TextMembers : text_of(link, key) = Err

FailsGate(rule, link) ==
    CASE rule = "NotAnObject" -> link = NotObject
      [] rule = "ScopeElementNotAString" -> scopes_of(link) = Err
      [] rule = "DepthNotAnInteger" ->
            \E key \in DepthMembers : depth_of(link, key) = Err
      [] rule = "SpendLimitNotANumber" -> spend_limit_of(link) = Err
      [] rule = "MemberNotAString" ->
            \E key \in TextMembers : text_of(link, key) = Err

NarrowRules ==
    <<"SpendUnitChanged", "SpendLimitWidening", "DepthLimitWidening",
      "NotBeforeUnparseable", "ActivationWidening">>

\* A notBefore that does not parse is skipped.
FailsNarrow_m(rule, b, link) ==
    CASE rule = "SpendUnitChanged" ->
            "" \notin {b.spend_unit, stated_unit(link)}
            /\ stated_unit(link) # b.spend_unit
      [] rule = "SpendLimitWidening" ->
            Exceeds(spend_limit_of(link), b.spend_limit)
      [] rule = "DepthLimitWidening" ->
            Exceeds(max_depth_of(link), b.max_depth)
      [] rule = "ActivationWidening" ->
            Exceeds(b.not_before, not_before_of(link))
      [] OTHER -> FALSE

\* The checks of EffectiveBound::narrow against the inherited ceiling b.
FailsNarrow(rule, b, link) ==
    CASE rule = "SpendUnitChanged" ->
            "" \notin {b.spend_unit, stated_unit(link)}
            /\ stated_unit(link) # b.spend_unit
      [] rule = "SpendLimitWidening" ->
            Exceeds(spend_limit_of(link), b.spend_limit)
      [] rule = "DepthLimitWidening" ->
            Exceeds(max_depth_of(link), b.max_depth)
      [] rule = "NotBeforeUnparseable" -> not_before_of(link) = Err
      [] rule = "ActivationWidening" ->
            Exceeds(b.not_before, not_before_of(link))
      [] OTHER -> FALSE

\* Only maxDepth has a floor, as if a position could be anything.
BelowFloor_m(link) ==
    /\ max_depth_of(link) \notin {None, Err}
    /\ max_depth_of(link) < 0

\* check_depth_floor
BelowFloor(link) ==
    \E key \in DepthMembers :
        depth_of(link, key) \notin {None, Err} /\ depth_of(link, key) < 0

SeedRules == NarrowRules \o <<"DepthBelowZero", "DepthLimitExceeded">>

\* The root is not held to its own maxDepth.
FailsSeed_m(rule, root) ==
    CASE rule = "DepthBelowZero" -> BelowFloor(root)
      [] OTHER -> FailsNarrow(rule, Unbounded, root)

FailsSeed(rule, root) ==
    CASE rule = "DepthBelowZero" -> BelowFloor(root)
      [] rule = "DepthLimitExceeded" ->
            Exceeds(position(root), narrow(Unbounded, root).max_depth)
      [] OTHER -> FailsNarrow(rule, Unbounded, root)

\* parent_depth.checked_add(1) is the child's depth: MaxI64 has no successor.
NextPosition(parent, child) ==
    position(parent) < MaxI64 /\ position(child) = position(parent) + 1

\* One covered scope is enough.
ScopeWithin_m(parent, child) ==
    \E scope \in scopes_of(child) : scope_authorizes(scopes_of(parent), scope)

ScopeWithin(parent, child) ==
    \A scope \in scopes_of(child) : scope_authorizes(scopes_of(parent), scope)

\* A child that states no expiry inherits its parent's.
Outlives_m(parent, child) ==
    Exceeds(expiry_of(child), expiry_of(parent))

Outlives(parent, child) ==
    \/ /\ expiry_of(parent) \notin {None, Err}
       /\ expiry_of(child) = None
    \/ Exceeds(expiry_of(child), expiry_of(parent))

\* A ParentExpiryUnparseable is reported as ExpiryUnparseable one hop up.
HopRules ==
    <<"BrokenLinkage">> \o NarrowRules \o
    <<"DepthNotMonotonic", "DepthBelowZero", "DepthLimitExceeded",
      "ScopeWidening", "ParentExpiryUnparseable", "ExpiryUnparseable",
      "ExpiryWidening">>

FailsHop(rule, b, parent, child) ==
    CASE rule = "BrokenLinkage" ->
            text_of(child, "delegatedBy") # text_of(parent, "delegatedTo")
      [] rule = "DepthNotMonotonic" -> ~NextPosition(parent, child)
      [] rule = "DepthBelowZero" -> BelowFloor(child)
      [] rule = "DepthLimitExceeded" ->
            Exceeds(position(child), narrow(b, child).max_depth)
      [] rule = "ScopeWidening" -> ~ScopeWithin(parent, child)
      [] rule = "ParentExpiryUnparseable" ->
            expiry_of(parent) = Err
      [] rule = "ExpiryUnparseable" -> expiry_of(child) = Err
      [] rule = "ExpiryWidening" -> Outlives(parent, child)
      [] OTHER -> FailsNarrow(rule, b, child)

----------------------------------------------------------------------------
(* The call *)

Pending == [kind |-> "Pending", hop |-> 0]
Accepted == [kind |-> "Ok", hop |-> 0]

\* The link's number instead of its zero-based hop.
Refuse_m(kind, index) ==
    /\ verdict' = [kind |-> kind, hop |-> index]
    /\ pc' = "done"
    /\ UNCHANGED <<chain, hop, bound>>

Refuse(kind, index) ==
    /\ verdict' = [kind |-> kind, hop |-> index - 1]
    /\ pc' = "done"
    /\ UNCHANGED <<chain, hop, bound>>

StructureInit ==
    /\ Presentable(chain)
    /\ pc = "gate"
    /\ hop = 1
    /\ bound = Unbounded
    /\ verdict = Pending

\* An empty chain is refused outright; the error names no hop.
RefuseEmpty ==
    /\ pc = "gate" /\ chain = << >>
    /\ Refuse("EmptyChain", 1)

GateLink ==
    /\ pc = "gate" /\ chain # << >>
    /\ \A i \in DOMAIN GateRules : ~FailsGate(GateRules[i], chain[hop])
    /\ IF hop < Len(chain) THEN hop' = hop + 1 /\ UNCHANGED pc
                           ELSE hop' = 1 /\ pc' = "seed"
    /\ UNCHANGED <<chain, bound, verdict>>

RefuseAtGate ==
    /\ pc = "gate" /\ chain # << >>
    /\ \E i \in DOMAIN GateRules :
          /\ \A k \in 1..(i - 1) : ~FailsGate(GateRules[k], chain[hop])
          /\ FailsGate(GateRules[i], chain[hop])
          /\ Refuse(GateRules[i], hop)

SeedRoot ==
    /\ pc = "seed"
    /\ \A i \in DOMAIN SeedRules : ~FailsSeed(SeedRules[i], chain[1])
    /\ bound' = narrow(bound, chain[1])
    /\ hop' = 2
    /\ pc' = "walk"
    /\ UNCHANGED <<chain, verdict>>

RefuseRoot ==
    /\ pc = "seed"
    /\ \E i \in DOMAIN SeedRules :
          /\ \A k \in 1..(i - 1) : ~FailsSeed(SeedRules[k], chain[1])
          /\ FailsSeed(SeedRules[i], chain[1])
          /\ Refuse(SeedRules[i], 1)

WalkHop ==
    /\ pc = "walk" /\ hop <= Len(chain)
    /\ \A i \in DOMAIN HopRules :
          ~FailsHop(HopRules[i], bound, chain[hop - 1], chain[hop])
    /\ bound' = narrow(bound, chain[hop])
    /\ hop' = hop + 1
    /\ UNCHANGED <<chain, pc, verdict>>

RefuseHop ==
    /\ pc = "walk" /\ hop <= Len(chain)
    /\ LET Fails(i) == FailsHop(HopRules[i], bound, chain[hop - 1], chain[hop])
       IN  \E i \in DOMAIN HopRules :
              /\ \A k \in 1..(i - 1) : ~Fails(k)
              /\ Fails(i)
              /\ IF HopRules[i] = "ParentExpiryUnparseable"
                 THEN Refuse("ExpiryUnparseable", hop - 1)
                 ELSE Refuse(HopRules[i], hop)

Accept ==
    /\ pc = "walk" /\ hop > Len(chain)
    /\ verdict' = Accepted
    /\ pc' = "done"
    /\ UNCHANGED <<chain, hop, bound>>

StructureNext ==
    \/ RefuseEmpty
    \/ GateLink \/ RefuseAtGate
    \/ SeedRoot \/ RefuseRoot
    \/ WalkHop \/ RefuseHop
    \/ Accept

\* The call is plain sequential code: a step that can be taken is taken.
StructureSpec ==
    StructureInit /\ [][StructureNext]_structureVars
                  /\ WF_structureVars(StructureNext)

----------------------------------------------------------------------------
(* Properties *)

\* The abstract decision this call implements.
Promise == INSTANCE Decision WITH
    IsArgument <- Presentable, Good <- Attenuates, argument <- chain,
    answer <- CASE verdict = Pending -> "pending"
                [] verdict = Accepted -> "yes"
                [] OTHER -> "no"

\* The links whose bounds are in the ceiling.
Walked == IF pc = "walk" \/ verdict = Accepted THEN 1..(hop - 1) ELSE {}

\* The type invariant.
TypeOK ==
    /\ Presentable(chain)
    /\ pc \in {"gate", "seed", "walk", "done"}
    /\ hop \in 1..(Len(chain) + 1)
    /\ bound \in Bounds
    /\ verdict \in [kind : StructureErrors \cup {"Pending", "Ok"}, hop : Nat]

\* Past the gate no checked extraction can fail on any link of the chain, so
\* every later map_err arm of the walk (MemberNotAString, DepthNotAnInteger,
\* ... at lines 528-704) is dead code and a malformed member is always
\* reported by the gate, at its own link.
GateMakesReadingTotal ==
    pc \in {"seed", "walk"} \/ verdict = Accepted =>
        \A i \in 1..Len(chain) : WellTyped(chain[i])

\* x is the least (greatest) of the stated values, None when none is stated.
IsLeast(x, stated) ==
    IF stated = {} THEN x = None ELSE x \in stated /\ \A s \in stated : x <= s
IsGreatest(x, stated) ==
    IF stated = {} THEN x = None ELSE x \in stated /\ \A s \in stated : x >= s

\* What the links of c at the positions W state.
SpendLimits(c, W) == {spend_limit_of(c[i]) : i \in W} \ {None}
MaxDepths(c, W) == {max_depth_of(c[i]) : i \in W} \ {None}
NotBefores(c, W) == {not_before_of(c[i]) : i \in W} \ {None}
SpendUnits(c, W) == {stated_unit(c[i]) : i \in W} \ {""}

\* Spend limit and maxDepth are minima, notBefore a maximum; the unit is the
\* only one stated.
IsCeilingOf(b, c, W) ==
    /\ IsLeast(b.spend_limit, SpendLimits(c, W))
    /\ IsLeast(b.max_depth, MaxDepths(c, W))
    /\ IsGreatest(b.not_before, NotBefores(c, W))
    /\ SpendUnits(c, W) = {b.spend_unit} \ {""}

\* The ceiling carried down the chain is exactly what the EffectiveBound
\* comment says it is, over all the links walked: no link that omits a facet
\* loses what an ancestor stated.
EffectiveCeilings == Walked # {} => IsCeilingOf(bound, chain, Walked)

\* "A bounded ancestor facet never becomes unconstrained because a
\* descendant omitted the field" (EffectiveBound): from step to step the
\* ceiling only ever tightens.
CeilingOnlyTightens ==
    [][/\ bound.spend_limit # None => bound'.spend_limit # None
                                      /\ bound'.spend_limit <= bound.spend_limit
       /\ bound.max_depth # None => bound'.max_depth # None
                                    /\ bound'.max_depth <= bound.max_depth
       /\ bound.not_before # None => bound'.not_before # None
                                     /\ bound'.not_before >= bound.not_before
       /\ bound.spend_unit # "" => bound'.spend_unit = bound.spend_unit
      ]_structureVars

\* The descendant states no bound wider than the ancestor's.
NoWider(ancestor, descendant) ==
    /\ ~Exceeds(spend_limit_of(descendant), spend_limit_of(ancestor))
    /\ ~Exceeds(max_depth_of(descendant), max_depth_of(ancestor))
    /\ ~Exceeds(not_before_of(ancestor), not_before_of(descendant))
    /\ "" \notin {stated_unit(ancestor), stated_unit(descendant)}
          => stated_unit(ancestor) = stated_unit(descendant)

\* In an accepted chain no link states a wider bound than any ancestor at
\* any distance, whatever the links in between omit: the three-hop case the
\* doc of verify_chain_structure names (100, absent, 1000000).
AcceptedNeverWidens ==
    verdict = Accepted =>
        \A j \in 1..Len(chain) : \A i \in 1..(j - 1) :
            NoWider(chain[i], chain[j])

\* A depth ceiling bounds the LENGTH of an accepted chain, which is what the
\* DepthBelowZero floor is for: a link that states maxDepth m sits in a chain
\* of at most m + 1 links.
DepthCeilingBoundsLength ==
    verdict = Accepted =>
        \A i \in 1..Len(chain) :
            max_depth_of(chain[i]) # None
                => Len(chain) <= max_depth_of(chain[i]) + 1

\* Pairwise expiry containment amounts to the effective minimum (the claim
\* at the end of verify_chain_structure's doc): below a stated expiry every
\* link states one, and none is later than any above it.
AcceptedExpiryContained ==
    verdict = Accepted =>
        \A j \in 1..Len(chain) : \A i \in 1..(j - 1) :
            expiry_of(chain[i]) # None =>
                expiry_of(chain[j]) # None /\ expiry_of(chain[j]) <= expiry_of(chain[i])

\* Scope coverage is checked from each link to its parent only.  In an
\* accepted chain whose scopes have no doubled wildcard that is enough: every
\* scope is covered by a scope of the root, and of every link in between.
AcceptedScopeWithinAncestors ==
    verdict = Accepted
    /\ (\A i \in 1..Len(chain) : \A s \in scopes_of(chain[i]) : PlainScope(s))
        => \A j \in 1..Len(chain) : \A i \in 1..j :
              \A scope \in scopes_of(chain[j]) :
                  scope_authorizes(scopes_of(chain[i]), scope)

GateErrors == {GateRules[i] : i \in DOMAIN GateRules}

\* A refusal is right about where the chain goes wrong.  A type error names
\* the first malformed link.  Any other names the first link at which the
\* chain stops attenuating: all of it above that link would be accepted.  The
\* one exception is a root whose expiry does not parse, which is only read,
\* and only then reported at hop 0, when there is a second link.
RefusalNamesFirstOffender ==
    LET upto(n) == SubSeq(chain, 1, n)
        at == verdict.hop + 1
        illTyped == {i \in 1..Len(chain) : ~WellTyped(chain[i])}
    IN  /\ verdict.kind \in GateErrors =>
              at \in illTyped /\ \A i \in illTyped : at <= i
        /\ verdict.kind \notin GateErrors \cup {"Pending", "Ok", "EmptyChain"} =>
              /\ illTyped = {}
              /\ at > 1 => Attenuates(upto(at - 1))
              /\ \/ ~Attenuates(upto(at))
                 \/ /\ verdict.kind = "ExpiryUnparseable" /\ at = 1
                    /\ expiry_of(chain[1]) = Err

\* The delegator signs a form with null members removed, so a null member can
\* be added to or dropped from a link without breaking its signature.  The
\* verdict does not depend on it: the chain with its nulls erased is accepted
\* exactly when this one is.
NullMembersDoNotMatter ==
    pc = "done" =>
        LET erased == [i \in 1..Len(chain) |-> without_nulls(chain[i])]
        IN  (verdict = Accepted) <=> Attenuates(erased)

\* One pass with a running ceiling decides what Attenuates says of the chain
\* as a whole, for acceptance and for refusal, and always decides.
ImplementsPromise == Promise!Spec

----------------------------------------------------------------------------
(* Statements of the documentation that the code does not meet *)

\* "A non-empty expiry failed to parse; the chain fails closed."
\* (ChainError::ExpiryUnparseable, delegation.rs:350)
UnparseableExpiryFailsClosed ==
    verdict = Accepted =>
        \A i \in 1..Len(chain) : expiry_of(chain[i]) # Err

\* "Scope containment and expiry containment reject an omitting child
\* outright" (README.md:68-69): under a parent that states a scope, a child
\* that states none is refused.
OmittedScopeRefused ==
    verdict = Accepted =>
        \A j \in 2..Len(chain) :
            scopes_of(chain[j - 1]) # {} => scopes_of(chain[j]) # {}

\* "... which is transitively the same result" (README.md:69): every scope of
\* an accepted chain is within what the root grants, doubled wildcards too.
ScopeContainedInRoot ==
    verdict = Accepted =>
        \A j \in 1..Len(chain) : \A scope \in scopes_of(chain[j]) :
            scope_authorizes(scopes_of(chain[1]), scope)
============================================================================
