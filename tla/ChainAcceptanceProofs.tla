------------------------ MODULE ChainAcceptanceProofs ------------------------
(***************************************************************************)
(* verify_chain_structure decides Attenuates: proofs, for chains of every  *)
(* length, that the one pass of DelegationChain with its running ceiling   *)
(* accepts exactly the chains in which every pair of links attenuates.     *)
(*                                                                         *)
(* Acceptance needs an invariant of its own, Walkable: what each link      *)
(* walked was held to that the ceiling says nothing of, which is linkage,  *)
(* scope, expiry, the floor and the count of positions.  Only expiry is    *)
(* compared with the parent's alone and owed to every ancestor, so the     *)
(* invariant carries the comparison with every ancestor.  Refusal needs    *)
(* no more than IInv: each failing check shows the pair of links, or the   *)
(* link, on which Attenuates fails, and EffectiveCeilings names the        *)
(* ancestor that the ceiling stands for.  Both are shown of the stretch of *)
(* the chain down to a link, so that a refusal is also right about where   *)
(* the chain goes wrong.                                                   *)
(*                                                                         *)
(* That null members decide nothing is shown of Attenuates: a link without *)
(* them is read as it was, member by member.                               *)
(***************************************************************************)
EXTENDS DelegationChainProofs

----------------------------------------------------------------------------
(* Scopes: coverage is transitive, but for doubled wildcards *)

\* A prefix agrees at every place it has.
LEMMA PrefixPlaces ==
    ASSUME NEW S, NEW s \in Seq(S), NEW t \in Seq(S)
    PROVE  IsPrefix(s, t) <=> Len(s) <= Len(t) /\ \A i \in 1..Len(s) : s[i] = t[i]
<1>1. ASSUME IsPrefix(s, t), NEW i \in 1..Len(s)
      PROVE  s[i] = t[i]
  <2>1. Len(s) <= Len(t) /\ SubSeq(s, 1, Len(s)) = SubSeq(t, 1, Len(s))
    BY <1>1 DEF IsPrefix
  <2>2. SubSeq(s, 1, Len(s))[i] = s[i] /\ SubSeq(t, 1, Len(s))[i] = t[i]
    BY <2>1
  <2>. QED BY <2>1, <2>2
<1>2. ASSUME Len(s) <= Len(t), \A i \in 1..Len(s) : s[i] = t[i]
      PROVE  IsPrefix(s, t)
  <2>1. SubSeq(s, 1, Len(s)) = SubSeq(t, 1, Len(s))
    BY <1>2
  <2>. QED BY <1>2, <2>1 DEF IsPrefix
<1>. QED BY <1>1, <1>2 DEF IsPrefix

\* Sequences that agree at every place are one.
LEMMA SamePlaces ==
    ASSUME NEW S, NEW s \in Seq(S), NEW t \in Seq(S),
           Len(s) = Len(t), \A i \in 1..Len(s) : s[i] = t[i]
    PROVE  s = t
OBVIOUS

LEMMA PrefixTransitive ==
    ASSUME NEW S, NEW s \in Seq(S), NEW t \in Seq(S), NEW u \in Seq(S),
           IsPrefix(s, t), IsPrefix(t, u)
    PROVE  IsPrefix(s, u)
<1>1. /\ Len(s) <= Len(t) /\ Len(t) <= Len(u)
      /\ Len(s) \in Nat /\ Len(t) \in Nat /\ Len(u) \in Nat
      /\ \A i \in 1..Len(s) : s[i] = t[i]
      /\ \A i \in 1..Len(t) : t[i] = u[i]
  BY PrefixPlaces
<1>2. Len(s) <= Len(u) /\ \A i \in 1..Len(s) : s[i] = u[i]
  BY <1>1
<1>. QED BY <1>2, PrefixPlaces

\* All but the last segment.
LEMMA FrontFacts ==
    ASSUME NEW S, NEW s \in Seq(S), Len(s) > 1
    PROVE  /\ Front(s) \in Seq(S)
           /\ Len(Front(s)) = Len(s) - 1
           /\ \A i \in 1..(Len(s) - 1) : Front(s)[i] = s[i]
BY DEF Front

\* A scope that ends in a wildcard covers all that begins as it does.
LEMMA StrictPrefixOfFront ==
    ASSUME NEW S, NEW s \in Seq(S), NEW t \in Seq(S), Len(t) > 1,
           IsPrefix(s, t), s # t
    PROVE  IsPrefix(s, Front(t))
<1>1. /\ Len(s) \in Nat /\ Len(t) \in Nat /\ Len(s) <= Len(t)
      /\ \A i \in 1..Len(s) : s[i] = t[i]
  BY PrefixPlaces
<1>2. Len(s) # Len(t)
  BY <1>1, SamePlaces
<1>3. Len(s) <= Len(Front(t)) /\ \A i \in 1..Len(s) : s[i] = Front(t)[i]
  BY <1>1, <1>2, FrontFacts
<1>. QED BY <1>3, FrontFacts, PrefixPlaces

\* Coverage carries over from scope to scope: h is what the ancestor grants,
\* g what its descendant was granted, and s what that one grants in turn.
THEOREM CoverageIsTransitive ==
    ASSUME NEW S, NEW h \in Seq(S), NEW g \in Seq(S), NEW s \in Seq(S),
           PlainScope(h), scope_covers(h, g), scope_covers(g, s)
    PROVE  scope_covers(h, s)
<1>1. CASE h = g \/ h = Universal
  BY <1>1 DEF scope_covers
<1>2. ASSUME IsPrefix(h, s) PROVE scope_covers(h, s)
  BY <1>2 DEF scope_covers, IsStrictPrefix
<1>3. CASE IsStrictPrefix(h, g)
  <2>1. IsPrefix(h, g) /\ h # g
    BY <1>3 DEF IsStrictPrefix
  <2>2. CASE g = s
    BY <1>3, <2>2 DEF scope_covers
  <2>3. CASE g = Universal
    <3>1. /\ Len(g) = 1 /\ Len(h) \in Nat /\ Len(h) <= Len(g) /\ Len(s) \in Nat
          /\ \A i \in 1..Len(h) : h[i] = g[i]
      <4>1. Len(h) <= Len(g) /\ \A i \in 1..Len(h) : h[i] = g[i]
        BY <2>1, PrefixPlaces
      <4>2. Len(g) = 1
        BY <2>3 DEF Universal
      <4>3. Len(h) \in Nat /\ Len(s) \in Nat
        OBVIOUS
      <4>. QED BY <4>1, <4>2, <4>3
    <3>2. Len(h) = 0
      BY <2>1, <3>1, SamePlaces
    <3>3. IsPrefix(h, s)
      <4>1. Len(h) <= Len(s) /\ \A i \in 1..Len(h) : h[i] = s[i]
        BY <3>1, <3>2
      <4>. QED BY <4>1, PrefixPlaces
    <3>. QED BY <1>2, <3>3
  <2>4. CASE IsStrictPrefix(g, s)
    BY <1>2, <2>1, <2>4, PrefixTransitive DEF IsStrictPrefix
  <2>5. CASE EndsInWildcard(g) /\ IsPrefix(Front(g), s)
    <3>1. Len(g) > 1
      BY <2>5 DEF EndsInWildcard
    <3>2. IsPrefix(h, Front(g)) /\ Front(g) \in Seq(S)
      BY <2>1, <3>1, StrictPrefixOfFront, FrontFacts
    <3>. QED BY <1>2, <2>5, <3>2, PrefixTransitive
  <2>. QED BY <2>2, <2>3, <2>4, <2>5 DEF scope_covers
<1>4. CASE EndsInWildcard(h) /\ IsPrefix(Front(h), g)
  <2> DEFINE f == Front(h)
  <2>1. /\ Len(h) \in Nat /\ Len(h) > 1 /\ f \in Seq(S) /\ Len(f) = Len(h) - 1
        /\ f[Len(f)] = h[Len(h) - 1] /\ h[Len(h) - 1] # Wildcard
    <3>1. Len(h) \in Nat /\ Len(h) > 1 /\ Len(h) - 1 \in 1..(Len(h) - 1)
      BY <1>4 DEF EndsInWildcard
    <3>. QED BY <1>4, <3>1, FrontFacts DEF PlainScope
  <2>2. ASSUME IsPrefix(f, s) PROVE scope_covers(h, s)
    BY <1>4, <2>2 DEF scope_covers
  <2>3. /\ Len(f) <= Len(g) /\ Len(g) \in Nat
        /\ \A i \in 1..Len(f) : f[i] = g[i]
    BY <1>4, <2>1, PrefixPlaces
  <2>4. f # g \/ g[Len(g)] # Wildcard
    BY <2>1
  <2>5. CASE g = s
    BY <1>4, <2>2, <2>5
  <2>6. CASE g = Universal
    <3>1. Len(g) = 1 /\ g[1] = Wildcard
      BY <2>6 DEF Universal
    <3>2. Len(f) = 1 /\ f[1] = g[1]
      BY <2>1, <2>3, <3>1
    <3>. QED BY <2>1, <3>1, <3>2
  <2>7. CASE IsStrictPrefix(g, s)
    BY <1>4, <2>1, <2>2, <2>7, PrefixTransitive DEF IsStrictPrefix
  <2>8. CASE EndsInWildcard(g) /\ IsPrefix(Front(g), s)
    <3>1. Len(g) > 1 /\ g[Len(g)] = Wildcard
      BY <2>8 DEF EndsInWildcard
    <3>2. IsPrefix(f, Front(g)) /\ Front(g) \in Seq(S)
      BY <1>4, <2>1, <2>4, <3>1, StrictPrefixOfFront, FrontFacts
    <3>. QED BY <2>1, <2>2, <2>8, <3>2, PrefixTransitive
  <2>. QED BY <2>5, <2>6, <2>7, <2>8 DEF scope_covers
<1>. QED BY <1>1, <1>3, <1>4 DEF scope_covers

\* Every check of the walk, with its place in the order.
LEMMA AllHopRules ==
    /\ HopRules[1] = "BrokenLinkage" /\ HopRules[8] = "DepthBelowZero"
    /\ HopRules[10] = "ScopeWidening" /\ HopRules[11] = "ParentExpiryUnparseable"
    /\ HopRules[12] = "ExpiryUnparseable" /\ HopRules[13] = "ExpiryWidening"
BY DEF HopRules, NarrowRules

\* What a child is held to by its parent alone.
Follows(p, c) ==
    /\ text_of(c, "delegatedBy") = text_of(p, "delegatedTo")
    /\ ScopeWithin(p, c)
    /\ expiry_of(p) # Err /\ expiry_of(c) # Err
    /\ ~Outlives(p, c)

\* The checks of the walk that HopPasses says nothing of.
LEMMA HopFollows ==
    ASSUME NEW b, NEW p, NEW c,
           \A i \in DOMAIN HopRules : ~FailsHop(HopRules[i], b, p, c)
    PROVE  Follows(p, c) /\ ~BelowFloor(c)
<1>1. /\ ~FailsHop("BrokenLinkage", b, p, c)
      /\ ~FailsHop("DepthBelowZero", b, p, c)
      /\ ~FailsHop("ScopeWidening", b, p, c)
      /\ ~FailsHop("ParentExpiryUnparseable", b, p, c)
      /\ ~FailsHop("ExpiryUnparseable", b, p, c)
      /\ ~FailsHop("ExpiryWidening", b, p, c)
  BY HopRulesListed, AllHopRules
<1>. QED BY <1>1 DEF FailsHop, Follows

----------------------------------------------------------------------------
(* Acceptance *)

\* What the walk holds the links 1..n of a chain to.
HeldTo(c, n) ==
    \A j \in 1..n :
        /\ ~BelowFloor(c[j])
        /\ position(c[j]) = position(c[1]) + (j - 1)
        /\ \A i \in 1..j :
              max_depth_of(c[i]) # None => position(c[j]) <= max_depth_of(c[i])
        /\ j > 1 => Follows(c[j - 1], c[j])
        /\ \A i \in 1..(j - 1) :
              expiry_of(c[i]) # None =>
                  /\ expiry_of(c[j]) # None
                  /\ expiry_of(c[j]) <= expiry_of(c[i])

WalkedTo(n) == HeldTo(chain, n)

Walkable ==
    /\ pc = "walk" => WalkedTo(hop - 1)
    /\ verdict = Accepted => WalkedTo(Len(chain))

\* An expiry is an instant, absent or unreadable.
LEMMA ExpiryType ==
    ASSUME NEW link \in Links, WellTyped(link)
    PROVE  expiry_of(link) \in Int \cup {None, Err}
<1>1. link # NotObject /\ text_of(link, "expiresAt") # Err
  BY DEF WellTyped, TextMembers
<1>2. link["expiresAt"] \in TextValue
  BY <1>1, LinkAssumption DEF TextMembers
<1>3. text_of(link, "expiresAt") \in Text
  BY <1>1, <1>2, ShapeAssumption DEF text_of, TextValue
<1>. QED BY <1>3, ReadingAssumption DEF expiry_of, instant_of, parse_ms

\* The tightest depth ceiling over links 1..n bounds what it is not exceeded
\* by below each of theirs.
LEMMA WithinEachDepth ==
    ASSUME NEW b, NEW c, NEW n \in Nat, NEW x \in Int,
           \A i \in 1..n : max_depth_of(c[i]) \in Int \cup {None},
           b.max_depth \in Int \cup {None},
           IsLeast(b.max_depth, MaxDepths(c, 1..n)),
           b.max_depth # None => x <= b.max_depth
    PROVE  \A i \in 1..n : max_depth_of(c[i]) # None => x <= max_depth_of(c[i])
<1> SUFFICES ASSUME NEW i \in 1..n, max_depth_of(c[i]) # None
             PROVE  x <= max_depth_of(c[i])
  OBVIOUS
<1>1. max_depth_of(c[i]) \in MaxDepths(c, 1..n) /\ max_depth_of(c[i]) \in Int
  BY DEF MaxDepths
<1>2. b.max_depth \in MaxDepths(c, 1..n) /\ b.max_depth <= max_depth_of(c[i])
  BY <1>1 DEF IsLeast
<1>3. b.max_depth # None
  BY <1>2 DEF MaxDepths
<1>4. b.max_depth \in Int
  BY <1>3
<1>. QED BY <1>1, <1>2, <1>3, <1>4

\* The root.
LEMMA SeedWalkable ==
    ASSUME IInv, SeedRoot
    PROVE  Walkable'
<1>1. /\ pc = "seed" /\ pc' = "walk" /\ hop' = 2 /\ chain' = chain
      /\ verdict' = verdict /\ bound' = narrow(bound, chain[1])
  BY DEF SeedRoot
<1>2. /\ chain # << >> /\ verdict = Pending /\ Len(chain) \in Nat /\ Len(chain) >= 1
      /\ \A i \in 1..Len(chain) : chain[i] \in Links /\ WellTyped(chain[i])
      /\ bound = Unbounded
  BY <1>1, ChainFacts DEF IInv, Control, Gated, GateMakesReadingTotal
<1>3. chain[1] \in Links /\ WellTyped(chain[1])
  BY <1>2
<1>4. /\ not_before_of(chain[1]) # Err /\ ~BelowFloor(chain[1])
      /\ ~Exceeds(position(chain[1]), narrow(Unbounded, chain[1]).max_depth)
  BY SeedPasses DEF SeedRoot
<1>5. position(chain[1]) \in Int /\ max_depth_of(chain[1]) \in Int \cup {None}
  BY <1>3, PositionType, DecodedTypes DEF max_depth_of, DepthMembers
<1>6. narrow(Unbounded, chain[1]).max_depth = max_depth_of(chain[1])
  BY DEF narrow, Unbounded, Tighten
<1>7. max_depth_of(chain[1]) # None => position(chain[1]) <= max_depth_of(chain[1])
  BY <1>4, <1>5, <1>6, OptionAssumption DEF Exceeds
<1>8. WalkedTo(1)
  BY <1>4, <1>5, <1>7 DEF WalkedTo, HeldTo
<1>9. WalkedTo(1)' /\ hop' - 1 = 1
  BY <1>1, <1>8 DEF WalkedTo, HeldTo
<1>10. verdict' # Accepted
  BY <1>1, <1>2 DEF Pending, Accepted
<1>. QED BY <1>9, <1>10 DEF Walkable

\* One more link: its expiry is at or before its parent's, which is at or
\* before every ancestor's.
LEMMA WalkWalkable ==
    ASSUME IInv, Walkable, WalkHop
    PROVE  Walkable'
<1>1. /\ pc = "walk" /\ pc' = "walk" /\ hop' = hop + 1 /\ hop <= Len(chain)
      /\ chain' = chain /\ verdict' = verdict /\ bound' = narrow(bound, chain[hop])
  BY DEF WalkHop
<1>2. /\ chain # << >> /\ verdict = Pending /\ Len(chain) \in Nat
      /\ hop \in Nat /\ hop >= 2
      /\ \A i \in 1..Len(chain) : chain[i] \in Links /\ WellTyped(chain[i])
  BY <1>1, ChainFacts DEF IInv, Control, Gated, GateMakesReadingTotal
<1>3. verdict' # Accepted
  BY <1>1, <1>2 DEF Pending, Accepted
<1> DEFINE parent == chain[hop - 1]
           child == chain[hop]
<1>4. /\ hop - 1 \in 1..Len(chain) /\ hop \in 1..Len(chain)
      /\ parent \in Links /\ WellTyped(parent)
      /\ child \in Links /\ WellTyped(child)
  BY <1>1, <1>2
<1>5. /\ Follows(parent, child) /\ ~BelowFloor(child)
      /\ NextPosition(parent, child)
      /\ ~Exceeds(position(child), narrow(bound, child).max_depth)
  BY HopFollows, HopPasses DEF WalkHop
<1>6. /\ position(parent) \in Int /\ position(child) \in Int
      /\ position(chain[1]) \in Int
  BY <1>2, <1>4, PositionType
<1>7. WalkedTo(hop - 1)
  BY <1>1 DEF Walkable
<1>8. position(child) = position(chain[1]) + (hop - 1)
  <2>1. position(parent) = position(chain[1]) + ((hop - 1) - 1)
    BY <1>2, <1>7 DEF WalkedTo, HeldTo
  <2>2. position(child) = position(parent) + 1
    BY <1>5 DEF NextPosition
  <2>. QED BY <1>2, <1>6, <2>1, <2>2
<1>9. \A i \in 1..hop :
         max_depth_of(chain[i]) # None => position(child) <= max_depth_of(chain[i])
  <2>1. IInv'
    BY WalkInv
  <2>2. bound' \in Bounds /\ IsCeilingOf(bound', chain, 1..hop)
    <3>1. 1 \in 1..(hop' - 1) /\ hop' - 1 = hop
      BY <1>1, <1>2
    <3>2. Walked' = 1..hop /\ Walked' # {}
      BY <1>1, <3>1 DEF Walked
    <3>. QED BY <1>1, <2>1, <3>2 DEF IInv, TypeOK, EffectiveCeilings
  <2>3. bound'.max_depth # None => position(child) <= bound'.max_depth
    BY <1>1, <1>5, <1>6, <2>2, NarrowedMaxDepth
  <2>4. bound'.max_depth \in Int \cup {None}
    BY <2>2 DEF Bounds
  <2>5. IsLeast(bound'.max_depth, MaxDepths(chain, 1..hop))
    BY <2>2 DEF IsCeilingOf
  <2>6. \A i \in 1..hop : max_depth_of(chain[i]) \in Int \cup {None}
    BY <1>1, <1>2, DecodedTypes DEF max_depth_of, DepthMembers
  <2>. QED BY <1>2, <1>6, <2>3, <2>4, <2>5, <2>6, WithinEachDepth
<1>10. ASSUME NEW i \in 1..(hop - 1), expiry_of(chain[i]) # None
       PROVE  expiry_of(child) # None /\ expiry_of(child) <= expiry_of(chain[i])
  <2>1. /\ expiry_of(parent) \in Int \cup {None} /\ expiry_of(child) \in Int \cup {None}
        /\ chain[i] \in Links /\ WellTyped(chain[i])
        /\ expiry_of(chain[i]) \in Int \cup {Err}
    <3>1. chain[i] \in Links /\ WellTyped(chain[i])
      BY <1>1, <1>2
    <3>. QED BY <1>4, <1>5, <1>10, <3>1, ExpiryType DEF Follows
  <2>2. expiry_of(parent) # None /\ expiry_of(parent) <= expiry_of(chain[i])
    <3>1. CASE i = hop - 1
      BY <1>10, <2>1, <3>1, OptionAssumption
    <3>2. CASE i # hop - 1
      <4>1. hop - 1 \in 1..(hop - 1) /\ i \in 1..((hop - 1) - 1)
        BY <1>2, <3>2
      <4>. QED BY <1>7, <1>10, <4>1 DEF WalkedTo, HeldTo
    <3>. QED BY <3>1, <3>2
  <2>3. expiry_of(child) # None /\ ~(expiry_of(child) > expiry_of(parent))
    BY <1>5, <2>1, <2>2, OptionAssumption DEF Follows, Outlives, Exceeds
  <2>4. expiry_of(chain[i]) \in Int
    <3>1. CASE i = hop - 1
      BY <2>1, <2>2, <3>1
    <3>2. CASE i # hop - 1
      <4>1. i \in 1..(hop - 1) /\ i + 1 \in 1..(hop - 1) /\ i + 1 > 1 /\ (i + 1) - 1 = i
        BY <1>2, <3>2
      <4>2. Follows(chain[i], chain[i + 1])
        BY <1>7, <4>1 DEF WalkedTo, HeldTo
      <4>. QED BY <2>1, <4>2 DEF Follows
    <3>. QED BY <3>1, <3>2
  <2>. QED BY <2>1, <2>2, <2>3, <2>4
<1>11. WalkedTo(hop)
  <2> SUFFICES ASSUME NEW j \in 1..hop
               PROVE  /\ ~BelowFloor(chain[j])
                      /\ position(chain[j]) = position(chain[1]) + (j - 1)
                      /\ \A i \in 1..j :
                            max_depth_of(chain[i]) # None
                               => position(chain[j]) <= max_depth_of(chain[i])
                      /\ j > 1 => Follows(chain[j - 1], chain[j])
                      /\ \A i \in 1..(j - 1) :
                            expiry_of(chain[i]) # None =>
                               /\ expiry_of(chain[j]) # None
                               /\ expiry_of(chain[j]) <= expiry_of(chain[i])
    BY DEF WalkedTo, HeldTo
  <2>1. CASE j = hop
    BY <1>5, <1>8, <1>9, <1>10, <2>1
  <2>2. CASE j # hop
    <3>1. j \in 1..(hop - 1)
      BY <1>2, <2>2
    <3>. QED BY <1>7, <3>1 DEF WalkedTo, HeldTo
  <2>. QED BY <2>1, <2>2
<1>12. WalkedTo(hop - 1)'
  <2>1. hop' - 1 = hop
    BY <1>1, <1>2
  <2>. QED BY <1>1, <1>11, <2>1 DEF WalkedTo, HeldTo
<1>. QED BY <1>3, <1>12 DEF Walkable

\* A refusal ends the call, and is not an acceptance.
LEMMA RefusalEnds ==
    ASSUME RefuseEmpty \/ RefuseAtGate \/ RefuseRoot \/ RefuseHop
    PROVE  pc' = "done" /\ verdict' # Accepted
<1>1. CASE RefuseEmpty
  BY <1>1 DEF RefuseEmpty, Refuse, Accepted
<1>2. CASE RefuseAtGate
  BY <1>2 DEF RefuseAtGate, Refuse, Accepted, GateRules
<1>3. CASE RefuseRoot
  BY <1>3 DEF RefuseRoot, Refuse, Accepted, SeedRules, NarrowRules
<1>4. CASE RefuseHop
  <2>1. PICK i \in DOMAIN HopRules :
           IF HopRules[i] = "ParentExpiryUnparseable"
           THEN Refuse("ExpiryUnparseable", hop - 1) ELSE Refuse(HopRules[i], hop)
    BY <1>4 DEF RefuseHop
  <2>2. HopRules[i] # "Ok"
    BY DEF HopRules, NarrowRules
  <2>. QED BY <2>1, <2>2 DEF Refuse, Accepted
<1>. QED BY <1>1, <1>2, <1>3, <1>4

\* The verdict closes the walk; no other step reaches either.
LEMMA WalkableKept == IInv /\ Walkable /\ [StructureNext]_structureVars => Walkable'
<1> SUFFICES ASSUME IInv, Walkable, [StructureNext]_structureVars PROVE Walkable'
  OBVIOUS
<1>1. CASE Accept
  <2>1. /\ pc = "walk" /\ pc' = "done" /\ hop > Len(chain) /\ chain' = chain
    BY <1>1 DEF Accept
  <2>2. hop - 1 = Len(chain)
    BY <2>1, ChainFacts DEF IInv
  <2>. QED BY <2>1, <2>2 DEF Walkable, WalkedTo, HeldTo
<1>2. CASE GateLink
  <2>1. pc = "gate" /\ pc' # "walk" /\ verdict' = verdict /\ verdict # Accepted
    BY <1>2 DEF GateLink, IInv, Control, Pending, Accepted
  <2>. QED BY <2>1 DEF Walkable
<1>3. CASE RefuseEmpty \/ RefuseAtGate \/ RefuseRoot \/ RefuseHop
  BY <1>3, RefusalEnds DEF Walkable
<1>4. CASE UNCHANGED structureVars
  BY <1>4 DEF structureVars, Walkable, WalkedTo, HeldTo
<1>. QED
  BY <1>1, <1>2, <1>3, <1>4, SeedWalkable, WalkWalkable DEF StructureNext

\* Links that do not widen one another.
Narrowing(c) ==
    \A j \in 1..Len(c) : /\ not_before_of(c[j]) # Err
                         /\ \A i \in 1..(j - 1) : NoWider(c[i], c[j])

\* The three pairwise facets that NoWider is about.
LEMMA PairsAttenuate ==
    ASSUME NEW c, Len(c) \in Nat, Narrowing(c),
           \A i \in 1..Len(c) : c[i] \in Links /\ WellTyped(c[i])
    PROVE  /\ SpendAttenuates(c)
           /\ Descends(c, max_depth_of, None, AtMost)
           /\ ActivationAttenuates(c)
<1>2. \A j \in 1..Len(c) : not_before_of(c[j]) # Err
  BY DEF Narrowing
<1>3. ASSUME NEW j \in 1..Len(c), NEW i \in 1..(j - 1)
      PROVE  /\ spend_limit_of(c[i]) # None /\ spend_limit_of(c[j]) # None
                   => spend_limit_of(c[j]) <= spend_limit_of(c[i])
             /\ stated_unit(c[i]) # "" /\ stated_unit(c[j]) # ""
                   => stated_unit(c[j]) = stated_unit(c[i])
             /\ max_depth_of(c[i]) # None /\ max_depth_of(c[j]) # None
                   => max_depth_of(c[j]) <= max_depth_of(c[i])
             /\ not_before_of(c[i]) # None /\ not_before_of(c[j]) # None
                   => not_before_of(c[j]) >= not_before_of(c[i])
  <2>1. NoWider(c[i], c[j])
    BY <1>3 DEF Narrowing
  <2>2. i \in 1..Len(c)
    BY <1>3
  <2>3. ASSUME NEW k \in 1..Len(c)
        PROVE  /\ spend_limit_of(c[k]) \in Int \cup {None}
               /\ max_depth_of(c[k]) \in Int \cup {None}
               /\ not_before_of(c[k]) \in Int \cup {None}
    BY <1>2, DecodedTypes DEF max_depth_of, not_before_of, DepthMembers
  <2>4. /\ spend_limit_of(c[i]) \in Int \cup {None}
        /\ spend_limit_of(c[j]) \in Int \cup {None}
        /\ max_depth_of(c[i]) \in Int \cup {None}
        /\ max_depth_of(c[j]) \in Int \cup {None}
        /\ not_before_of(c[i]) \in Int \cup {None}
        /\ not_before_of(c[j]) \in Int \cup {None}
    BY <2>2, <2>3
  <2>5. /\ ~Exceeds(spend_limit_of(c[j]), spend_limit_of(c[i]))
        /\ ~Exceeds(max_depth_of(c[j]), max_depth_of(c[i]))
        /\ ~Exceeds(not_before_of(c[i]), not_before_of(c[j]))
    BY <2>1 DEF NoWider
  <2>6. ASSUME NEW x \in Int \cup {None}, NEW y \in Int \cup {None},
               ~Exceeds(x, y), x # None, y # None
        PROVE  x <= y
    BY <2>6, OptionAssumption DEF Exceeds
  <2>7. /\ spend_limit_of(c[i]) # None /\ spend_limit_of(c[j]) # None
              => spend_limit_of(c[j]) <= spend_limit_of(c[i])
        /\ max_depth_of(c[i]) # None /\ max_depth_of(c[j]) # None
              => max_depth_of(c[j]) <= max_depth_of(c[i])
    BY <2>4, <2>5, <2>6
  <2>8. not_before_of(c[i]) # None /\ not_before_of(c[j]) # None
              => not_before_of(c[j]) >= not_before_of(c[i])
    BY <2>4, <2>5, <2>6
  <2>9. stated_unit(c[i]) # "" /\ stated_unit(c[j]) # ""
              => stated_unit(c[j]) = stated_unit(c[i])
    BY <2>1 DEF NoWider
  <2>. QED BY <2>7, <2>8, <2>9
<1>4. SpendAttenuates(c)
  BY <1>3 DEF SpendAttenuates, Descends, AtMost, Same
<1>5. Descends(c, max_depth_of, None, AtMost)
  BY <1>3 DEF Descends, AtMost
<1>6. ActivationAttenuates(c)
  BY <1>2, <1>3 DEF ActivationAttenuates, Descends, AtLeast
<1>. QED BY <1>4, <1>5, <1>6

\* A chain that was walked to its end attenuates.
LEMMA WalkedAttenuates ==
    ASSUME NEW c, Len(c) \in Nat, c # << >>, HeldTo(c, Len(c)), Narrowing(c),
           \A i \in 1..Len(c) : c[i] \in Links /\ WellTyped(c[i])
    PROVE  Attenuates(c)
<1>3. Linked(c)
  <2>1. ASSUME NEW j \in 2..Len(c) PROVE Follows(c[j - 1], c[j])
    BY DEF HeldTo
  <2>. QED BY <2>1 DEF Follows, ScopeWithin, Linked
<1>4. DepthAttenuates(c)
  <2> SUFFICES ASSUME NEW j \in 1..Len(c)
               PROVE  /\ position(c[j]) = position(c[1]) + (j - 1)
                      /\ \A key \in DepthMembers :
                            depth_of(c[j], key) = None \/ depth_of(c[j], key) >= 0
                      /\ \A i \in 1..j : max_depth_of(c[i]) = None
                                          \/ position(c[j]) <= max_depth_of(c[i])
    BY PairsAttenuate DEF DepthAttenuates
  <2>1. ~BelowFloor(c[j]) /\ WellTyped(c[j]) /\ c[j] \in Links
    BY DEF HeldTo
  <2>2. ASSUME NEW key \in DepthMembers
        PROVE  depth_of(c[j], key) = None \/ depth_of(c[j], key) >= 0
    <3>1. depth_of(c[j], key) \in Int \cup {None}
      BY <2>1, DecodedTypes
    <3>. QED BY <2>1, <3>1, OptionAssumption DEF BelowFloor
  <2>. QED BY <2>2 DEF HeldTo
<1>5. ExpiryAttenuates(c)
  <2>1. ASSUME Len(c) > 1, NEW j \in 1..Len(c)
        PROVE  expiry_of(c[j]) # Err
    <3>1. CASE j > 1
      BY <3>1 DEF HeldTo, Follows
    <3>2. CASE j = 1
      <4>1. 2 \in 1..Len(c) /\ 2 > 1 /\ 2 - 1 = 1
        BY <2>1
      <4>2. Follows(c[1], c[2])
        BY <4>1 DEF HeldTo
      <4>. QED BY <3>2, <4>2 DEF Follows
    <3>. QED BY <3>1, <3>2
  <2>. QED BY <2>1 DEF HeldTo, ExpiryAttenuates
<1>. QED BY <1>3, <1>4, <1>5, PairsAttenuate DEF Attenuates

\* The links above a place of a chain, as a chain of their own.
LEMMA UpTo ==
    ASSUME NEW n \in 1..Len(chain), chain \in Seq(Links), Len(chain) \in Nat
    PROVE  /\ Len(SubSeq(chain, 1, n)) = n /\ n \in Nat
           /\ SubSeq(chain, 1, n) # << >>
           /\ \A i \in 1..n : SubSeq(chain, 1, n)[i] = chain[i]
OBVIOUS

\* Each stretch of the chain that was walked attenuates.
LEMMA PrefixAttenuates ==
    ASSUME IInv, Walkable, pc = "walk", NEW n \in 1..(hop - 1)
    PROVE  Attenuates(SubSeq(chain, 1, n))
<1> DEFINE c == SubSeq(chain, 1, n)
<1>1. /\ n \in 1..Len(chain) /\ chain \in Seq(Links) /\ Len(chain) \in Nat
      /\ hop \in Nat
      /\ \A i \in 1..Len(chain) : chain[i] \in Links /\ WellTyped(chain[i])
  BY ChainFacts DEF IInv, Gated, GateMakesReadingTotal
<1>2. /\ Len(c) = n /\ n \in Nat /\ c # << >>
      /\ \A i \in 1..n : c[i] = chain[i]
  BY <1>1, UpTo
<1>3. Walked = 1..(hop - 1)
  BY DEF Walked
<1>. HIDE DEF c
<1>4. Narrowing(c)
  <2> SUFFICES ASSUME NEW j \in 1..n
               PROVE  /\ not_before_of(c[j]) # Err
                      /\ \A i \in 1..(j - 1) : NoWider(c[i], c[j])
    BY <1>2 DEF Narrowing
  <2>1. j \in 1..(hop - 1) /\ \A i \in 1..(j - 1) : i \in 1..n
    BY <1>1, <1>2
  <2>. QED BY <1>2, <1>3, <2>1 DEF IInv, NarrowedSoFar
<1>5. HeldTo(c, Len(c))
  <2>1. \A j \in 1..n :
           /\ j \in 1..(hop - 1) /\ 1 \in 1..n
           /\ \A i \in 1..j : i \in 1..n
           /\ j > 1 => j - 1 \in 1..n
    BY <1>1, <1>2
  <2>2. HeldTo(chain, hop - 1)
    BY DEF Walkable, WalkedTo
  <2>3. HeldTo(chain, n)
    BY <2>1, <2>2 DEF HeldTo
  <2> SUFFICES ASSUME NEW j \in 1..n
               PROVE  /\ ~BelowFloor(c[j])
                      /\ position(c[j]) = position(c[1]) + (j - 1)
                      /\ \A i \in 1..j :
                            max_depth_of(c[i]) # None => position(c[j]) <= max_depth_of(c[i])
                      /\ j > 1 => Follows(c[j - 1], c[j])
                      /\ \A i \in 1..(j - 1) :
                            expiry_of(c[i]) # None =>
                                /\ expiry_of(c[j]) # None
                                /\ expiry_of(c[j]) <= expiry_of(c[i])
    BY <1>2 DEF HeldTo
  <2>4. c[j] = chain[j] /\ c[1] = chain[1]
    BY <1>2, <2>1
  <2>5. \A i \in 1..j : c[i] = chain[i]
    BY <1>2, <2>1
  <2>6. j > 1 => c[j - 1] = chain[j - 1]
    BY <1>2, <2>1
  <2>7. \A i \in 1..(j - 1) : i \in 1..j
    OBVIOUS
  <2>. QED BY <2>3, <2>4, <2>5, <2>6, <2>7 DEF HeldTo
<1>6. \A i \in 1..Len(c) : c[i] \in Links /\ WellTyped(c[i])
  BY <1>1, <1>2
<1>7. Attenuates(c)
  BY <1>2, <1>4, <1>5, <1>6, WalkedAttenuates
<1>. QED BY <1>7 DEF c

\* A chain that is accepted attenuates.
LEMMA AcceptedAttenuates ==
    ASSUME IInv, Walkable, Accept
    PROVE  Attenuates(chain)
<1>1. /\ pc = "walk" /\ hop - 1 = Len(chain) /\ chain # << >>
      /\ Len(chain) \in Nat /\ Len(chain) >= 1 /\ chain \in Seq(Links)
  BY ChainFacts DEF IInv, Accept, Control
<1>2. Attenuates(SubSeq(chain, 1, Len(chain)))
  BY <1>1, PrefixAttenuates
<1>3. SubSeq(chain, 1, Len(chain)) = chain
  BY <1>1
<1>. QED BY <1>2, <1>3

----------------------------------------------------------------------------
(* Scope *)

\* No link has a scope with a doubled wildcard.
AllPlain == \A i \in 1..Len(chain) : \A scope \in scopes_of(chain[i]) : PlainScope(scope)

\* The scopes of each of the links 1..n are within each link above it.
CoveredTo(n) ==
    AllPlain => \A j \in 1..n : \A i \in 1..j : \A scope \in scopes_of(chain[j]) :
                   scope_authorizes(scopes_of(chain[i]), scope)

Coverable ==
    /\ pc = "walk" => CoveredTo(hop - 1)
    /\ verdict = Accepted => CoveredTo(Len(chain))

\* The gate leaves scopes that are strings only.
LEMMA ScopeType ==
    ASSUME NEW link \in Links, WellTyped(link)
    PROVE  scopes_of(link) \subseteq Seq(Text)
<1>1. scopes_of(link) # Err /\ link.scope \in ScopeValue
  <2>1. scopes_of(link) # Err /\ link \in Links \ {NotObject}
    BY DEF WellTyped
  <2>. QED BY <2>1, LinkAssumption, Zenon
<1>2. EmptyScope \in Seq(Text)
  <2>1. \A segment \in Text : <<segment>> \in Seq(Text)
    OBVIOUS
  <2>2. "" \in Text
    BY ShapeAssumption
  <2>. QED BY <2>1, <2>2 DEF EmptyScope
<1>3. CASE link.scope \in {Absent, Null, Malformed}
  BY <1>1, <1>3 DEF scopes_of
<1>4. CASE link.scope \notin {Absent, Null, Malformed}
  <2>1. link.scope \subseteq {Null, Malformed} \cup Seq(Text)
    BY <1>1, <1>4 DEF ScopeValue
  <2>2. Malformed \notin link.scope
    BY <1>1, <1>4 DEF scopes_of
  <2>3. scopes_of(link) = {IF e = Null THEN EmptyScope ELSE e : e \in link.scope}
    BY <1>4, <2>2 DEF scopes_of
  <2>. QED BY <1>2, <2>1, <2>2, <2>3
<1>. QED BY <1>3, <1>4

\* A link's own scopes are within it.
LEMMA OwnScopes ==
    ASSUME NEW S, NEW scope \in S
    PROVE  scope_authorizes(S, scope)
BY DEF scope_authorizes, scope_covers

\* One more link: what its parent's scopes cover, the ancestors' do.
LEMMA CoverableKept ==
    IInv /\ Coverable /\ [StructureNext]_structureVars => Coverable'
<1> SUFFICES ASSUME IInv, Coverable, [StructureNext]_structureVars PROVE Coverable'
  OBVIOUS
<1>1. CASE WalkHop
  <2>1. /\ pc = "walk" /\ hop' = hop + 1 /\ hop <= Len(chain)
        /\ chain' = chain /\ verdict' = verdict
    BY <1>1 DEF WalkHop
  <2>2. /\ verdict' # Accepted /\ Len(chain) \in Nat /\ hop \in Nat /\ hop >= 2
        /\ \A i \in 1..Len(chain) : chain[i] \in Links /\ WellTyped(chain[i])
    BY <2>1, ChainFacts DEF IInv, Control, Gated, GateMakesReadingTotal, Pending, Accepted
  <2>3. ScopeWithin(chain[hop - 1], chain[hop])
    BY <1>1, HopFollows DEF WalkHop, Follows
  <2>4. CoveredTo(hop)
    <3> SUFFICES ASSUME AllPlain, NEW j \in 1..hop, NEW i \in 1..j,
                        NEW scope \in scopes_of(chain[j])
                 PROVE  scope_authorizes(scopes_of(chain[i]), scope)
      BY DEF CoveredTo
    <3>1. CASE i = j
      BY <3>1, OwnScopes
    <3>2. CASE j # hop
      <4>1. j \in 1..(hop - 1)
        BY <2>2, <3>2
      <4>. QED BY <2>1, <4>1 DEF Coverable, CoveredTo
    <3>3. CASE j = hop /\ i # j
      <4>1. hop - 1 \in 1..(hop - 1) /\ i \in 1..(hop - 1)
        BY <2>2, <3>3
      <4>2. PICK g \in scopes_of(chain[hop - 1]) : scope_covers(g, scope)
        BY <2>3, <3>3 DEF ScopeWithin, scope_authorizes
      <4>3. scope_authorizes(scopes_of(chain[i]), g)
        BY <2>1, <4>1, <4>2 DEF Coverable, CoveredTo
      <4>4. PICK h \in scopes_of(chain[i]) : scope_covers(h, g)
        BY <4>3 DEF scope_authorizes
      <4>5. h \in Seq(Text) /\ g \in Seq(Text) /\ scope \in Seq(Text) /\ PlainScope(h)
        <5>1. i \in 1..Len(chain) /\ hop - 1 \in 1..Len(chain) /\ hop \in 1..Len(chain)
          BY <2>1, <2>2, <3>3
        <5>. QED BY <2>2, <3>3, <4>2, <4>4, <5>1, ScopeType DEF AllPlain
      <4>. QED BY <4>2, <4>4, <4>5, CoverageIsTransitive DEF scope_authorizes
    <3>. QED BY <3>1, <3>2, <3>3
  <2>5. CoveredTo(hop - 1)'
    <3>1. hop' - 1 = hop
      BY <2>1, <2>2
    <3>. QED BY <2>1, <2>4, <3>1 DEF CoveredTo, AllPlain
  <2>. QED BY <2>2, <2>5 DEF Coverable
<1>2. CASE SeedRoot
  <2>1. hop' = 2 /\ chain' = chain /\ verdict' = verdict /\ verdict = Pending
    BY <1>2 DEF SeedRoot, IInv, Control
  <2>2. CoveredTo(1)
    BY OwnScopes DEF CoveredTo
  <2>3. CoveredTo(hop - 1)'
    BY <2>1, <2>2 DEF CoveredTo, AllPlain
  <2>. QED BY <2>1, <2>3 DEF Coverable, Pending, Accepted
<1>3. CASE Accept
  <2>1. pc = "walk" /\ pc' = "done" /\ chain' = chain /\ hop - 1 = Len(chain)
    BY <1>3, ChainFacts DEF Accept, IInv
  <2>. QED BY <2>1 DEF Coverable, CoveredTo, AllPlain
<1>4. CASE GateLink
  <2>1. pc' # "walk" /\ verdict' = verdict /\ verdict = Pending
    BY <1>4 DEF GateLink, IInv, Control
  <2>. QED BY <2>1 DEF Coverable, Pending, Accepted
<1>5. CASE RefuseEmpty \/ RefuseAtGate \/ RefuseRoot \/ RefuseHop
  BY <1>5, RefusalEnds DEF Coverable
<1>6. CASE UNCHANGED structureVars
  BY <1>6 DEF structureVars, Coverable, CoveredTo, AllPlain
<1>. QED BY <1>1, <1>2, <1>3, <1>4, <1>5, <1>6 DEF StructureNext

----------------------------------------------------------------------------
(* Refusal *)

\* What Attenuates says of positions and depths, with the pairs left out.
LEMMA DepthParts ==
    ASSUME NEW c, Attenuates(c), NEW j \in 1..Len(c)
    PROVE  /\ position(c[j]) = position(c[1]) + (j - 1)
           /\ \A key \in DepthMembers :
                 depth_of(c[j], key) = None \/ depth_of(c[j], key) >= 0
           /\ \A i \in 1..j :
                 max_depth_of(c[i]) = None \/ position(c[j]) <= max_depth_of(c[i])
BY DEF Attenuates, DepthAttenuates, Descends, AtMost

\* And of two links, each with what it states.
LEMMA PairParts ==
    ASSUME NEW c, Attenuates(c), NEW j \in 1..Len(c), NEW i \in 1..(j - 1)
    PROVE  /\ spend_limit_of(c[i]) # None /\ spend_limit_of(c[j]) # None
                 => spend_limit_of(c[j]) <= spend_limit_of(c[i])
           /\ stated_unit(c[i]) # "" /\ stated_unit(c[j]) # ""
                 => stated_unit(c[j]) = stated_unit(c[i])
           /\ max_depth_of(c[i]) # None /\ max_depth_of(c[j]) # None
                 => max_depth_of(c[j]) <= max_depth_of(c[i])
           /\ not_before_of(c[i]) # None /\ not_before_of(c[j]) # None
                 => not_before_of(c[j]) >= not_before_of(c[i])
<1>1. /\ Descends(c, spend_limit_of, None, AtMost)
      /\ Descends(c, stated_unit, "", Same)
      /\ Descends(c, max_depth_of, None, AtMost)
      /\ Descends(c, not_before_of, None, AtLeast)
  BY DEF Attenuates, SpendAttenuates, DepthAttenuates, ActivationAttenuates
<1>. QED BY <1>1 DEF Descends, AtMost, AtLeast, Same

\* And of single links.
LEMMA LinkParts ==
    ASSUME NEW c, Attenuates(c), NEW j \in 1..Len(c)
    PROVE  /\ WellTyped(c[j]) /\ not_before_of(c[j]) # Err
           /\ Len(c) > 1 => expiry_of(c[j]) # Err
<1>1. ActivationAttenuates(c) /\ ExpiryAttenuates(c) /\ \A i \in 1..Len(c) : WellTyped(c[i])
  BY DEF Attenuates
<1>2. \A i \in 1..Len(c) : not_before_of(c[i]) # Err
  BY <1>1 DEF ActivationAttenuates
<1>. QED BY <1>1, <1>2 DEF ExpiryAttenuates

\* The gate refuses a chain with a member of the wrong type.
LEMMA GateRefusesRightly ==
    ASSUME IInv, RefuseAtGate
    PROVE  ~Attenuates(chain)
<1>1. hop \in 1..Len(chain)
  BY ChainFacts DEF RefuseAtGate, IInv, Control
<1>2. PICK i \in DOMAIN GateRules : FailsGate(GateRules[i], chain[hop])
  BY DEF RefuseAtGate
<1>3. ~WellTyped(chain[hop])
  <2>1. GateRules[i] \in {"NotAnObject", "ScopeElementNotAString", "DepthNotAnInteger",
                          "SpendLimitNotANumber", "MemberNotAString"}
    BY DEF GateRules
  <2>. QED BY <1>2, <2>1 DEF FailsGate, WellTyped
<1>. QED BY <1>1, <1>3, LinkParts

\* Of the root alone: its notBefore is unreadable, a depth of it is negative
\* or its position is above its own maxDepth.
LEMMA SeedChecks ==
    ASSUME NEW c, Attenuates(c), Len(c) \in Nat, c # << >>, 1 \in 1..Len(c),
           c[1] \in Links, NEW i \in DOMAIN SeedRules, FailsSeed(SeedRules[i], c[1])
    PROVE  FALSE
<1>1. WellTyped(c[1])
  BY LinkParts
<1>3. CASE not_before_of(c[1]) = Err
  BY <1>1, <1>3, LinkParts
<1>4. CASE BelowFloor(c[1])
  <2>1. PICK key \in DepthMembers :
          depth_of(c[1], key) \notin {None, Err} /\ depth_of(c[1], key) < 0
    BY <1>4 DEF BelowFloor
  <2>2. depth_of(c[1], key) \in Int
    BY <1>1, <2>1, DecodedTypes
  <2>. QED BY <1>1, <2>1, <2>2, DepthParts
<1>5. CASE Exceeds(position(c[1]), max_depth_of(c[1]))
  <2>1. /\ position(c[1]) \in Int /\ max_depth_of(c[1]) \in Int
        /\ max_depth_of(c[1]) # None
        /\ position(c[1]) > max_depth_of(c[1])
    BY <1>1, <1>5, PositionType, DecodedTypes DEF Exceeds, max_depth_of, DepthMembers
  <2>2. 1 \in 1..1
    OBVIOUS
  <2>. QED BY <1>1, <2>1, <2>2, DepthParts
<1>6. narrow(Unbounded, c[1]).max_depth = max_depth_of(c[1])
  BY DEF narrow, Unbounded, Tighten
<1>7. \/ not_before_of(c[1]) = Err \/ BelowFloor(c[1])
      \/ Exceeds(position(c[1]), max_depth_of(c[1]))
  <2> SUFFICES ASSUME not_before_of(c[1]) # Err, ~BelowFloor(c[1]),
                      ~Exceeds(position(c[1]), max_depth_of(c[1]))
               PROVE  FALSE
    OBVIOUS
  <2>1. NarrowPasses(Unbounded, c[1])
    BY RootNarrows
  <2>2. SeedRules[i] \in {"SpendUnitChanged", "SpendLimitWidening",
                          "DepthLimitWidening", "NotBeforeUnparseable",
                          "ActivationWidening", "DepthBelowZero", "DepthLimitExceeded"}
    BY DEF SeedRules, NarrowRules
  <2>. QED BY <1>6, <2>1, <2>2 DEF FailsSeed, NarrowPasses
<1>. QED BY <1>3, <1>4, <1>5, <1>7

\* Values that keep their order, where both are there, do not exceed.
LEMMA NotAbove ==
    ASSUME NEW x \in Int \cup {None}, NEW y \in Int \cup {None},
           x # None /\ y # None => x <= y
    PROVE  ~Exceeds(x, y)
<1> SUFFICES ASSUME x # None, y # None, x > y PROVE FALSE
  BY DEF Exceeds
<1>1. x \in Int /\ y \in Int /\ x <= y
  OBVIOUS
<1>. QED BY <1>1

\* A position is an i64: the largest has no successor.
LEMMA PositionRange ==
    ASSUME NEW link \in Links, WellTyped(link)
    PROVE  position(link) \in I64
<1>1. /\ link # NotObject /\ "currentDepth" \in DepthMembers
      /\ depth_of(link, "currentDepth") # Err
  BY DEF WellTyped, DepthMembers
<1>2. link["currentDepth"] \in NumberValue
  BY <1>1, LinkAssumption
<1>3. 0 \in I64 /\ I64 \subseteq Int
  BY IntegerAssumption DEF I64
<1>4. AsI64 \in [Number -> I64 \cup {None}] /\ NegativeZeros \subseteq Number
  BY ReadingAssumption
<1>5. CASE link["currentDepth"] \in {Absent, Null, Malformed}
  <2>1. link["currentDepth"] \in {Absent, Null}
    BY <1>1, <1>5, <1>4, ShapeAssumption DEF depth_of
  <2>2. depth_of(link, "currentDepth") = None
    BY <2>1, <1>4, ShapeAssumption DEF depth_of
  <2>. QED BY <1>3, <2>2 DEF position
<1>6. CASE link["currentDepth"] \in Number
  <2>1. link["currentDepth"] \notin {Absent, Null, Malformed}
    BY <1>6, ShapeAssumption
  <2>2. depth_of(link, "currentDepth") \in I64 \cup {None}
    BY <1>1, <1>3, <1>4, <1>6, <2>1 DEF depth_of
  <2>. QED BY <1>3, <2>2 DEF position
<1>. QED BY <1>2, <1>5, <1>6 DEF NumberValue

\* The walk refuses a child that exceeds the ceiling, and so an ancestor that
\* states what the ceiling is.
LEMMA NarrowRefusesRightly ==
    ASSUME NEW c, Attenuates(c), NEW j \in 2..Len(c), Len(c) \in Nat,
           \A i \in 1..Len(c) : c[i] \in Links,
           NEW b \in Bounds, IsCeilingOf(b, c, 1..(j - 1))
    PROVE  NarrowPasses(b, c[j])
<1>1. /\ \A i \in 1..(j - 1) : i \in 1..Len(c)
      /\ j \in 1..Len(c)
  OBVIOUS
<1>2. \A i \in 1..Len(c) :
         /\ spend_limit_of(c[i]) \in Int \cup {None} /\ stated_unit(c[i]) \in Text
         /\ max_depth_of(c[i]) \in Int \cup {None}
         /\ not_before_of(c[i]) \in Int \cup {None}
  BY LinkParts, DecodedTypes DEF max_depth_of, not_before_of, DepthMembers
<1>3. /\ b.spend_limit \in Int \cup {None} /\ b.max_depth \in Int \cup {None}
      /\ b.not_before \in Int \cup {None}
  BY DEF Bounds
<1>4. ~FailsNarrow("SpendLimitWidening", b, c[j])
  <2> SUFFICES ASSUME b.spend_limit # None, spend_limit_of(c[j]) # None
               PROVE  spend_limit_of(c[j]) <= b.spend_limit
    BY <1>1, <1>2, <1>3, NotAbove DEF FailsNarrow
  <2>1. b.spend_limit \in SpendLimits(c, 1..(j - 1))
    BY DEF IsCeilingOf, IsLeast
  <2>2. PICK i \in 1..(j - 1) : b.spend_limit = spend_limit_of(c[i])
    BY <2>1 DEF SpendLimits
  <2>. QED BY <1>1, <2>2, PairParts
<1>5. ~FailsNarrow("DepthLimitWidening", b, c[j])
  <2> SUFFICES ASSUME b.max_depth # None, max_depth_of(c[j]) # None
               PROVE  max_depth_of(c[j]) <= b.max_depth
    BY <1>1, <1>2, <1>3, NotAbove DEF FailsNarrow
  <2>1. b.max_depth \in MaxDepths(c, 1..(j - 1))
    BY DEF IsCeilingOf, IsLeast
  <2>2. PICK i \in 1..(j - 1) : b.max_depth = max_depth_of(c[i])
    BY <2>1 DEF MaxDepths
  <2>. QED BY <1>1, <2>2, PairParts
<1>6. ~FailsNarrow("ActivationWidening", b, c[j])
  <2>0. not_before_of(c[j]) \in Int \cup {None}
    BY <1>1, <1>2
  <2> SUFFICES ASSUME b.not_before # None, not_before_of(c[j]) # None
               PROVE  b.not_before <= not_before_of(c[j])
    BY <1>3, <2>0, NotAbove DEF FailsNarrow
  <2>1. b.not_before \in NotBefores(c, 1..(j - 1))
    BY DEF IsCeilingOf, IsGreatest
  <2>2. PICK i \in 1..(j - 1) : b.not_before = not_before_of(c[i])
    BY <2>1 DEF NotBefores
  <2>3. not_before_of(c[j]) >= b.not_before
    BY <1>1, <2>2, PairParts
  <2>. QED BY <1>3, <2>0, <2>3
<1>7. ~FailsNarrow("SpendUnitChanged", b, c[j])
  <2> SUFFICES ASSUME b.spend_unit # "", stated_unit(c[j]) # "",
                      stated_unit(c[j]) # b.spend_unit
               PROVE  FALSE
    BY DEF FailsNarrow
  <2>1. b.spend_unit \in SpendUnits(c, 1..(j - 1))
    BY DEF IsCeilingOf
  <2>2. PICK i \in 1..(j - 1) : b.spend_unit = stated_unit(c[i])
    BY <2>1 DEF SpendUnits
  <2>. QED BY <1>1, <2>2, PairParts
<1>8. ~FailsNarrow("NotBeforeUnparseable", b, c[j])
  BY <1>1, LinkParts DEF FailsNarrow
<1>. QED BY <1>4, <1>5, <1>6, <1>7, <1>8 DEF NarrowPasses

\* No check of the walk fails on a chain that attenuates.
LEMMA HopChecks ==
    ASSUME NEW c, Attenuates(c), Len(c) \in Nat, NEW j \in 2..Len(c),
           \A i \in 1..Len(c) : c[i] \in Links,
           NEW b \in Bounds, IsCeilingOf(b, c, 1..(j - 1)),
           NEW i \in DOMAIN HopRules, FailsHop(HopRules[i], b, c[j - 1], c[j])
    PROVE  FALSE
<1> DEFINE parent == c[j - 1]
           child == c[j]
<1>1. /\ j \in 2..Len(c) /\ Len(c) \in Nat /\ b \in Bounds
      /\ \A k \in 1..Len(c) : c[k] \in Links
  OBVIOUS
<1>3. /\ j \in 1..Len(c) /\ j - 1 \in 1..Len(c) /\ j - 1 \in 1..(j - 1)
      /\ 1 \in 1..Len(c) /\ Len(c) > 1
  BY <1>1
<1>4. /\ WellTyped(parent) /\ WellTyped(child) /\ parent \in Links /\ child \in Links
      /\ c[1] \in Links /\ WellTyped(c[1])
  BY <1>1, <1>3, LinkParts
<1>6. NarrowPasses(b, child)
  BY <1>1, NarrowRefusesRightly
<1>7. /\ position(parent) \in Int /\ position(child) \in I64
      /\ position(c[1]) \in Int /\ position(child) \in Int
  BY <1>4, PositionType, PositionRange
<1>8. NextPosition(parent, child)
  <2>1. /\ position(child) = position(c[1]) + (j - 1)
        /\ position(parent) = position(c[1]) + ((j - 1) - 1)
    BY <1>3, DepthParts
  <2>2. position(child) = position(parent) + 1
    BY <1>1, <1>7, <2>1
  <2>3. position(child) <= MaxI64 /\ MaxI64 \in Int
    BY <1>7, IntegerAssumption DEF I64
  <2>. QED BY <1>7, <2>2, <2>3 DEF NextPosition
<1>9. ~BelowFloor(child)
  <2> SUFFICES ASSUME NEW key \in DepthMembers, depth_of(child, key) # None,
                      depth_of(child, key) < 0
               PROVE  FALSE
    BY DEF BelowFloor
  <2>1. depth_of(child, key) \in Int
    BY <1>4, DecodedTypes
  <2>. QED BY <1>3, <2>1, DepthParts
<1>10. ~Exceeds(position(child), narrow(b, child).max_depth)
  <2>1. /\ max_depth_of(child) \in Int \cup {None} /\ b.max_depth \in Int \cup {None}
    BY <1>1, <1>4, DecodedTypes DEF max_depth_of, DepthMembers, Bounds
  <2>2. narrow(b, child).max_depth \in {max_depth_of(child), b.max_depth}
    BY DEF narrow, Tighten
  <2>3. ~Exceeds(position(child), max_depth_of(child))
    <3>1. j \in 1..j
      BY <1>1
    <3>2. max_depth_of(child) = None \/ position(child) <= max_depth_of(child)
      BY <1>3, <3>1, DepthParts
    <3>. QED BY <1>7, <2>1, <3>2, NotAbove
  <2>4. ~Exceeds(position(child), b.max_depth)
    <3> SUFFICES ASSUME b.max_depth # None PROVE position(child) <= b.max_depth
      BY <1>7, <2>1, NotAbove
    <3>1. b.max_depth \in MaxDepths(c, 1..(j - 1))
      BY DEF IsCeilingOf, IsLeast
    <3>2. PICK k \in 1..(j - 1) : b.max_depth = max_depth_of(c[k])
      BY <3>1 DEF MaxDepths
    <3>3. k \in 1..j
      BY <1>1
    <3>. QED BY <1>3, <3>2, <3>3, DepthParts
  <2>. QED BY <2>2, <2>3, <2>4
<1>11. text_of(child, "delegatedBy") = text_of(parent, "delegatedTo") /\ ScopeWithin(parent, child)
  BY <1>1 DEF Attenuates, Linked, ScopeWithin
<1>12. expiry_of(parent) # Err /\ expiry_of(child) # Err
  BY <1>3, LinkParts
<1>13. ~Outlives(parent, child)
  <2>1. expiry_of(parent) # None =>
           expiry_of(child) # None /\ expiry_of(child) <= expiry_of(parent)
    BY <1>1, <1>3 DEF Attenuates, ExpiryAttenuates
  <2>2. expiry_of(parent) \in Int \cup {None} /\ expiry_of(child) \in Int \cup {None}
    BY <1>4, <1>12, ExpiryType
  <2>3. ~Exceeds(expiry_of(child), expiry_of(parent))
    BY <2>1, <2>2, NotAbove
  <2>. QED BY <2>1, <2>3 DEF Outlives
<1>14. HopRules[i] \in
          {"BrokenLinkage", "SpendUnitChanged", "SpendLimitWidening",
           "DepthLimitWidening", "NotBeforeUnparseable", "ActivationWidening",
           "DepthNotMonotonic", "DepthBelowZero", "DepthLimitExceeded",
           "ScopeWidening", "ParentExpiryUnparseable", "ExpiryUnparseable",
           "ExpiryWidening"}
  BY DEF HopRules, NarrowRules
<1>. QED
  BY <1>6, <1>8, <1>9, <1>10, <1>11, <1>12, <1>13, <1>14
  DEF FailsHop, NarrowPasses

\* The same of the stretch of the chain down to the link that is refused,
\* over which the ceiling is what it is over the whole chain.
LEMMA PrefixRefused ==
    ASSUME IInv, RefuseRoot \/ RefuseHop, NEW n, n = IF pc = "seed" THEN 1 ELSE hop
    PROVE  ~Attenuates(SubSeq(chain, 1, n))
<1> DEFINE c == SubSeq(chain, 1, n)
<1>1. /\ chain \in Seq(Links) /\ Len(chain) \in Nat /\ n \in 1..Len(chain)
      /\ \A i \in 1..Len(chain) : chain[i] \in Links
      /\ bound \in Bounds
      /\ RefuseRoot => pc = "seed" /\ n = 1
      /\ RefuseHop => pc = "walk" /\ n = hop /\ hop >= 2
  BY ChainFacts DEF RefuseRoot, RefuseHop, IInv, TypeOK, Control
<1>2. /\ Len(c) = n /\ n \in Nat /\ c # << >>
      /\ \A i \in 1..n : c[i] = chain[i]
  BY <1>1, UpTo
<1>. HIDE DEF c
<1>3. ASSUME Attenuates(c), RefuseRoot PROVE FALSE
  <2>1. PICK i \in DOMAIN SeedRules : FailsSeed(SeedRules[i], chain[1])
    BY <1>3 DEF RefuseRoot
  <2>2. c[1] = chain[1] /\ 1 \in 1..Len(c) /\ c[1] \in Links
    BY <1>1, <1>2, <1>3
  <2>. QED BY <1>2, <1>3, <2>1, <2>2, SeedChecks
<1>4. ASSUME Attenuates(c), RefuseHop PROVE FALSE
  <2>1. PICK i \in DOMAIN HopRules :
           FailsHop(HopRules[i], bound, chain[hop - 1], chain[hop])
    BY <1>4 DEF RefuseHop
  <2>2. /\ hop \in 2..Len(c) /\ c[hop] = chain[hop] /\ c[hop - 1] = chain[hop - 1]
        /\ \A k \in 1..Len(c) : c[k] \in Links
    BY <1>1, <1>2, <1>4
  <2>3. IsCeilingOf(bound, chain, 1..(hop - 1))
    <3>1. Walked = 1..(hop - 1)
      BY <1>1, <1>4 DEF Walked
    <3>2. 1 \in 1..(hop - 1)
      BY <1>1, <1>4
    <3>3. Walked # {}
      BY <3>1, <3>2
    <3>. QED BY <3>1, <3>3 DEF IInv, EffectiveCeilings
  <2>4. \A k \in 1..(hop - 1) : c[k] = chain[k]
    BY <1>1, <1>2, <1>4
  <2>5. IsCeilingOf(bound, c, 1..(hop - 1))
    <3>1. /\ SpendLimits(c, 1..(hop - 1)) = SpendLimits(chain, 1..(hop - 1))
          /\ MaxDepths(c, 1..(hop - 1)) = MaxDepths(chain, 1..(hop - 1))
          /\ NotBefores(c, 1..(hop - 1)) = NotBefores(chain, 1..(hop - 1))
          /\ SpendUnits(c, 1..(hop - 1)) = SpendUnits(chain, 1..(hop - 1))
      BY <2>4 DEF SpendLimits, MaxDepths, NotBefores, SpendUnits
    <3>. QED BY <2>3, <3>1 DEF IsCeilingOf
  <2>6. Len(c) \in Nat
    BY <1>2
  <2>. QED BY <1>1, <1>4, <2>1, <2>2, <2>5, <2>6, HopChecks
<1>5. ~Attenuates(c)
  BY <1>3, <1>4
<1>. QED BY <1>5 DEF c

\* What goes wrong in a stretch of the chain goes wrong in the chain.
LEMMA PrefixesAttenuate ==
    ASSUME Attenuates(chain), chain \in Seq(Links), Len(chain) \in Nat,
           NEW n \in 1..Len(chain)
    PROVE  Attenuates(SubSeq(chain, 1, n))
<1> DEFINE c == SubSeq(chain, 1, n)
<1>1. /\ Len(c) = n /\ n \in Nat /\ c # << >>
      /\ \A i \in 1..n : c[i] = chain[i] /\ i \in 1..Len(chain)
      /\ n <= Len(chain)
  BY UpTo
<1>. HIDE DEF c
<1>2. /\ \A i \in 1..n : WellTyped(c[i])
      /\ ActivationAttenuates(chain) /\ SpendAttenuates(chain) /\ DepthAttenuates(chain)
      /\ ExpiryAttenuates(chain) /\ Linked(chain)
  BY <1>1 DEF Attenuates
<1>3. \A j \in 1..n : /\ j \in 1..Len(chain) /\ c[j] = chain[j]
                      /\ \A i \in 1..(j - 1) : i \in 1..n /\ c[i] = chain[i]
                      /\ \A i \in 1..j : i \in 1..n /\ c[i] = chain[i]
  BY <1>1
<1>4. ActivationAttenuates(c)
  <2>1. Descends(c, not_before_of, None, AtLeast)
    BY <1>1, <1>2, <1>3 DEF ActivationAttenuates, Descends, AtLeast
  <2>2. \A j \in 1..Len(c) : not_before_of(c[j]) # Err
    BY <1>1, <1>2, <1>3 DEF ActivationAttenuates
  <2>. QED BY <2>1, <2>2 DEF ActivationAttenuates
<1>5. SpendAttenuates(c)
  <2>1. Descends(c, spend_limit_of, None, AtMost)
    BY <1>1, <1>2, <1>3 DEF SpendAttenuates, Descends, AtMost
  <2>2. Descends(c, stated_unit, "", Same)
    <3>1. \A j \in 1..n : \A i \in 1..(j - 1) :
             stated_unit(chain[i]) # "" /\ stated_unit(chain[j]) # ""
                => stated_unit(chain[j]) = stated_unit(chain[i])
      BY <1>2, <1>3 DEF SpendAttenuates, Descends, Same
    <3>2. \A j \in 1..n : \A i \in 1..(j - 1) :
             stated_unit(c[i]) # "" /\ stated_unit(c[j]) # ""
                => Same(stated_unit(c[i]), stated_unit(c[j]))
      BY <1>3, <3>1 DEF Same
    <3>. QED BY <1>1, <3>2, Zenon DEF Descends
  <2>. QED BY <2>1, <2>2 DEF SpendAttenuates
<1>6. DepthAttenuates(c)
  <2>1. Descends(c, max_depth_of, None, AtMost)
    BY <1>1, <1>2, <1>3 DEF DepthAttenuates, Descends, AtMost
  <2>2. 1 \in 1..n /\ c[1] = chain[1]
    BY <1>1
  <2>. QED BY <1>1, <1>2, <1>3, <2>1, <2>2 DEF DepthAttenuates
<1>7. ExpiryAttenuates(c)
  BY <1>1, <1>2, <1>3 DEF ExpiryAttenuates
<1>8. Linked(c)
  <2>1. \A j \in 2..n : /\ j \in 2..Len(chain) /\ c[j] = chain[j]
                        /\ c[j - 1] = chain[j - 1]
    BY <1>1
  <2>. QED BY <1>1, <1>2, <2>1 DEF Linked
<1>9. Attenuates(c)
  BY <1>1, <1>2, <1>4, <1>5, <1>6, <1>7, <1>8 DEF Attenuates
<1>. QED BY <1>9 DEF c

LEMMA RefusesRightly ==
    ASSUME IInv, RefuseRoot \/ RefuseHop
    PROVE  ~Attenuates(chain)
<1> DEFINE n == IF pc = "seed" THEN 1 ELSE hop
<1>1. /\ chain \in Seq(Links) /\ Len(chain) \in Nat /\ n \in 1..Len(chain)
  BY ChainFacts DEF RefuseRoot, RefuseHop, IInv, TypeOK, Control
<1>2. ~Attenuates(SubSeq(chain, 1, n))
  BY PrefixRefused
<1>. HIDE DEF n
<1>. QED BY <1>1, <1>2, PrefixesAttenuate

----------------------------------------------------------------------------
(* Where a refusal points *)

IllTyped == {i \in 1..Len(chain) : ~WellTyped(chain[i])}

LEMMA GateErrorNames ==
    GateErrors = {"NotAnObject", "ScopeElementNotAString", "DepthNotAnInteger",
                  "SpendLimitNotANumber", "MemberNotAString"}
BY DEF GateErrors, GateRules

\* The gate reads from the top: every link above the one it refuses passed.
LEMMA GateNamesOffence ==
    ASSUME IInv, RefuseAtGate
    PROVE  RefusalNamesFirstOffender'
<1>1. /\ pc = "gate" /\ hop \in 1..Len(chain) /\ Len(chain) \in Nat
      /\ \A i \in 1..(hop - 1) : WellTyped(chain[i])
  BY ChainFacts DEF RefuseAtGate, IInv, Control, Gated
<1>2. PICK i \in DOMAIN GateRules :
         FailsGate(GateRules[i], chain[hop]) /\ Refuse(GateRules[i], hop)
  BY DEF RefuseAtGate
<1>3. GateRules[i] \in GateErrors
  BY DEF GateErrors
<1>4. ~WellTyped(chain[hop])
  BY <1>2, <1>3, GateErrorNames DEF FailsGate, WellTyped
<1>5. \A k \in 1..Len(chain) : ~WellTyped(chain[k]) => hop <= k
  BY <1>1
<1>6. verdict' = [kind |-> GateRules[i], hop |-> hop - 1] /\ chain' = chain
  BY <1>2 DEF Refuse
<1>7. verdict'.hop + 1 = hop /\ verdict'.kind \in GateErrors
  BY <1>1, <1>3, <1>6
<1>. QED BY <1>1, <1>4, <1>5, <1>6, <1>7 DEF RefusalNamesFirstOffender

\* The kinds of refusal that only a well typed chain meets.
LEMMA LaterErrors ==
    /\ \A i \in DOMAIN SeedRules : SeedRules[i] \notin GateErrors
    /\ \A i \in DOMAIN HopRules : HopRules[i] \notin GateErrors
    /\ "ExpiryUnparseable" \notin GateErrors
BY GateErrorNames DEF SeedRules, HopRules, NarrowRules

\* A verdict on link at, once that much is known of it.
LEMMA NamesLater ==
    ASSUME NEW kind, kind \notin GateErrors, NEW at \in Nat,
           IllTyped = {}, chain' = chain,
           verdict' = [kind |-> kind, hop |-> at - 1],
           at > 1 => Attenuates(SubSeq(chain, 1, at - 1)),
           \/ ~Attenuates(SubSeq(chain, 1, at))
           \/ kind = "ExpiryUnparseable" /\ at = 1 /\ expiry_of(chain[1]) = Err
    PROVE  RefusalNamesFirstOffender'
<1>1. verdict'.hop + 1 = at /\ verdict'.kind = kind
  OBVIOUS
<1>. QED BY <1>1 DEF RefusalNamesFirstOffender, IllTyped

\* The root is the first link of all.
LEMMA RootNamesOffence ==
    ASSUME IInv, RefuseRoot
    PROVE  RefusalNamesFirstOffender'
<1>1. pc = "seed" /\ IllTyped = {}
  BY DEF RefuseRoot, IInv, Gated, GateMakesReadingTotal, IllTyped
<1>2. PICK i \in DOMAIN SeedRules : Refuse(SeedRules[i], 1)
  BY DEF RefuseRoot
<1>3. /\ SeedRules[i] \notin GateErrors /\ chain' = chain
      /\ verdict' = [kind |-> SeedRules[i], hop |-> 1 - 1]
  BY <1>2, LaterErrors DEF Refuse
<1>4. ~Attenuates(SubSeq(chain, 1, 1))
  BY <1>1, PrefixRefused
<1>. QED BY <1>1, <1>3, <1>4, NamesLater

\* Down to the parent the chain attenuates, so it stops at the child, unless
\* the parent is a root whose expiry was never read before.
LEMMA HopNamesOffence ==
    ASSUME IInv, Walkable, RefuseHop
    PROVE  RefusalNamesFirstOffender'
<1>1. /\ pc = "walk" /\ IllTyped = {} /\ hop \in 2..Len(chain)
      /\ chain \in Seq(Links) /\ Len(chain) \in Nat /\ hop \in Nat /\ hop - 1 \in Nat
  BY ChainFacts
  DEF RefuseHop, IInv, Control, Gated, GateMakesReadingTotal, IllTyped
<1>2. PICK i \in DOMAIN HopRules :
         /\ FailsHop(HopRules[i], bound, chain[hop - 1], chain[hop])
         /\ IF HopRules[i] = "ParentExpiryUnparseable"
            THEN Refuse("ExpiryUnparseable", hop - 1)
            ELSE Refuse(HopRules[i], hop)
  BY DEF RefuseHop
<1>3. hop - 1 \in 1..(hop - 1)
  BY <1>1
<1>4. Attenuates(SubSeq(chain, 1, hop - 1))
  BY <1>1, <1>3, PrefixAttenuates
<1>5. CASE HopRules[i] # "ParentExpiryUnparseable"
  <2>1. /\ HopRules[i] \notin GateErrors /\ chain' = chain
        /\ verdict' = [kind |-> HopRules[i], hop |-> hop - 1]
    BY <1>2, <1>5, LaterErrors DEF Refuse
  <2>2. ~Attenuates(SubSeq(chain, 1, hop))
    BY <1>1, PrefixRefused
  <2>. QED BY <1>1, <1>4, <2>1, <2>2, NamesLater
<1>6. CASE HopRules[i] = "ParentExpiryUnparseable"
  <2>1. expiry_of(chain[hop - 1]) = Err
    BY <1>2, <1>6 DEF FailsHop
  <2>2. hop = 2
    <3> SUFFICES ASSUME hop > 2 PROVE FALSE
      BY <1>1
    <3>1. hop - 1 > 1
      BY <1>1
    <3>2. Follows(chain[hop - 1 - 1], chain[hop - 1])
      BY <1>1, <1>3, <3>1 DEF Walkable, WalkedTo, HeldTo
    <3>. QED BY <2>1, <3>2 DEF Follows
  <2>3. /\ chain' = chain
        /\ verdict' = [kind |-> "ExpiryUnparseable", hop |-> 1 - 1]
    BY <1>2, <1>6, <2>2 DEF Refuse
  <2>4. expiry_of(chain[1]) = Err
    BY <2>1, <2>2
  <2>. QED BY <1>1, <2>3, <2>4, LaterErrors, NamesLater
<1>. QED BY <1>5, <1>6

\* The verdicts that name no link.
LEMMA NamesNothing ==
    ASSUME verdict.kind \in {"Pending", "Ok", "EmptyChain"}
    PROVE  RefusalNamesFirstOffender
BY GateErrorNames DEF RefusalNamesFirstOffender

LEMMA OffenceKept ==
    ASSUME IInv, Walkable, RefusalNamesFirstOffender, [StructureNext]_structureVars
    PROVE  RefusalNamesFirstOffender'
<1>1. CASE verdict' = verdict
  <2>1. chain' = chain
    BY DEF StructureNext, RefuseEmpty, GateLink, RefuseAtGate, SeedRoot, RefuseRoot,
           WalkHop, RefuseHop, Accept, Refuse, structureVars
  <2>. QED BY <1>1, <2>1 DEF RefusalNamesFirstOffender
<1>2. CASE RefuseEmpty \/ Accept
  <2>1. verdict'.kind \in {"Pending", "Ok", "EmptyChain"}
    BY <1>2 DEF RefuseEmpty, Accept, Refuse, Accepted
  <2>. QED BY <2>1, GateErrorNames DEF RefusalNamesFirstOffender
<1>. QED
  BY <1>1, <1>2, GateNamesOffence, RootNamesOffence, HopNamesOffence
  DEF StructureNext, GateLink, SeedRoot, WalkHop, structureVars

----------------------------------------------------------------------------
(* The results *)

\* What a verdict says of the chain.
Decided ==
    /\ verdict = Accepted => Attenuates(chain)
    /\ verdict \notin {Pending, Accepted} => ~Attenuates(chain)

DecisionInv == IInv /\ Walkable /\ Decided

\* A refusal is right, and an acceptance is.
LEMMA DecidedKept == DecisionInv /\ [StructureNext]_structureVars => DecisionInv'
<1> SUFFICES ASSUME DecisionInv, [StructureNext]_structureVars PROVE DecisionInv'
  OBVIOUS
<1>1. IInv' /\ Walkable'
  BY WalkableKept, GateInv, SeedInv, WalkInv, AcceptInv, RefusalInv, StutterInv
  DEF DecisionInv, StructureNext
<1>2. chain' = chain
  BY DEF StructureNext, RefuseEmpty, GateLink, RefuseAtGate, SeedRoot, RefuseRoot,
         WalkHop, RefuseHop, Accept, Refuse, structureVars
<1>3. CASE verdict' = verdict
  BY <1>1, <1>2, <1>3 DEF DecisionInv, Decided
<1>4. CASE RefuseEmpty \/ RefuseAtGate \/ RefuseRoot \/ RefuseHop
  <2>1. RefuseEmpty => ~Attenuates(chain)
    BY DEF RefuseEmpty, Attenuates
  <2>2. ~Attenuates(chain)
    BY <1>4, <2>1, GateRefusesRightly, RefusesRightly DEF DecisionInv
  <2>3. verdict' # Accepted
    BY <1>4, RefusalEnds
  <2>. QED BY <1>1, <1>2, <2>2, <2>3 DEF DecisionInv, Decided
<1>5. CASE Accept
  <2>1. verdict' = Accepted /\ Accepted # Pending
    BY <1>5 DEF Accept, Accepted, Pending
  <2>2. Attenuates(chain)
    BY <1>5, AcceptedAttenuates DEF DecisionInv
  <2>. QED BY <1>1, <1>2, <2>1, <2>2 DEF DecisionInv, Decided
<1>. QED
  BY <1>3, <1>4, <1>5 DEF StructureNext, GateLink, SeedRoot, WalkHop, structureVars

LEMMA DecisionInvariance == StructureSpec => []DecisionInv
<1>1. StructureInit => DecisionInv
  BY InitInv DEF StructureInit, DecisionInv, Walkable, Decided, Pending, Accepted
<1>. QED BY <1>1, DecidedKept, PTL DEF StructureSpec

\* Whatever the chain, a verdict is "accepted" if and only if every link
\* attenuates every link above it: no chain that widens anything gets
\* through, and none that does not is turned away.
THEOREM DecidesAttenuation ==
    StructureSpec => [](verdict # Pending => (verdict = Accepted <=> Attenuates(chain)))
<1>1. DecisionInv => (verdict # Pending => (verdict = Accepted <=> Attenuates(chain)))
  BY DEF DecisionInv, Decided
<1>. QED BY <1>1, DecisionInvariance, PTL

\* A refusal is right about where the chain goes wrong: every link above the
\* one it names would have been accepted, and that link not, but for a root
\* whose expiry is read only from the second link.
THEOREM RefusesFirstOffender == StructureSpec => []RefusalNamesFirstOffender
<1>1. StructureInit => RefusalNamesFirstOffender
  <2>1. StructureInit => verdict.kind = "Pending"
    BY DEF StructureInit, Pending
  <2>. QED BY <2>1, NamesNothing
<1>2. DecisionInv /\ RefusalNamesFirstOffender /\ [StructureNext]_structureVars
         => RefusalNamesFirstOffender'
  BY OffenceKept DEF DecisionInv
<1>. QED BY <1>1, <1>2, DecisionInvariance, PTL DEF StructureSpec

\* Containment of each expiry in the parent's amounts to containment in every
\* ancestor's.
THEOREM ExpiryIsContained == StructureSpec => []AcceptedExpiryContained
<1>1. DecisionInv => AcceptedExpiryContained
  BY DEF DecisionInv, Walkable, WalkedTo, HeldTo, AcceptedExpiryContained
<1>. QED BY <1>1, DecisionInvariance, PTL

\* Coverage of each link's scopes by its parent's amounts to coverage by
\* every ancestor's, where no scope ends in a doubled wildcard.
THEOREM ScopeIsContained == StructureSpec => []AcceptedScopeWithinAncestors
<1>1. StructureInit => Coverable
  BY DEF StructureInit, Coverable, Pending, Accepted
<1>2. IInv /\ Coverable => AcceptedScopeWithinAncestors
  BY DEF Coverable, CoveredTo, AllPlain, AcceptedScopeWithinAncestors
<1>. QED BY <1>1, <1>2, CoverableKept, Invariance, PTL DEF StructureSpec

\* The call is an execution of the abstract Decision: it starts undecided and
\* each step decides rightly or leaves the decision alone.
THEOREM DecidesAsPromised ==
    StructureSpec => Promise!Init /\ [][Promise!Decide]_(Promise!vars)
<1>1. StructureInit => Promise!Init
  BY DEF StructureInit, Promise!Init, Pending, Accepted
<1>2. DecisionInv /\ DecisionInv' /\ [StructureNext]_structureVars
         => [Promise!Decide]_(Promise!vars)
  <2> SUFFICES ASSUME DecisionInv, DecisionInv', [StructureNext]_structureVars
               PROVE  [Promise!Decide]_(Promise!vars)
    OBVIOUS
  <2>1. chain' = chain
    BY DEF StructureNext, RefuseEmpty, GateLink, RefuseAtGate, SeedRoot, RefuseRoot,
           WalkHop, RefuseHop, Accept, Refuse, structureVars
  <2>2. CASE verdict' = verdict
    BY <2>1, <2>2 DEF Promise!vars
  <2>3. CASE verdict' # verdict
    <3>1. verdict = Pending
      <4>1. pc # "done"
        BY <2>3 DEF StructureNext, RefuseEmpty, GateLink, RefuseAtGate, SeedRoot,
                    RefuseRoot, WalkHop, RefuseHop, Accept, structureVars
      <4>. QED BY <4>1 DEF DecisionInv, IInv, Control
    <3>2. verdict' # Pending /\ Pending # Accepted
      BY <2>3, <3>1 DEF Pending, Accepted
    <3>3. verdict' = Accepted <=> Attenuates(chain)
      BY <2>1, <3>2 DEF DecisionInv, Decided
    <3>. QED BY <2>1, <3>1, <3>2, <3>3 DEF Promise!Decide
  <2>. QED BY <2>2, <2>3
<1>. QED BY <1>1, <1>2, DecisionInvariance, PTL DEF StructureSpec

----------------------------------------------------------------------------
(* Null members *)

\* Every extraction reads the same from a link and from it without its nulls.
SameReading(e, link) ==
    /\ e = NotObject <=> link = NotObject
    /\ link # NotObject =>
          /\ \A key \in TextMembers : text_of(e, key) = text_of(link, key)
          /\ \A key \in DepthMembers : depth_of(e, key) = depth_of(link, key)
          /\ spend_limit_of(e) = spend_limit_of(link)
          /\ stated_unit(e) = stated_unit(link)
          /\ scopes_of(e) = scopes_of(link)
          /\ position(e) = position(link)
          /\ \A key \in TextMembers : instant_of(e, key) = instant_of(link, key)

LEMMA NullFreeReadsSame ==
    ASSUME NEW link \in Links
    PROVE  SameReading(without_nulls(link), link)
<1> DEFINE e == without_nulls(link)
<1>1. CASE link = NotObject
  BY <1>1 DEF SameReading, without_nulls
<1>2. CASE link # NotObject
  <2>1. e # NotObject
    BY <1>2, MemberAssumption
  <2>2. ASSUME NEW key \in TextMembers \cup DepthMembers \cup {"spendLimit", "scope"}
        PROVE  e[key] = IF link[key] = Null THEN Absent ELSE link[key]
    <3>1. key \in DOMAIN link
      BY <1>2, MemberAssumption
    <3>. QED BY <1>2, <3>1 DEF without_nulls
  <2> HIDE DEF e
  <2>3. \A key \in TextMembers : text_of(e, key) = text_of(link, key)
    BY <2>2, ShapeAssumption DEF text_of
  <2>4. \A key \in DepthMembers : depth_of(e, key) = depth_of(link, key)
    <3> SUFFICES ASSUME NEW key \in DepthMembers
                 PROVE  depth_of(e, key) = depth_of(link, key)
      OBVIOUS
    <3>1. CASE link[key] = Null
      <4>1. e[key] = Absent
        BY <2>2, <3>1
      <4>. QED BY <3>1, <4>1, ShapeAssumption, ReadingAssumption DEF depth_of
    <3>2. CASE link[key] # Null
      <4>1. e[key] = link[key]
        BY <2>2, <3>2
      <4>. QED BY <4>1 DEF depth_of
    <3>. QED BY <3>1, <3>2
  <2>5. spend_limit_of(e) = spend_limit_of(link)
    <3>1. e.spendLimit = IF link.spendLimit = Null THEN Absent ELSE link.spendLimit
      BY <2>2
    <3>. QED BY <3>1, ShapeAssumption DEF spend_limit_of
  <2>6. scopes_of(e) = scopes_of(link)
    <3>1. e.scope = IF link.scope = Null THEN Absent ELSE link.scope
      BY <2>2
    <3>2. CASE link.scope = Null
      BY <3>1, <3>2 DEF scopes_of
    <3>3. CASE link.scope # Null
      <4>1. e.scope = link.scope
        BY <3>1, <3>3
      <4>. QED BY <4>1 DEF scopes_of
    <3>. QED BY <3>2, <3>3
  <2>7. stated_unit(e) = stated_unit(link)
    <3>1. text_of(e, "spendLimitUnit") = text_of(link, "spendLimitUnit")
      BY <2>3 DEF TextMembers
    <3>. QED BY <3>1, <2>5, OptionAssumption DEF stated_unit
  <2>8. position(e) = position(link)
    BY <2>4 DEF position, DepthMembers
  <2>9. \A key \in TextMembers : instant_of(e, key) = instant_of(link, key)
    BY <2>3 DEF instant_of
  <2>. QED
    BY <1>2, <2>1, <2>3, <2>4, <2>5, <2>6, <2>7, <2>8, <2>9 DEF SameReading, e
<1>. QED BY <1>1, <1>2

\* Chains of links that read the same attenuate alike.
LEMMA SameReadingsAttenuateAlike ==
    ASSUME NEW c, NEW d, Len(c) = Len(d), c # << >>, d # << >>,
           \A i \in 1..Len(c) : WellTyped(c[i]) /\ SameReading(c[i], d[i]),
           Len(c) \in Nat
    PROVE  Attenuates(c) <=> Attenuates(d)
<1>1. ASSUME NEW i \in 1..Len(c)
      PROVE  /\ \A key \in TextMembers : text_of(c[i], key) = text_of(d[i], key)
             /\ \A key \in DepthMembers : depth_of(c[i], key) = depth_of(d[i], key)
             /\ spend_limit_of(c[i]) = spend_limit_of(d[i])
             /\ stated_unit(c[i]) = stated_unit(d[i])
             /\ scopes_of(c[i]) = scopes_of(d[i])
             /\ position(c[i]) = position(d[i])
             /\ not_before_of(c[i]) = not_before_of(d[i])
             /\ expiry_of(c[i]) = expiry_of(d[i])
             /\ max_depth_of(c[i]) = max_depth_of(d[i])
             /\ WellTyped(d[i])
  <2>1. WellTyped(c[i]) /\ SameReading(c[i], d[i]) /\ d[i] # NotObject
    BY DEF WellTyped, SameReading
  <2>. QED
    BY <2>1 DEF WellTyped, SameReading, not_before_of, expiry_of, max_depth_of, TextMembers,
                DepthMembers
<1>2. SpendAttenuates(c) <=> SpendAttenuates(d)
  <2>1. ASSUME NEW j \in 1..Len(c), NEW i \in 1..(j - 1)
        PROVE  i \in 1..Len(c)
    OBVIOUS
  <2>2. ASSUME NEW j \in 1..Len(c), NEW i \in 1..(j - 1)
        PROVE  /\ spend_limit_of(c[i]) = spend_limit_of(d[i])
               /\ spend_limit_of(c[j]) = spend_limit_of(d[j])
               /\ stated_unit(c[i]) = stated_unit(d[i])
               /\ stated_unit(c[j]) = stated_unit(d[j])
    BY <1>1, <2>1
  <2>3. Descends(c, spend_limit_of, None, AtMost) <=> Descends(d, spend_limit_of, None, AtMost)
    BY <2>2 DEF Descends
  <2>4. Descends(c, stated_unit, "", Same) <=> Descends(d, stated_unit, "", Same)
    BY <2>2 DEF Descends, Same
  <2>. QED BY <2>3, <2>4 DEF SpendAttenuates
<1>3. DepthAttenuates(c) <=> DepthAttenuates(d)
  BY <1>1 DEF DepthAttenuates, Descends
<1>4. ActivationAttenuates(c) <=> ActivationAttenuates(d)
  BY <1>1 DEF ActivationAttenuates, Descends
<1>5. ExpiryAttenuates(c) <=> ExpiryAttenuates(d)
  BY <1>1 DEF ExpiryAttenuates
<1>6. Linked(c) <=> Linked(d)
  <2>1. ASSUME NEW j \in 2..Len(c)
        PROVE  j \in 1..Len(c) /\ j - 1 \in 1..Len(c)
    OBVIOUS
  <2>. QED BY <1>1, <2>1 DEF Linked, TextMembers
<1>. QED BY <1>1, <1>2, <1>3, <1>4, <1>5, <1>6 DEF Attenuates

\* Adding or dropping null members, which no signature notices, changes no
\* verdict, for chains of any length.
THEOREM NullsDecideNothing == StructureSpec => []NullMembersDoNotMatter
<1> DEFINE erased == [i \in 1..Len(chain) |-> without_nulls(chain[i])]
<1>1. ASSUME DecisionInv, pc = "done"
      PROVE  verdict = Accepted <=> Attenuates(erased)
  <2>1. /\ verdict # Pending /\ Len(chain) \in Nat
        /\ \A i \in 1..Len(chain) : chain[i] \in Links
    BY <1>1, ChainFacts DEF DecisionInv, IInv, TypeOK, Control
  <2>2. verdict = Accepted <=> Attenuates(chain)
    BY <1>1, <2>1 DEF DecisionInv, Decided
  <2>3. /\ Len(erased) = Len(chain) /\ erased \in Seq({without_nulls(link) : link \in Links})
        /\ \A i \in 1..Len(chain) : erased[i] = without_nulls(chain[i])
    BY <2>1
  <2>4. \A i \in 1..Len(chain) : SameReading(erased[i], chain[i])
    BY <2>1, <2>3, NullFreeReadsSame
  <2> HIDE DEF erased
  <2>5. erased # << >> <=> chain # << >>
    BY <2>1, <2>3, ChainFacts DEF DecisionInv, IInv, TypeOK
  <2>6. (\A i \in 1..Len(chain) : WellTyped(erased[i]))
           <=> \A i \in 1..Len(chain) : WellTyped(chain[i])
    BY <2>4 DEF SameReading, WellTyped
  <2>7. CASE chain = << >> \/ \E i \in 1..Len(chain) : ~WellTyped(chain[i])
    BY <2>2, <2>3, <2>5, <2>6, <2>7 DEF Attenuates
  <2>8. CASE chain # << >> /\ \A i \in 1..Len(chain) : WellTyped(chain[i])
    <3>1. Attenuates(erased) <=> Attenuates(chain)
      BY <2>1, <2>3, <2>4, <2>5, <2>6, <2>8, SameReadingsAttenuateAlike
    <3>. QED BY <2>2, <3>1
  <2>. QED BY <2>7, <2>8
<1>2. DecisionInv => NullMembersDoNotMatter
  BY <1>1 DEF NullMembersDoNotMatter
<1>. QED BY <1>2, DecisionInvariance, PTL
=============================================================================
