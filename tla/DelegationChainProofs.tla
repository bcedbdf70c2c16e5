------------------------ MODULE DelegationChainProofs ------------------------
(***************************************************************************)
(* Proofs about DelegationChain, for chains of every length and any        *)
(* members.  One inductive invariant, IInv, carries all of them: the       *)
(* verdict says nothing of the links already walked, so the invariant has  *)
(* to remember that the running ceiling is exact over them                 *)
(* (EffectiveCeilings), that they narrow one another pairwise however far  *)
(* apart (NarrowedSoFar), and that their positions count up from a         *)
(* non-negative root and stay within every depth ceiling (Positioned).     *)
(***************************************************************************)
EXTENDS DelegationChain, TLAPS

\* Members that pass the gate are read as values: the checked extractions of
\* delegation.rs return no error on them.
LEMMA DecodedTypes ==
    ASSUME NEW link \in Links, WellTyped(link)
    PROVE  /\ spend_limit_of(link) \in Int \cup {None}
           /\ stated_unit(link) \in Text
           /\ \A key \in DepthMembers : depth_of(link, key) \in Int \cup {None}
           /\ instant_of(link, "notBefore") \in Int \cup {None, Err}
<1>1. link # NotObject
  BY DEF WellTyped
<1>2. /\ \A key \in TextMembers : link[key] \in TextValue
      /\ \A key \in DepthMembers : link[key] \in NumberValue
      /\ link.spendLimit \in NumberValue
  BY <1>1, LinkAssumption
<1>3. spend_limit_of(link) \in Int \cup {None}
  <2>1. spend_limit_of(link) # Err BY DEF WellTyped
  <2>. QED
  BY <1>2, <2>1, ReadingAssumption, ShapeAssumption DEF spend_limit_of, NumberValue
<1>4. \A key \in DepthMembers : depth_of(link, key) \in Int \cup {None}
  <2> SUFFICES ASSUME NEW key \in DepthMembers PROVE depth_of(link, key) \in Int \cup {None}
    OBVIOUS
  <2>1. depth_of(link, key) # Err BY DEF WellTyped
  <2>2. I64 \subseteq Int BY IntegerAssumption DEF I64
  <2>3. AsI64 \in [Number -> I64 \cup {None}] /\ NegativeZeros \subseteq Number
    BY ReadingAssumption
  <2>4. CASE link[key] \in {Absent, Null, Malformed}
    BY <2>1, <2>3, <2>4, ShapeAssumption DEF depth_of
  <2>5. CASE link[key] \in Number
    <3>1. link[key] \notin {Absent, Null, Malformed}
      BY <2>5, ShapeAssumption
    <3>2. AsI64[link[key]] \in Int \cup {None}
      BY <2>2, <2>3, <2>5
    <3>. QED BY <2>1, <2>3, <2>5, <3>1, <3>2 DEF depth_of
  <2>. QED BY <1>2, <2>4, <2>5 DEF NumberValue
<1>5. \A key \in TextMembers : text_of(link, key) \in Text
  BY <1>2, ShapeAssumption DEF text_of, TextValue, WellTyped
<1>6. stated_unit(link) \in Text
  BY <1>5, <1>3, ShapeAssumption, OptionAssumption DEF stated_unit, TextMembers, TextValue
<1>7. instant_of(link, "notBefore") \in Int \cup {None, Err}
  BY <1>5, ReadingAssumption DEF instant_of, parse_ms, TextMembers
<1> QED BY <1>3, <1>4, <1>6, <1>7

\* The places, in the order of the walk, of the checks cited below.
LEMMA HopRulesListed ==
    /\ DOMAIN HopRules = 1..13
    /\ HopRules[2] = "SpendUnitChanged" /\ HopRules[3] = "SpendLimitWidening"
    /\ HopRules[4] = "DepthLimitWidening"
    /\ HopRules[5] = "NotBeforeUnparseable" /\ HopRules[6] = "ActivationWidening"
    /\ HopRules[7] = "DepthNotMonotonic" /\ HopRules[9] = "DepthLimitExceeded"
BY DEF HopRules, NarrowRules

\* The same for the checks of the root.
LEMMA SeedRulesListed ==
    /\ DOMAIN SeedRules = 1..7
    /\ SeedRules[4] = "NotBeforeUnparseable"
    /\ SeedRules[6] = "DepthBelowZero" /\ SeedRules[7] = "DepthLimitExceeded"
BY DEF SeedRules, NarrowRules

\* The same for the type gate.
LEMMA GateRulesListed ==
    /\ DOMAIN GateRules = 1..5
    /\ GateRules[1] = "NotAnObject" /\ GateRules[2] = "ScopeElementNotAString"
    /\ GateRules[3] = "DepthNotAnInteger"
    /\ GateRules[4] = "SpendLimitNotANumber" /\ GateRules[5] = "MemberNotAString"
BY DEF GateRules

NarrowPasses(b, link) ==
    /\ ~FailsNarrow("SpendUnitChanged", b, link)
    /\ ~FailsNarrow("SpendLimitWidening", b, link)
    /\ ~FailsNarrow("DepthLimitWidening", b, link)
    /\ ~FailsNarrow("NotBeforeUnparseable", b, link)
    /\ ~FailsNarrow("ActivationWidening", b, link)

\* A link the gate lets through has members of the right types.
LEMMA GatePasses ==
    ASSUME NEW link, \A i \in DOMAIN GateRules : ~FailsGate(GateRules[i], link)
    PROVE  WellTyped(link)
<1>1. /\ ~FailsGate("NotAnObject", link) /\ ~FailsGate("ScopeElementNotAString", link)
      /\ ~FailsGate("DepthNotAnInteger", link)
      /\ ~FailsGate("SpendLimitNotANumber", link) /\ ~FailsGate("MemberNotAString", link)
  BY GateRulesListed
<1>. QED BY <1>1 DEF FailsGate, WellTyped

\* What a link that passes every check of the walk does not fail.
LEMMA HopPasses ==
    ASSUME NEW b, NEW p, NEW c,
           \A i \in DOMAIN HopRules : ~FailsHop(HopRules[i], b, p, c)
    PROVE  /\ NarrowPasses(b, c)
           /\ NextPosition(p, c)
           /\ ~Exceeds(position(c), narrow(b, c).max_depth)
<1>1. /\ ~FailsHop("SpendUnitChanged", b, p, c)
      /\ ~FailsHop("SpendLimitWidening", b, p, c)
      /\ ~FailsHop("DepthLimitWidening", b, p, c)
      /\ ~FailsHop("NotBeforeUnparseable", b, p, c)
      /\ ~FailsHop("ActivationWidening", b, p, c)
      /\ ~FailsHop("DepthNotMonotonic", b, p, c)
      /\ ~FailsHop("DepthLimitExceeded", b, p, c)
  BY HopRulesListed
<1>2. NarrowPasses(b, c)
  BY <1>1 DEF NarrowPasses, FailsHop
<1>3. NextPosition(p, c) /\ ~Exceeds(position(c), narrow(b, c).max_depth)
  BY <1>1 DEF FailsHop
<1>. QED BY <1>2, <1>3

\* What a root that passes every check does not fail.
LEMMA SeedPasses ==
    ASSUME NEW root, \A i \in DOMAIN SeedRules : ~FailsSeed(SeedRules[i], root)
    PROVE  /\ not_before_of(root) # Err
           /\ ~BelowFloor(root)
           /\ ~Exceeds(position(root), narrow(Unbounded, root).max_depth)
<1>1. /\ ~FailsSeed("NotBeforeUnparseable", root)
      /\ ~FailsSeed("DepthBelowZero", root)
      /\ ~FailsSeed("DepthLimitExceeded", root)
  BY SeedRulesListed
<1>. QED BY <1>1 DEF FailsSeed, FailsNarrow

\* Against no ceiling at all only an unreadable notBefore is a violation.
LEMMA RootNarrows ==
    ASSUME NEW root, not_before_of(root) # Err
    PROVE  NarrowPasses(Unbounded, root)
BY DEF NarrowPasses, FailsNarrow, Unbounded, Exceeds

\* Tightening yields a limit or None.
LEMMA TightenType ==
    ASSUME NEW x \in Int \cup {None}, NEW s \in Int \cup {None}
    PROVE  Tighten(x, s) \in Int \cup {None}
BY DEF Tighten

\* Tightening by s is the minimum over one more stated value.
LEMMA TightenLeast ==
    ASSUME NEW x \in Int \cup {None}, NEW s \in Int \cup {None},
           NEW S \in SUBSET Int, IsLeast(x, S)
    PROVE  IsLeast(Tighten(x, s), S \cup ({s} \ {None}))
BY OptionAssumption DEF Tighten, IsLeast

\* An activation floor that is not exceeded is the maximum over one more.
LEMMA LaterGreatest ==
    ASSUME NEW x \in Int \cup {None}, NEW s \in Int \cup {None},
           NEW S \in SUBSET Int, IsGreatest(x, S), ~Exceeds(x, s)
    PROVE  IsGreatest(IF s = None THEN x ELSE s, S \cup ({s} \ {None}))
BY OptionAssumption DEF IsGreatest, Exceeds

\* EffectiveBound::narrow keeps the ceiling well typed.
LEMMA NarrowType ==
    ASSUME NEW b \in Bounds, NEW link \in Links, WellTyped(link),
           not_before_of(link) # Err
    PROVE  narrow(b, link) \in Bounds
<1>1. /\ spend_limit_of(link) \in Int \cup {None}
      /\ stated_unit(link) \in Text
      /\ max_depth_of(link) \in Int \cup {None}
      /\ not_before_of(link) \in Int \cup {None}
  BY DecodedTypes DEF max_depth_of, not_before_of, DepthMembers
<1>2. /\ b.spend_limit \in Int \cup {None} /\ b.spend_unit \in Text
      /\ b.max_depth \in Int \cup {None} /\ b.not_before \in Int \cup {None}
  BY DEF Bounds
<1>3. /\ Tighten(b.spend_limit, spend_limit_of(link)) \in Int \cup {None}
      /\ Tighten(b.max_depth, max_depth_of(link)) \in Int \cup {None}
  BY <1>1, <1>2, TightenType
<1>. QED BY <1>1, <1>2, <1>3 DEF narrow, Bounds

\* A stated limit within the ceiling is within whatever the ceiling came from.
LEMMA WithinTighter ==
    ASSUME NEW x \in Int \cup {None}, NEW y \in Int \cup {None},
           NEW z \in Int \cup {None},
           z # None => y # None /\ y <= z, ~Exceeds(x, y)
    PROVE  ~Exceeds(x, z)
<1> SUFFICES ASSUME Exceeds(x, z) PROVE FALSE
  OBVIOUS
<1>1. x \in Int /\ z \in Int /\ x > z
  BY DEF Exceeds
<1>2. z # None /\ x # None /\ x # Err /\ z # Err
  BY DEF Exceeds
<1>3. y \in Int /\ y <= z /\ y # Err
  BY <1>2, OptionAssumption
<1>4. x > y
  BY <1>1, <1>3
<1>. QED BY <1>2, <1>3, <1>4, OptionAssumption DEF Exceeds

\* The same for the activation floor.
LEMMA WithinLater ==
    ASSUME NEW x \in Int \cup {None}, NEW y \in Int \cup {None},
           NEW z \in Int \cup {None},
           z # None => y # None /\ y >= z, ~Exceeds(y, x)
    PROVE  ~Exceeds(z, x)
<1> SUFFICES ASSUME Exceeds(z, x) PROVE FALSE
  OBVIOUS
<1>1. x \in Int /\ z \in Int /\ z > x
  BY DEF Exceeds
<1>2. z # None /\ x # None /\ x # Err /\ z # Err
  BY DEF Exceeds
<1>3. y \in Int /\ y >= z /\ y # Err
  BY <1>2, OptionAssumption
<1>4. y > x
  BY <1>1, <1>3
<1>. QED BY <1>2, <1>3, <1>4, OptionAssumption DEF Exceeds

\* The least of a set is at most each of its members.
LEMMA LeastOf ==
    ASSUME NEW S, NEW x, IsLeast(x, S), NEW s \in S
    PROVE  x \in S /\ x <= s
BY DEF IsLeast

\* The greatest of a set is at least each of its members.
LEMMA GreatestOf ==
    ASSUME NEW S, NEW x, IsGreatest(x, S), NEW s \in S
    PROVE  x \in S /\ x >= s
BY DEF IsGreatest

\* What well-typed links state are integers.
LEMMA StatedTypes ==
    ASSUME NEW c, NEW W, \A i \in W : c[i] \in Links /\ WellTyped(c[i]),
           \A i \in W : not_before_of(c[i]) # Err
    PROVE  /\ SpendLimits(c, W) \in SUBSET Int
           /\ MaxDepths(c, W) \in SUBSET Int
           /\ NotBefores(c, W) \in SUBSET Int
BY DecodedTypes DEF SpendLimits, MaxDepths, NotBefores, max_depth_of, not_before_of, DepthMembers

\* If the ceiling is that of the links walked, narrowing by the next link
\* makes it the ceiling of those and the next.
LEMMA NarrowKeepsCeiling ==
    ASSUME NEW c, NEW W, NEW k, NEW b \in Bounds,
           \A i \in W \cup {k} : /\ c[i] \in Links /\ WellTyped(c[i])
                                 /\ not_before_of(c[i]) # Err,
           IsCeilingOf(b, c, W),
           NarrowPasses(b, c[k])
    PROVE  IsCeilingOf(narrow(b, c[k]), c, W \cup {k})
<1> DEFINE n == narrow(b, c[k])
<1>1. /\ spend_limit_of(c[k]) \in Int \cup {None}
      /\ stated_unit(c[k]) \in Text
      /\ max_depth_of(c[k]) \in Int \cup {None}
      /\ not_before_of(c[k]) \in Int \cup {None}
  BY DecodedTypes DEF max_depth_of, not_before_of, DepthMembers
<1>2. /\ b.spend_limit \in Int \cup {None} /\ b.spend_unit \in Text
      /\ b.max_depth \in Int \cup {None} /\ b.not_before \in Int \cup {None}
  BY DEF Bounds
<1>3. /\ SpendLimits(c, W) \in SUBSET Int
      /\ MaxDepths(c, W) \in SUBSET Int
      /\ NotBefores(c, W) \in SUBSET Int
  BY StatedTypes
<1>4. /\ n.spend_limit = Tighten(b.spend_limit, spend_limit_of(c[k]))
      /\ n.max_depth = Tighten(b.max_depth, max_depth_of(c[k]))
      /\ n.not_before = IF not_before_of(c[k]) = None THEN b.not_before
                        ELSE not_before_of(c[k])
      /\ n.spend_unit = IF b.spend_unit = "" THEN stated_unit(c[k]) ELSE b.spend_unit
  BY DEF narrow
<1>5. IsLeast(n.spend_limit, SpendLimits(c, W \cup {k}))
  <2>1. IsLeast(b.spend_limit, SpendLimits(c, W))
    BY DEF IsCeilingOf
  <2>. HIDE DEF n
  <2>2. IsLeast(n.spend_limit, SpendLimits(c, W) \cup ({spend_limit_of(c[k])} \ {None}))
    <3>1. IsLeast(Tighten(b.spend_limit, spend_limit_of(c[k])),
                  SpendLimits(c, W) \cup ({spend_limit_of(c[k])} \ {None}))
      BY <1>1, <1>2, <1>3, <2>1, TightenLeast
    <3>. QED BY <3>1, <1>4
  <2>3. SpendLimits(c, W \cup {k}) = SpendLimits(c, W) \cup ({spend_limit_of(c[k])} \ {None})
    BY DEF SpendLimits
  <2>. QED BY <2>2, <2>3
<1>6. IsLeast(n.max_depth, MaxDepths(c, W \cup {k}))
  <2>1. IsLeast(b.max_depth, MaxDepths(c, W))
    BY DEF IsCeilingOf
  <2>. HIDE DEF n
  <2>2. IsLeast(n.max_depth, MaxDepths(c, W) \cup ({max_depth_of(c[k])} \ {None}))
    <3>1. IsLeast(Tighten(b.max_depth, max_depth_of(c[k])),
                  MaxDepths(c, W) \cup ({max_depth_of(c[k])} \ {None}))
      BY <1>1, <1>2, <1>3, <2>1, TightenLeast
    <3>. QED BY <3>1, <1>4
  <2>3. MaxDepths(c, W \cup {k}) = MaxDepths(c, W) \cup ({max_depth_of(c[k])} \ {None})
    BY DEF MaxDepths
  <2>. QED BY <2>2, <2>3
<1>7. IsGreatest(n.not_before, NotBefores(c, W \cup {k}))
  <2>1. IsGreatest(b.not_before, NotBefores(c, W))
    BY DEF IsCeilingOf
  <2>2. ~Exceeds(b.not_before, not_before_of(c[k]))
    BY DEF NarrowPasses, FailsNarrow
  <2>. HIDE DEF n
  <2>3. IsGreatest(n.not_before, NotBefores(c, W) \cup ({not_before_of(c[k])} \ {None}))
    <3>1. IsGreatest(IF not_before_of(c[k]) = None THEN b.not_before
                     ELSE not_before_of(c[k]),
                     NotBefores(c, W) \cup ({not_before_of(c[k])} \ {None}))
      BY <1>1, <1>2, <1>3, <2>1, <2>2, LaterGreatest
    <3>. QED BY <3>1, <1>4
  <2>4. NotBefores(c, W \cup {k}) = NotBefores(c, W) \cup ({not_before_of(c[k])} \ {None})
    BY DEF NotBefores
  <2>. QED BY <2>3, <2>4
<1>8. SpendUnits(c, W \cup {k}) = {n.spend_unit} \ {""}
  <2>1. SpendUnits(c, W) = {b.spend_unit} \ {""}
    BY DEF IsCeilingOf
  <2>2. "" \in {b.spend_unit, stated_unit(c[k])} \/ stated_unit(c[k]) = b.spend_unit
    BY DEF NarrowPasses, FailsNarrow
  <2>. HIDE DEF n
  <2>3. ({b.spend_unit} \ {""}) \cup ({stated_unit(c[k])} \ {""}) = {n.spend_unit} \ {""}
    BY <2>2, <1>4
  <2>4. SpendUnits(c, W \cup {k}) = SpendUnits(c, W) \cup ({stated_unit(c[k])} \ {""})
    BY DEF SpendUnits
  <2>. QED BY <2>1, <2>3, <2>4
<1>. QED BY <1>5, <1>6, <1>7, <1>8 DEF IsCeilingOf

\* A link that narrows the ceiling of W states no bound wider than any link
\* of W, however many in between state nothing.
LEMMA NarrowNoWider ==
    ASSUME NEW c, NEW W, NEW k, NEW b \in Bounds,
           \A i \in W \cup {k} : /\ c[i] \in Links /\ WellTyped(c[i])
                                 /\ not_before_of(c[i]) # Err,
           IsCeilingOf(b, c, W),
           NarrowPasses(b, c[k]),
           NEW i \in W
    PROVE  NoWider(c[i], c[k])
<1>1. \A j \in {i, k} :
        /\ spend_limit_of(c[j]) \in Int \cup {None}
        /\ max_depth_of(c[j]) \in Int \cup {None}
        /\ not_before_of(c[j]) \in Int \cup {None}
  BY DecodedTypes DEF max_depth_of, not_before_of, DepthMembers
<1>2. /\ b.spend_limit \in Int \cup {None} /\ b.spend_unit \in Text
      /\ b.max_depth \in Int \cup {None} /\ b.not_before \in Int \cup {None}
  BY DEF Bounds
<1>3. ~Exceeds(spend_limit_of(c[k]), spend_limit_of(c[i]))
  <2>1. ASSUME spend_limit_of(c[i]) # None
        PROVE  b.spend_limit # None /\ b.spend_limit <= spend_limit_of(c[i])
    <3>1. IsLeast(b.spend_limit, SpendLimits(c, W))
      BY DEF IsCeilingOf
    <3>2. spend_limit_of(c[i]) \in SpendLimits(c, W) /\ None \notin SpendLimits(c, W)
      BY <2>1 DEF SpendLimits
    <3>. QED BY <3>1, <3>2, LeastOf
  <2>2. ~Exceeds(spend_limit_of(c[k]), b.spend_limit)
    BY DEF NarrowPasses, FailsNarrow
  <2>. QED BY <1>1, <1>2, <2>1, <2>2, WithinTighter
<1>4. ~Exceeds(max_depth_of(c[k]), max_depth_of(c[i]))
  <2>1. ASSUME max_depth_of(c[i]) # None
        PROVE  b.max_depth # None /\ b.max_depth <= max_depth_of(c[i])
    <3>1. IsLeast(b.max_depth, MaxDepths(c, W))
      BY DEF IsCeilingOf
    <3>2. max_depth_of(c[i]) \in MaxDepths(c, W) /\ None \notin MaxDepths(c, W)
      BY <2>1 DEF MaxDepths
    <3>. QED BY <3>1, <3>2, LeastOf
  <2>2. ~Exceeds(max_depth_of(c[k]), b.max_depth)
    BY DEF NarrowPasses, FailsNarrow
  <2>. QED BY <1>1, <1>2, <2>1, <2>2, WithinTighter
<1>5. ~Exceeds(not_before_of(c[i]), not_before_of(c[k]))
  <2>1. ASSUME not_before_of(c[i]) # None
        PROVE  b.not_before # None /\ b.not_before >= not_before_of(c[i])
    <3>1. IsGreatest(b.not_before, NotBefores(c, W))
      BY DEF IsCeilingOf
    <3>2. not_before_of(c[i]) \in NotBefores(c, W) /\ None \notin NotBefores(c, W)
      BY <2>1 DEF NotBefores
    <3>. QED BY <3>1, <3>2, GreatestOf
  <2>2. ~Exceeds(b.not_before, not_before_of(c[k]))
    BY DEF NarrowPasses, FailsNarrow
  <2>. QED BY <1>1, <1>2, <2>1, <2>2, WithinLater
<1>6. "" \notin {stated_unit(c[i]), stated_unit(c[k])}
         => stated_unit(c[i]) = stated_unit(c[k])
  <2>1. stated_unit(c[i]) # "" => b.spend_unit = stated_unit(c[i])
    BY DEF IsCeilingOf, SpendUnits
  <2>. QED BY <2>1 DEF NarrowPasses, FailsNarrow
<1>. QED BY <1>3, <1>4, <1>5, <1>6 DEF NoWider

----------------------------------------------------------------------------
(* The inductive invariant *)

\* Which combinations of the control variables occur.
Control ==
    /\ pc = "done" <=> verdict # Pending
    /\ pc = "gate" /\ chain # << >> => hop <= Len(chain)
    /\ pc \in {"gate", "seed"} => bound = Unbounded
    /\ pc \in {"seed", "walk"} \/ verdict = Accepted => chain # << >>
    /\ pc = "walk" \/ verdict = Accepted => hop >= 2
    /\ verdict = Accepted => hop = Len(chain) + 1

\* The links that have been through the gate.
Gated ==
    /\ pc = "gate" => \A i \in 1..(hop - 1) : WellTyped(chain[i])
    /\ GateMakesReadingTotal

\* Every link walked was held to all of its ancestors, not to its parent only.
NarrowedSoFar ==
    \A j \in Walked : /\ not_before_of(chain[j]) # Err
                      /\ \A i \in 1..(j - 1) : NoWider(chain[i], chain[j])

\* The position of the last link walked counts the links above it, and is
\* within the ceiling.
Positioned ==
    Walked # {} =>
        /\ position(chain[hop - 1]) \in Int
        /\ position(chain[hop - 1]) >= hop - 2
        /\ bound.max_depth # None => position(chain[hop - 1]) <= bound.max_depth

IInv ==
    /\ TypeOK
    /\ Control
    /\ Gated
    /\ EffectiveCeilings
    /\ NarrowedSoFar
    /\ Positioned

\* An argument is a finite sequence of links.
LEMMA ChainFacts ==
    ASSUME TypeOK
    PROVE  /\ Len(chain) \in Nat /\ chain \in Seq(Links)
           /\ \A i \in 1..Len(chain) : chain[i] \in Links
           /\ hop \in Nat \ {0} /\ hop <= Len(chain) + 1
           /\ chain # << >> <=> Len(chain) >= 1
BY LinkAssumption DEF TypeOK, Presentable

\* EffectiveBound::default() is a ceiling, that of no link.
LEMMA UnboundedFacts ==
    /\ Unbounded \in Bounds
    /\ \A c : IsCeilingOf(Unbounded, c, {})
<1>1. Unbounded \in Bounds
  BY ShapeAssumption DEF Unbounded, Bounds
<1>2. ASSUME NEW c PROVE IsCeilingOf(Unbounded, c, {})
  <2>1. /\ SpendLimits(c, {}) = {} /\ MaxDepths(c, {}) = {}
        /\ NotBefores(c, {}) = {} /\ SpendUnits(c, {}) = {}
    BY DEF SpendLimits, MaxDepths, NotBefores, SpendUnits
  <2>. QED BY <2>1 DEF IsCeilingOf, IsLeast, IsGreatest, Unbounded
<1>. QED BY <1>1, <1>2

\* The invariant holds when the call starts.
LEMMA InitInv == StructureInit => IInv
<1> SUFFICES ASSUME StructureInit PROVE IInv
  OBVIOUS
<1>1. TypeOK
  <2>1. chain \in Seq(Links) /\ Len(chain) \in Nat
    BY LinkAssumption DEF StructureInit, Presentable
  <2>. QED BY <2>1, UnboundedFacts DEF StructureInit, TypeOK, Pending
<1>2. Len(chain) \in Nat /\ (chain # << >> <=> Len(chain) >= 1)
  BY <1>1, ChainFacts
<1>3. Walked = {} /\ verdict # Accepted
  BY DEF StructureInit, Walked, Pending, Accepted
<1>4. Control
  BY <1>2, <1>3 DEF Control, StructureInit
<1>5. Gated
  BY <1>3 DEF Gated, GateMakesReadingTotal, StructureInit
<1>. QED BY <1>1, <1>3, <1>4, <1>5 DEF IInv, EffectiveCeilings, NarrowedSoFar, Positioned

\* A refusal leaves nothing to show but its type.
LEMMA RefuseInv ==
    ASSUME IInv, pc # "done", NEW kind \in StructureErrors, NEW index \in Nat \ {0},
           Refuse(kind, index)
    PROVE  IInv'
<1>1. /\ verdict' = [kind |-> kind, hop |-> index - 1]
      /\ pc' = "done" /\ chain' = chain /\ hop' = hop /\ bound' = bound
  BY DEF Refuse
<1>2. kind \notin {"Ok", "Pending"}
  BY DEF StructureErrors
<1>3. verdict' # Accepted /\ verdict' # Pending
  BY <1>1, <1>2 DEF Accepted, Pending
<1>4. TypeOK'
  <2>1. verdict' \in [kind : StructureErrors \cup {"Pending", "Ok"}, hop : Nat]
    BY <1>1
  <2>. QED BY <1>1, <2>1 DEF IInv, TypeOK
<1>5. Walked' = {}
  BY <1>1, <1>3 DEF Walked
<1>6. Control'
  BY <1>1, <1>3 DEF Control
<1>7. Gated'
  BY <1>1, <1>3 DEF Gated, GateMakesReadingTotal
<1>. QED
  BY <1>4, <1>5, <1>6, <1>7 DEF IInv, EffectiveCeilings, NarrowedSoFar, Positioned

\* The ceiling and the order of bounds survive one more link k = n + 1.
LEMMA ExtendWalk ==
    ASSUME TypeOK, NEW n \in Nat, n + 1 <= Len(chain),
           \A i \in 1..Len(chain) : WellTyped(chain[i]),
           \A j \in 1..n : /\ not_before_of(chain[j]) # Err
                           /\ \A i \in 1..(j - 1) : NoWider(chain[i], chain[j]),
           IsCeilingOf(bound, chain, 1..n),
           NarrowPasses(bound, chain[n + 1])
    PROVE  /\ narrow(bound, chain[n + 1]) \in Bounds
           /\ IsCeilingOf(narrow(bound, chain[n + 1]), chain, 1..(n + 1))
           /\ \A j \in 1..(n + 1) :
                 /\ not_before_of(chain[j]) # Err
                 /\ \A i \in 1..(j - 1) : NoWider(chain[i], chain[j])
<1>1. bound \in Bounds
  BY DEF TypeOK
<1>2. n + 1 \in 1..Len(chain) /\ \A i \in 1..Len(chain) : chain[i] \in Links
  BY ChainFacts
<1>3. not_before_of(chain[n + 1]) # Err
  BY DEF NarrowPasses, FailsNarrow
<1>4. 1..(n + 1) = (1..n) \cup {n + 1}
  OBVIOUS
<1>5. \A i \in (1..n) \cup {n + 1} : /\ chain[i] \in Links /\ WellTyped(chain[i])
                                     /\ not_before_of(chain[i]) # Err
  <2>1. \A i \in (1..n) \cup {n + 1} : i \in 1..Len(chain)
    BY ChainFacts
  <2>. QED BY <1>2, <1>3, <2>1
<1>6. narrow(bound, chain[n + 1]) \in Bounds
  BY <1>1, <1>2, <1>3, NarrowType
<1>7. IsCeilingOf(narrow(bound, chain[n + 1]), chain, (1..n) \cup {n + 1})
  BY <1>1, <1>5, NarrowKeepsCeiling
<1>8. \A i \in 1..n : NoWider(chain[i], chain[n + 1])
  BY <1>1, <1>5, NarrowNoWider
<1>9. ASSUME NEW j \in 1..(n + 1)
      PROVE  /\ not_before_of(chain[j]) # Err
             /\ \A i \in 1..(j - 1) : NoWider(chain[i], chain[j])
  <2>1. CASE j = n + 1
    <3>1. j - 1 = n
      BY <2>1
    <3>. QED BY <1>3, <1>8, <2>1, <3>1
  <2>2. CASE j \in 1..n
    BY <2>2
  <2>. QED BY <2>1, <2>2
<1>. QED BY <1>4, <1>6, <1>7, <1>9

\* A checked position is an integer.
LEMMA PositionType ==
    ASSUME NEW link \in Links, WellTyped(link)
    PROVE  position(link) \in Int
BY DecodedTypes, OptionAssumption DEF position, DepthMembers

\* A narrowed depth ceiling is at most the one the link states.
LEMMA NarrowedMaxDepth ==
    ASSUME NEW b, NEW link, NEW p \in Int,
           ~Exceeds(p, narrow(b, link).max_depth),
           narrow(b, link) \in Bounds
    PROVE  narrow(b, link).max_depth # None => p <= narrow(b, link).max_depth
<1> SUFFICES ASSUME narrow(b, link).max_depth # None
             PROVE  p <= narrow(b, link).max_depth
  OBVIOUS
<1>1. narrow(b, link).max_depth \in Int
  BY DEF Bounds
<1>. QED BY <1>1, OptionAssumption DEF Exceeds

\* The gate preserves the invariant.
LEMMA GateInv == IInv /\ GateLink => IInv'
<1> SUFFICES ASSUME IInv, GateLink PROVE IInv'
  OBVIOUS
<1>1. /\ pc = "gate" /\ chain # << >>
      /\ chain' = chain /\ bound' = bound /\ verdict' = verdict
      /\ \/ hop < Len(chain) /\ hop' = hop + 1 /\ pc' = "gate"
         \/ ~(hop < Len(chain)) /\ hop' = 1 /\ pc' = "seed"
  BY DEF GateLink
<1>2. TypeOK /\ Control /\ Gated
  BY DEF IInv
<1>3. /\ Len(chain) \in Nat /\ Len(chain) >= 1
      /\ hop \in Nat \ {0} /\ hop <= Len(chain)
  BY <1>1, <1>2, ChainFacts DEF Control
<1>4. WellTyped(chain[hop])
  BY GatePasses DEF GateLink
<1>5. verdict = Pending /\ verdict # Accepted
  BY <1>1, <1>2 DEF Control, Pending, Accepted
<1>6. TypeOK'
  BY <1>1, <1>2, <1>3 DEF TypeOK
<1>7. Walked' = {}
  BY <1>1, <1>5 DEF Walked
<1>8. Control'
  BY <1>1, <1>2, <1>3, <1>5 DEF Control
<1>9. Gated'
  <2>1. \A i \in 1..hop : WellTyped(chain[i])
    BY <1>1, <1>2, <1>3, <1>4 DEF Gated
  <2>2. CASE hop < Len(chain)
    BY <1>1, <1>3, <1>5, <2>1, <2>2 DEF Gated, GateMakesReadingTotal
  <2>3. CASE ~(hop < Len(chain))
    <3>1. hop = Len(chain)
      BY <1>3, <2>3
    <3>. QED BY <1>1, <1>5, <2>1, <2>3, <3>1 DEF Gated, GateMakesReadingTotal
  <2>. QED BY <2>2, <2>3
<1>. QED
  BY <1>6, <1>7, <1>8, <1>9 DEF IInv, EffectiveCeilings, NarrowedSoFar, Positioned

\* Seeding the ceiling from the root preserves the invariant.
LEMMA SeedInv == IInv /\ SeedRoot => IInv'
<1> SUFFICES ASSUME IInv, SeedRoot PROVE IInv'
  OBVIOUS
<1>1. /\ pc = "seed" /\ pc' = "walk" /\ hop' = 2
      /\ chain' = chain /\ verdict' = verdict /\ bound' = narrow(bound, chain[1])
  BY DEF SeedRoot
<1>2. TypeOK /\ Control /\ Gated
  BY DEF IInv
<1>3. /\ chain # << >> /\ Len(chain) \in Nat /\ Len(chain) >= 1
      /\ \A i \in 1..Len(chain) : chain[i] \in Links /\ WellTyped(chain[i])
      /\ bound = Unbounded /\ verdict = Pending
  BY <1>1, <1>2, ChainFacts DEF Control, Gated, GateMakesReadingTotal
<1>4. verdict' # Accepted
  BY <1>1, <1>3 DEF Pending, Accepted
<1>5. /\ not_before_of(chain[1]) # Err /\ ~BelowFloor(chain[1])
      /\ ~Exceeds(position(chain[1]), narrow(bound, chain[1]).max_depth)
  BY <1>3, SeedPasses DEF SeedRoot
<1>6. NarrowPasses(bound, chain[1])
  BY <1>3, <1>5, RootNarrows
<1>7. 1..0 = {} /\ IsCeilingOf(bound, chain, 1..0)
  BY <1>3, UnboundedFacts
<1>8. /\ narrow(bound, chain[1]) \in Bounds
      /\ IsCeilingOf(narrow(bound, chain[1]), chain, 1..1)
      /\ \A j \in 1..1 : /\ not_before_of(chain[j]) # Err
                         /\ \A i \in 1..(j - 1) : NoWider(chain[i], chain[j])
  <2>1. 0 \in Nat /\ 0 + 1 = 1 /\ 0 + 1 <= Len(chain)
    BY <1>3
  <2>. QED BY <1>2, <1>3, <1>6, <1>7, <2>1, ExtendWalk
<1>9. Walked' = 1..1
  BY <1>1 DEF Walked
<1>10. TypeOK'
  BY <1>1, <1>2, <1>3, <1>8 DEF TypeOK
<1>11. Control'
  BY <1>1, <1>3, <1>4 DEF Control, Pending
<1>12. Gated'
  BY <1>1, <1>3 DEF Gated, GateMakesReadingTotal
<1>13. EffectiveCeilings' /\ NarrowedSoFar'
  BY <1>1, <1>8, <1>9 DEF EffectiveCeilings, NarrowedSoFar
<1>14. Positioned'
  <2>1. position(chain[1]) \in Int
    BY <1>3, PositionType
  <2>2. position(chain[1]) >= 0
    <3>1. \A key \in DepthMembers : depth_of(chain[1], key) \in Int \cup {None}
      BY <1>3, DecodedTypes
    <3>2. "currentDepth" \in DepthMembers
      BY DEF DepthMembers
    <3>3. CASE depth_of(chain[1], "currentDepth") = None
      BY <3>3 DEF position
    <3>4. CASE depth_of(chain[1], "currentDepth") \in Int
      <4>1. depth_of(chain[1], "currentDepth") \notin {None, Err}
        BY <3>4, OptionAssumption
      <4>2. ~(depth_of(chain[1], "currentDepth") < 0)
        BY <1>5, <3>2, <4>1 DEF BelowFloor
      <4>. QED BY <3>4, <4>1, <4>2 DEF position
    <3>. QED BY <3>1, <3>2, <3>3, <3>4
  <2>3. narrow(bound, chain[1]).max_depth # None =>
            position(chain[1]) <= narrow(bound, chain[1]).max_depth
    BY <1>5, <1>8, <2>1, NarrowedMaxDepth
  <2>. QED BY <1>1, <2>1, <2>2, <2>3 DEF Positioned
<1>. QED BY <1>10, <1>11, <1>12, <1>13, <1>14 DEF IInv

\* One hop of the walk preserves the invariant.
LEMMA WalkInv == IInv /\ WalkHop => IInv'
<1> SUFFICES ASSUME IInv, WalkHop PROVE IInv'
  OBVIOUS
<1>1. /\ pc = "walk" /\ pc' = "walk" /\ hop' = hop + 1 /\ hop <= Len(chain)
      /\ chain' = chain /\ verdict' = verdict /\ bound' = narrow(bound, chain[hop])
  BY DEF WalkHop
<1>2. TypeOK /\ Control /\ Gated /\ EffectiveCeilings /\ NarrowedSoFar /\ Positioned
  BY DEF IInv
<1>3. /\ chain # << >> /\ Len(chain) \in Nat /\ hop \in Nat /\ hop >= 2
      /\ \A i \in 1..Len(chain) : chain[i] \in Links /\ WellTyped(chain[i])
      /\ verdict = Pending
  BY <1>1, <1>2, ChainFacts DEF Control, Gated, GateMakesReadingTotal
<1>4. verdict' # Accepted
  BY <1>1, <1>3 DEF Pending, Accepted
<1>5. /\ NarrowPasses(bound, chain[hop])
      /\ NextPosition(chain[hop - 1], chain[hop])
      /\ ~Exceeds(position(chain[hop]), narrow(bound, chain[hop]).max_depth)
  BY HopPasses DEF WalkHop
<1>6. Walked = 1..(hop - 1) /\ Walked # {}
  <2>1. 1 \in 1..(hop - 1)
    BY <1>3
  <2>. QED BY <1>1, <2>1 DEF Walked
<1>7. /\ narrow(bound, chain[hop]) \in Bounds
      /\ IsCeilingOf(narrow(bound, chain[hop]), chain, 1..hop)
      /\ \A j \in 1..hop : /\ not_before_of(chain[j]) # Err
                           /\ \A i \in 1..(j - 1) : NoWider(chain[i], chain[j])
  <2>1. hop - 1 \in Nat /\ (hop - 1) + 1 = hop
    BY <1>3
  <2>2. IsCeilingOf(bound, chain, 1..(hop - 1))
    BY <1>2, <1>6 DEF EffectiveCeilings
  <2>3. \A j \in 1..(hop - 1) :
           /\ not_before_of(chain[j]) # Err
           /\ \A i \in 1..(j - 1) : NoWider(chain[i], chain[j])
    BY <1>2, <1>6 DEF NarrowedSoFar
  <2>4. ASSUME NEW n \in Nat, n = hop - 1
        PROVE  /\ narrow(bound, chain[n + 1]) \in Bounds
               /\ IsCeilingOf(narrow(bound, chain[n + 1]), chain, 1..(n + 1))
               /\ \A j \in 1..(n + 1) :
                     /\ not_before_of(chain[j]) # Err
                     /\ \A i \in 1..(j - 1) : NoWider(chain[i], chain[j])
    <3>1. n + 1 = hop /\ n + 1 <= Len(chain)
      BY <1>1, <2>1, <2>4
    <3>2. NarrowPasses(bound, chain[n + 1]) /\ IsCeilingOf(bound, chain, 1..n)
      BY <1>5, <2>2, <2>4, <3>1
    <3>. QED BY <1>2, <1>3, <2>3, <2>4, <3>1, <3>2, ExtendWalk
  <2>. QED BY <2>1, <2>4
<1>8. hop' - 1 = hop /\ Walked' = 1..hop
  BY <1>1, <1>3 DEF Walked
<1>9. TypeOK'
  BY <1>1, <1>2, <1>3, <1>7 DEF TypeOK
<1>10. Control'
  BY <1>1, <1>3, <1>4 DEF Control, Pending
<1>11. Gated'
  BY <1>1, <1>3 DEF Gated, GateMakesReadingTotal
<1>12. EffectiveCeilings' /\ NarrowedSoFar'
  BY <1>1, <1>7, <1>8 DEF EffectiveCeilings, NarrowedSoFar
<1>13. Positioned'
  <2>1. position(chain[hop]) \in Int
    BY <1>1, <1>3, PositionType
  <2>2. position(chain[hop]) >= hop' - 2
    BY <1>1, <1>2, <1>3, <1>5, <1>6, <2>1 DEF Positioned, NextPosition
  <2>3. narrow(bound, chain[hop]).max_depth # None =>
            position(chain[hop]) <= narrow(bound, chain[hop]).max_depth
    BY <1>5, <1>7, <2>1, NarrowedMaxDepth
  <2>. QED BY <1>1, <1>8, <2>1, <2>2, <2>3 DEF Positioned
<1>. QED BY <1>9, <1>10, <1>11, <1>12, <1>13 DEF IInv

\* Acceptance preserves the invariant.
LEMMA AcceptInv == IInv /\ Accept => IInv'
<1> SUFFICES ASSUME IInv, Accept PROVE IInv'
  OBVIOUS
<1>1. /\ pc = "walk" /\ pc' = "done" /\ hop > Len(chain) /\ verdict' = Accepted
      /\ chain' = chain /\ hop' = hop /\ bound' = bound
  BY DEF Accept
<1>2. TypeOK /\ Control /\ Gated /\ EffectiveCeilings /\ NarrowedSoFar /\ Positioned
  BY DEF IInv
<1>3. hop = Len(chain) + 1 /\ hop >= 2 /\ chain # << >>
  BY <1>1, <1>2, ChainFacts DEF Control
<1>4. Walked' = Walked
  BY <1>1 DEF Walked
<1>5. TypeOK'
  BY <1>1, <1>2 DEF TypeOK, Accepted
<1>6. Control'
  BY <1>1, <1>3 DEF Control, Accepted, Pending
<1>7. Gated'
  BY <1>1, <1>2 DEF Gated, GateMakesReadingTotal
<1>8. EffectiveCeilings' /\ NarrowedSoFar' /\ Positioned'
  BY <1>1, <1>2, <1>4 DEF EffectiveCeilings, NarrowedSoFar, Positioned
<1>. QED BY <1>5, <1>6, <1>7, <1>8 DEF IInv

\* Every refusal preserves the invariant.
LEMMA RefusalInv ==
    IInv /\ (RefuseEmpty \/ RefuseAtGate \/ RefuseRoot \/ RefuseHop) => IInv'
<1> SUFFICES ASSUME IInv, RefuseEmpty \/ RefuseAtGate \/ RefuseRoot \/ RefuseHop
             PROVE  IInv'
  OBVIOUS
<1>1. hop \in Nat \ {0} /\ 1 \in Nat \ {0} /\ Control
  BY ChainFacts DEF IInv
<1>2. CASE RefuseEmpty
  <2>1. "EmptyChain" \in StructureErrors
    BY DEF StructureErrors
  <2>. QED BY <1>1, <1>2, <2>1, RefuseInv DEF RefuseEmpty
<1>3. CASE RefuseAtGate
  <2>1. PICK i \in DOMAIN GateRules : Refuse(GateRules[i], hop)
    BY <1>3 DEF RefuseAtGate
  <2>2. GateRules[i] \in StructureErrors
    BY GateRulesListed DEF StructureErrors
  <2>. QED BY <1>1, <1>3, <2>1, <2>2, RefuseInv DEF RefuseAtGate
<1>4. CASE RefuseRoot
  <2>1. PICK i \in DOMAIN SeedRules : Refuse(SeedRules[i], 1)
    BY <1>4 DEF RefuseRoot
  <2>2. SeedRules[i] \in StructureErrors
    BY DEF SeedRules, NarrowRules, StructureErrors
  <2>. QED BY <1>1, <1>4, <2>1, <2>2, RefuseInv DEF RefuseRoot
<1>5. CASE RefuseHop
  <2>1. PICK i \in DOMAIN HopRules :
           IF HopRules[i] = "ParentExpiryUnparseable"
           THEN Refuse("ExpiryUnparseable", hop - 1) ELSE Refuse(HopRules[i], hop)
    BY <1>5 DEF RefuseHop
  <2>2. HopRules[i] \in StructureErrors \cup {"ParentExpiryUnparseable"}
    BY DEF HopRules, NarrowRules, StructureErrors
  <2>3. pc # "done" /\ hop - 1 \in Nat \ {0}
    BY <1>1, <1>5 DEF RefuseHop, Control
  <2>4. "ExpiryUnparseable" \in StructureErrors
    BY DEF StructureErrors
  <2>5. CASE HopRules[i] = "ParentExpiryUnparseable"
    BY <1>1, <2>1, <2>3, <2>4, <2>5, RefuseInv
  <2>6. CASE HopRules[i] # "ParentExpiryUnparseable"
    BY <1>1, <2>1, <2>2, <2>3, <2>6, RefuseInv
  <2>. QED BY <2>5, <2>6
<1>. QED BY <1>2, <1>3, <1>4, <1>5

\* The invariant depends on the variables of the call only.
LEMMA StutterInv == IInv /\ UNCHANGED structureVars => IInv'
BY DEF IInv, TypeOK, Control, Gated, GateMakesReadingTotal, EffectiveCeilings,
       NarrowedSoFar, Positioned, Walked, structureVars

\* The invariant is one.
LEMMA Invariance == StructureSpec => []IInv
<1>1. IInv /\ [StructureNext]_structureVars => IInv'
  BY GateInv, SeedInv, WalkInv, AcceptInv, RefusalInv, StutterInv DEF StructureNext
<1>. QED BY <1>1, InitInv, PTL DEF StructureSpec

----------------------------------------------------------------------------
(* The results *)

\* Every reachable state is well typed; in particular the ceiling never holds
\* the Err of an unreadable member, whatever the chain presented.
THEOREM TypeCorrect == StructureSpec => []TypeOK
BY Invariance, PTL DEF IInv

\* No checked extraction of the walk can fail: the later error arms of
\* verify_chain_structure are unreachable.
THEOREM GateIsTotal == StructureSpec => []GateMakesReadingTotal
BY Invariance, PTL DEF IInv, Gated

\* The running ceiling is the minimum (maximum, common unit) of what all the
\* links walked state, for chains of every length.
THEOREM CeilingsAreEffective == StructureSpec => []EffectiveCeilings
BY Invariance, PTL DEF IInv

\* At the end of the walk every link is one of the walked.
LEMMA InvNeverWidens == IInv => AcceptedNeverWidens
<1> SUFFICES ASSUME IInv, verdict = Accepted,
                    NEW j \in 1..Len(chain), NEW i \in 1..(j - 1)
             PROVE  NoWider(chain[i], chain[j])
  BY DEF AcceptedNeverWidens
<1>1. hop - 1 = Len(chain)
  BY ChainFacts DEF IInv, Control
<1>2. j \in Walked
  BY <1>1 DEF Walked
<1>. QED BY <1>2 DEF IInv, NarrowedSoFar

\* In an accepted chain of any length no link states a wider spend limit,
\* unit, depth ceiling or activation floor than any of its ancestors.
THEOREM NeverWidens == StructureSpec => []AcceptedNeverWidens
BY InvNeverWidens, Invariance, PTL

\* The last position counts the links and is within every depth ceiling.
LEMMA InvBoundsLength == IInv => DepthCeilingBoundsLength
<1> SUFFICES ASSUME IInv, verdict = Accepted, NEW i \in 1..Len(chain),
                    max_depth_of(chain[i]) # None
             PROVE  Len(chain) <= max_depth_of(chain[i]) + 1
  BY DEF DepthCeilingBoundsLength
<1>1. /\ Len(chain) \in Nat /\ hop = Len(chain) + 1 /\ chain[i] \in Links
      /\ WellTyped(chain[i]) /\ bound \in Bounds
  BY ChainFacts DEF IInv, TypeOK, Control, Gated, GateMakesReadingTotal
<1>2. Walked = 1..Len(chain) /\ i \in Walked
  BY <1>1 DEF Walked
<1>3. max_depth_of(chain[i]) \in MaxDepths(chain, Walked) /\ None \notin MaxDepths(chain, Walked)
  BY <1>2 DEF MaxDepths
<1>4. IsLeast(bound.max_depth, MaxDepths(chain, Walked))
  BY <1>2 DEF IInv, EffectiveCeilings, IsCeilingOf
<1>5. bound.max_depth # None /\ bound.max_depth <= max_depth_of(chain[i])
  BY <1>3, <1>4, LeastOf
<1>6. /\ position(chain[hop - 1]) \in Int /\ position(chain[hop - 1]) >= hop - 2
      /\ position(chain[hop - 1]) <= bound.max_depth
  BY <1>2, <1>5 DEF IInv, Positioned
<1>7. bound.max_depth \in Int /\ max_depth_of(chain[i]) \in Int
  <2>1. bound.max_depth \in Int
    BY <1>1, <1>5 DEF Bounds
  <2>2. max_depth_of(chain[i]) \in Int \cup {None}
    BY <1>1, DecodedTypes DEF max_depth_of, DepthMembers
  <2>. QED BY <2>1, <2>2
<1>8. Len(chain) - 1 <= max_depth_of(chain[i])
  <2>1. hop - 2 = Len(chain) - 1
    BY <1>1
  <2>2. Len(chain) - 1 <= position(chain[hop - 1])
    BY <1>1, <1>6, <2>1
  <2>. QED BY <1>1, <1>5, <1>6, <1>7, <2>2
<1>. QED BY <1>1, <1>7, <1>8

\* A depth ceiling bounds the length of every accepted chain that states it.
THEOREM LengthIsBounded == StructureSpec => []DepthCeilingBoundsLength
BY InvBoundsLength, Invariance, PTL

\* Tightening a limit never raises it and never drops it.
LEMMA TightenOnly ==
    ASSUME NEW x \in Int, NEW s \in Int \cup {None}
    PROVE  Tighten(x, s) # None /\ Tighten(x, s) <= x
BY OptionAssumption DEF Tighten

\* A floor that is not exceeded is only raised.
LEMMA RaiseOnly ==
    ASSUME NEW x \in Int, NEW s \in Int \cup {None}, NEW y,
           ~Exceeds(x, s), y = IF s = None THEN x ELSE s
    PROVE  y # None /\ y >= x
<1>1. CASE s = None
  BY <1>1, OptionAssumption
<1>2. CASE s \in Int
  <2>1. s # None /\ s # Err /\ x # None /\ x # Err
    BY <1>2, OptionAssumption
  <2>2. ~(x > s)
    BY <2>1 DEF Exceeds
  <2>. QED BY <1>2, <2>1, <2>2
<1>. QED BY <1>1, <1>2

\* No step of the verifier loosens the ceiling: a facet once bounded stays
\* bounded, and at least as tightly.
THEOREM CeilingTightens == StructureSpec => CeilingOnlyTightens
<1> DEFINE Tightens ==
        /\ bound.spend_limit # None => bound'.spend_limit # None
                                       /\ bound'.spend_limit <= bound.spend_limit
        /\ bound.max_depth # None => bound'.max_depth # None
                                     /\ bound'.max_depth <= bound.max_depth
        /\ bound.not_before # None => bound'.not_before # None
                                      /\ bound'.not_before >= bound.not_before
        /\ bound.spend_unit # "" => bound'.spend_unit = bound.spend_unit
<1>1. ASSUME IInv, [StructureNext]_structureVars PROVE [Tightens]_structureVars
  <2>1. /\ bound \in Bounds
        /\ bound.spend_limit \in Int \cup {None} /\ bound.max_depth \in Int \cup {None}
        /\ bound.not_before \in Int \cup {None}
    BY <1>1 DEF IInv, TypeOK, Bounds
  <2>2. CASE bound' = bound
    BY <2>1, <2>2
  <2>3. CASE SeedRoot
    <3>1. bound = Unbounded
      BY <1>1, <2>3 DEF SeedRoot, IInv, Control
    <3>. QED BY <3>1 DEF Unbounded
  <2>4. CASE WalkHop
    <3>1. /\ bound' = narrow(bound, chain[hop]) /\ NarrowPasses(bound, chain[hop])
          /\ pc = "walk" /\ hop <= Len(chain)
      BY <2>4, HopPasses DEF WalkHop
    <3>2. chain[hop] \in Links /\ WellTyped(chain[hop])
      BY <1>1, <3>1, ChainFacts DEF IInv, Gated, GateMakesReadingTotal
    <3>3. /\ spend_limit_of(chain[hop]) \in Int \cup {None}
          /\ max_depth_of(chain[hop]) \in Int \cup {None}
          /\ not_before_of(chain[hop]) \in Int \cup {None, Err}
      BY <3>2, DecodedTypes DEF max_depth_of, not_before_of, DepthMembers
    <3>4. /\ bound'.spend_limit = Tighten(bound.spend_limit, spend_limit_of(chain[hop]))
          /\ bound'.max_depth = Tighten(bound.max_depth, max_depth_of(chain[hop]))
          /\ bound'.not_before = IF not_before_of(chain[hop]) = None
                                 THEN bound.not_before ELSE not_before_of(chain[hop])
          /\ bound.spend_unit # "" => bound'.spend_unit = bound.spend_unit
      BY <3>1 DEF narrow
    <3>5. /\ not_before_of(chain[hop]) # Err
          /\ ~Exceeds(bound.not_before, not_before_of(chain[hop]))
      BY <3>1 DEF NarrowPasses, FailsNarrow
    <3>6. bound.spend_limit # None => bound'.spend_limit # None
                                      /\ bound'.spend_limit <= bound.spend_limit
      BY <2>1, <3>3, <3>4, TightenOnly
    <3>7. bound.max_depth # None => bound'.max_depth # None
                                    /\ bound'.max_depth <= bound.max_depth
      BY <2>1, <3>3, <3>4, TightenOnly
    <3>8. bound.not_before # None => bound'.not_before # None
                                     /\ bound'.not_before >= bound.not_before
      <4>. SUFFICES ASSUME bound.not_before # None
                   PROVE  bound'.not_before # None
                          /\ bound'.not_before >= bound.not_before
        OBVIOUS
      <4>. QED BY <2>1, <3>3, <3>4, <3>5, RaiseOnly
    <3>. QED BY <3>4, <3>6, <3>7, <3>8
  <2>. QED
    BY <1>1, <2>2, <2>3, <2>4
    DEF StructureNext, RefuseEmpty, GateLink, RefuseAtGate, RefuseRoot, RefuseHop,
        Accept, Refuse, structureVars
<1>. QED BY <1>1, Invariance, PTL DEF StructureSpec, CeilingOnlyTightens
=============================================================================
