----------------------- MODULE ChainAuthorizationProofs -----------------------
(***************************************************************************)
(* Proofs about ChainAuthorization, for chains of every length, any list   *)
(* of trusted roots and any revocations while the call runs.               *)
(*                                                                         *)
(* RevocationInv says where the answers of the resolver come from: while   *)
(* it is being asked there is one for each link passed, each of them       *)
(* "not_revoked", and since nothing is ever taken off the revoked links,   *)
(* none of those links was revoked when the call began.  The structural    *)
(* call inside is an execution of StructureNext or a stuttering step, so   *)
(* the invariant of DelegationChainProofs holds throughout, and a token is *)
(* only reached once that call has accepted.                               *)
(*                                                                         *)
(* GrantInv adds what each stage has seen to (Progress): the root is       *)
(* trusted once the structure is looked at, and each hop passed is signed  *)
(* and in its window.  That fixes the outcome in both directions: what is  *)
(* reported is what the chain deserves (OutcomeRight).  FullInv adds that  *)
(* every outcome names a hop that is there, and a revoked one is.          *)
(***************************************************************************)
EXTENDS ChainAuthorization, ChainAcceptanceProofs

\* The answers so far, and what they say of the links asked about.
Vouching ==
    /\ answers \in Seq({"revoked", "not_revoked", "no_answer"})
    /\ Len(answers) = at - 1
    /\ \A i \in 1..(at - 1) :
          answers[i] = "not_revoked" /\ chain[i] \notin revokedAtStart

RevocationInv ==
    /\ chain \in Seq(Links)
    /\ at \in Nat \ {0}
    /\ revokedAtStart \subseteq revoked
    /\ stage \in {"time", "root", "structure", "hops"} => answers = << >>
    /\ stage = "revocation" => Vouching /\ at <= Len(chain) + 1
    /\ stage # "returned" => outcome = Pending
    /\ NoTokenForRevokedChain

\* Before the resolver is asked nothing is on record.
LEMMA RevocationInit == Init => RevocationInv
BY LinkAssumption DEF Init, RevocationInv, StructureInit, Presentable, NoTokenForRevokedChain, Returned

\* An outcome that is no token changes nothing the invariant speaks of.
LEMMA RefusalKeepsRevocation ==
    ASSUME RevocationInv, NEW kind, NEW index, kind # "Authorized",
           Conclude(kind, index)
    PROVE  RevocationInv'
BY DEF RevocationInv, Conclude, structureVars, NoTokenForRevokedChain, Returned

\* A step that returns no token, or enters a stage, or revokes something.
LEMMA QuietSteps ==
    ASSUME RevocationInv,
           \/ RefuseTime \/ ParseTime \/ RefuseEmptyCall \/ RefuseRootDelegator
           \/ EnterStructure \/ EnterHops
           \/ PassHop \/ RefuseSignature \/ RefuseInactive
           \/ ReturnIndeterminate \/ EnterRevocation
           \/ Revoke \/ UNCHANGED vars
    PROVE  RevocationInv'
<1>1. CASE RefuseTime
  BY <1>1, RefusalKeepsRevocation DEF RefuseTime, Return
<1>2. CASE RefuseEmptyCall
  BY <1>2, RefusalKeepsRevocation DEF RefuseEmptyCall, Return
<1>3. CASE RefuseRootDelegator
  BY <1>3, RefusalKeepsRevocation DEF RefuseRootDelegator, Return
<1>4. CASE RefuseSignature
  BY <1>4, RefusalKeepsRevocation DEF RefuseSignature, Return
<1>5. CASE RefuseInactive
  BY <1>5, RefusalKeepsRevocation DEF RefuseInactive, Return
<1>6. CASE ReturnIndeterminate
  BY <1>6, RefusalKeepsRevocation DEF ReturnIndeterminate, Return
<1>7. CASE ParseTime \/ EnterStructure \/ EnterHops
  BY <1>7 DEF ParseTime, EnterStructure, EnterHops, Go, structureVars,
              RevocationInv, NoTokenForRevokedChain, Returned
<1>8. CASE EnterRevocation
  BY <1>8 DEF EnterRevocation, Go, structureVars, RevocationInv, Vouching,
              NoTokenForRevokedChain, Returned
<1>9. CASE PassHop
  BY <1>9 DEF PassHop, Advance, structureVars, RevocationInv,
              NoTokenForRevokedChain, Returned
<1>10. CASE Revoke
  BY <1>10 DEF Revoke, structureVars, RevocationInv, Vouching,
               NoTokenForRevokedChain, Returned
<1>11. CASE UNCHANGED vars
  BY <1>11 DEF vars, structureVars, authVars, RevocationInv, Vouching,
               NoTokenForRevokedChain, Returned
<1>. QED BY <1>1, <1>2, <1>3, <1>4, <1>5, <1>6, <1>7, <1>8, <1>9, <1>10, <1>11

\* The structural call inside leaves the caller's state alone.
LEMMA StructureKeepsRevocation ==
    ASSUME RevocationInv, Structure
    PROVE  RevocationInv'
<1>1. chain' = chain
  BY DEF Structure, StructureNext, RefuseEmpty, GateLink, RefuseAtGate, SeedRoot,
         RefuseRoot, WalkHop, RefuseHop, Accept, Refuse
<1>. QED BY <1>1 DEF Structure, authVars, RevocationInv, NoTokenForRevokedChain, Returned

\* A link is passed only if the resolver vouches for it, and it does so only
\* for a link that is not revoked.
LEMMA AskKeepsRevocation ==
    ASSUME RevocationInv, AskResolver
    PROVE  RevocationInv'
<1>1. /\ stage = "revocation" /\ at \in Nat \ {0} /\ at <= Len(chain)
      /\ Vouching /\ chain \in Seq(Links)
      /\ revokedAtStart \subseteq revoked
  BY DEF AskResolver, RevocationInv
<1>2. PICK answer \in {IF chain[at] \in revoked THEN "revoked" ELSE "not_revoked",
                      "no_answer"} :
        answers' = Append(answers, answer) /\ Heed(answer)
  BY DEF AskResolver
<1>3. CASE answer = "not_revoked"
  <2>1. Advance /\ chain[at] \notin revoked
    BY <1>2, <1>3 DEF Heed
  <2>2. /\ at' = at + 1 /\ chain' = chain /\ stage' = "revocation"
        /\ outcome' = outcome /\ revoked' = revoked
        /\ revokedAtStart' = revokedAtStart
    BY <1>1, <2>1 DEF Advance, structureVars
  <2>3. /\ answers' \in Seq({"revoked", "not_revoked", "no_answer"})
        /\ Len(answers') = at
        /\ answers'[at] = "not_revoked"
        /\ \A i \in 1..(at - 1) : answers'[i] = answers[i]
    BY <1>1, <1>2, <1>3 DEF Vouching
  <2>4. Vouching'
    BY <1>1, <2>1, <2>2, <2>3 DEF Vouching
  <2>. QED BY <1>1, <2>2, <2>4 DEF RevocationInv, NoTokenForRevokedChain, Returned
<1>4. CASE answer # "not_revoked"
  <2>1. PICK kind \in {"HopRevoked", "RevocationIndeterminate"} :
          Conclude(kind, at - 1)
    BY <1>2, <1>4 DEF Heed
  <2>. QED BY <2>1, RefusalKeepsRevocation
<1>. QED BY <1>3, <1>4

\* A token is given when the resolver has vouched for every link.
LEMMA AuthorizeKeepsRevocation ==
    ASSUME RevocationInv, Authorize
    PROVE  RevocationInv'
<1>1. /\ stage = "revocation" /\ Vouching /\ chain \in Seq(Links)
      /\ at = Len(chain) + 1 /\ Len(chain) \in Nat
  BY DEF Authorize, RevocationInv
<1>2. /\ outcome' = [kind |-> "Authorized", hop |-> Len(chain)]
      /\ chain' = chain /\ answers' = answers /\ revokedAtStart' = revokedAtStart
  BY DEF Authorize, Return, Conclude, structureVars
<1>3. NoTokenForRevokedChain'
  BY <1>1, <1>2 DEF NoTokenForRevokedChain, Vouching
<1>. QED
  BY <1>2, <1>3 DEF Authorize, Return, Conclude, structureVars, RevocationInv

----------------------------------------------------------------------------
(* The structural call inside *)

\* Nothing past the structural call happens unless it accepted.
Admitted ==
    stage \in {"hops", "revocation"} \/ Returned({"Authorized"})
        => verdict = Accepted

AuthorizationInv == IInv /\ RevocationInv /\ Admitted

\* A step of the caller is a step of the structural call or leaves it alone.
LEMMA StepsOfStructure == [Next]_vars => [StructureNext]_structureVars
BY DEF Next, CallNext, RefuseTime, ParseTime, RefuseEmptyCall, RefuseRootDelegator,
       EnterStructure, Structure, RefuseStructure, EnterHops, PassHop,
       RefuseSignature, RefuseInactive, ReturnIndeterminate, EnterRevocation,
       AskResolver, Heed, Authorize, Revoke, Return, Conclude, Go, Advance, vars

\* The invariant of the structural call is kept by every step of the caller.
LEMMA StructureInvKept == IInv /\ [Next]_vars => IInv'
BY StepsOfStructure, GateInv, SeedInv, WalkInv, AcceptInv, RefusalInv, StutterInv
   DEF StructureNext

\* What the structural call returns as its refusal is not a token.
LEMMA VerdictIsNoToken ==
    IInv => verdict.kind # "Authorized"
BY DEF IInv, TypeOK, StructureErrors

\* The stages are entered through an accepted chain only.
LEMMA AdmittedKept ==
    ASSUME IInv, Admitted, [Next]_vars
    PROVE  Admitted'
<1>1. CASE Structure
  BY <1>1 DEF Structure, authVars, Admitted, Returned
<1>2. CASE UNCHANGED vars
  BY <1>2 DEF vars, structureVars, authVars, Admitted, Returned
<1>3. CASE RefuseStructure
  BY <1>3, VerdictIsNoToken
  DEF RefuseStructure, Return, Conclude, structureVars, Admitted, Returned
<1>4. CASE RefuseTime \/ RefuseEmptyCall \/ RefuseRootDelegator
           \/ RefuseSignature \/ RefuseInactive \/ ReturnIndeterminate
  BY <1>4 DEF RefuseTime, RefuseEmptyCall, RefuseRootDelegator, RefuseSignature,
              RefuseInactive, ReturnIndeterminate, Return, Conclude, Admitted, Returned
<1>5. CASE ParseTime \/ EnterStructure \/ EnterHops \/ EnterRevocation
  BY <1>5 DEF ParseTime, EnterStructure, EnterHops, EnterRevocation, Go,
              structureVars, Admitted, Returned
<1>6. CASE PassHop \/ Revoke
  BY <1>6 DEF PassHop, Revoke, Advance, structureVars, Admitted, Returned
<1>7. CASE AskResolver
  <2>1. \/ stage = "revocation" /\ Advance
        \/ \E kind \in {"HopRevoked", "RevocationIndeterminate"} :
              Conclude(kind, at - 1)
    BY <1>7 DEF AskResolver, Heed
  <2>2. stage = "revocation"
    BY <1>7 DEF AskResolver
  <2>. QED BY <2>1, <2>2 DEF Advance, Conclude, structureVars, Admitted, Returned
<1>8. CASE Authorize
  BY <1>8 DEF Authorize, Return, Conclude, structureVars, Admitted, Returned
<1>. QED
  BY <1>1, <1>2, <1>3, <1>4, <1>5, <1>6, <1>7, <1>8 DEF Next, CallNext

\* The invariant is kept by every step.
LEMMA AuthorizationStep == AuthorizationInv /\ [Next]_vars => AuthorizationInv'
<1> SUFFICES ASSUME AuthorizationInv, [Next]_vars
             PROVE  RevocationInv'
  BY StructureInvKept, AdmittedKept DEF AuthorizationInv
<1>1. CASE RefuseStructure
  BY <1>1, RefusalKeepsRevocation, VerdictIsNoToken
  DEF RefuseStructure, Return, AuthorizationInv
<1>. QED
  BY <1>1, QuietSteps, StructureKeepsRevocation, AskKeepsRevocation,
     AuthorizeKeepsRevocation
  DEF AuthorizationInv, Next, CallNext

LEMMA AuthorizationInvariance == Spec => []AuthorizationInv
<1>1. Init => AuthorizationInv
  BY RevocationInit, InitInv DEF Init, AuthorizationInv, Admitted, Returned
<1>. QED BY <1>1, AuthorizationStep, PTL DEF Spec

----------------------------------------------------------------------------
(* The results *)

\* A token is given only if the resolver vouched for every link, and never
\* for a chain with a link that was revoked before the call began, whatever
\* is revoked while it runs.
THEOREM NoTokenIfRevoked == Spec => []NoTokenForRevokedChain
BY AuthorizationInvariance, PTL DEF AuthorizationInv, RevocationInv

\* The structural guarantees hold inside the authorizing call too, and cover
\* every chain that gets a token: none of its links is wider than any of its
\* ancestors, and every depth ceiling in it bounds its length.
THEOREM TokenNeverWidens ==
    Spec => [](/\ AcceptedNeverWidens /\ DepthCeilingBoundsLength
               /\ Returned({"Authorized"}) => verdict = Accepted)
<1>1. AuthorizationInv => /\ AcceptedNeverWidens /\ DepthCeilingBoundsLength
                          /\ Returned({"Authorized"}) => verdict = Accepted
  BY InvNeverWidens, InvBoundsLength DEF AuthorizationInv, Admitted
<1>. QED BY <1>1, AuthorizationInvariance, PTL

----------------------------------------------------------------------------
(* The status of one link *)

\* A signature that verifies is by its delegator, who is named.
LEMMA SignatureNames ==
    ASSUME NEW link, verify_delegation_signature(link)
    PROVE  /\ link # NotObject
           /\ link.delegatedBy \in Text /\ link.delegatedBy # ""
           /\ str_field(link, "delegatedBy") = link.delegatedBy
           /\ link.signature.bytes.by = KeyHex[link.delegatedBy].bytes
           /\ link.signature.bytes.over = delegation_signature_preimage(link)
<1> DEFINE key == link.delegatedBy
           message == delegation_signature_preimage(link)
<1>1. /\ link # NotObject /\ key \in Text
      /\ verify_ed25519(message, link.signature, key)
  BY DEF verify_delegation_signature
<1>2. /\ KeyHex[key].chars = 64
      /\ verify_strict(message, link.signature.bytes, KeyHex[key].bytes)
  BY <1>1 DEF verify_ed25519
<1>3. link.signature.bytes.by = KeyHex[key].bytes /\ link.signature.bytes.over = message
  BY <1>2 DEF verify_strict, Equation
<1>4. key # ""
  BY <1>2, EmptyKeyAssumption, Zenon
<1>5. str_field(link, "delegatedBy") = link.delegatedBy
  BY <1>1, ShapeAssumption DEF str_field
<1>. QED BY <1>1, <1>3, <1>4, <1>5

\* A well-typed text member is its text, or there is none.
LEMMA TextRead ==
    ASSUME NEW link \in Links, WellTyped(link), NEW key \in TextMembers
    PROVE  /\ link[key] \in Text => text_of(link, key) = link[key]
           /\ link[key] \notin Text => link[key] \in {Absent, Null}
                                       /\ text_of(link, key) = ""
<1>1. text_of(link, key) # Err /\ link[key] \in TextValue
  BY LinkAssumption DEF WellTyped
<1>2. CASE link[key] \in Text
  BY <1>2, ShapeAssumption DEF text_of
<1>3. CASE link[key] \notin Text
  <2>1. link[key] \in {Absent, Null, Malformed}
    BY <1>1, <1>3 DEF TextValue
  <2>2. link[key] # Malformed
    BY <1>1, ShapeAssumption DEF text_of
  <2>. QED BY <1>3, <2>1, <2>2, ShapeAssumption DEF text_of
<1>. QED BY <1>2, <1>3

\* Of two instants the first exceeds the second or does not come after it.
LEMMA InstantsCompare ==
    ASSUME NEW x \in Int, NEW y \in Int
    PROVE  ~Exceeds(x, y) <=> x <= y
<1>1. ASSUME x <= y PROVE ~Exceeds(x, y)
  BY <1>1, NotAbove
<1>2. ASSUME ~(x <= y) PROVE Exceeds(x, y)
  <2>1. x > y
    BY <1>2
  <2>2. {x, y} \cap {None, Err} = {}
    BY OptionAssumption
  <2>. QED BY <2>1, <2>2 DEF Exceeds
<1>. QED BY <1>1, <1>2

\* now lies in the link's window.
InWindow(link, now) ==
    /\ expiry_of(link) \notin {None, Err} /\ now <= expiry_of(link)
    /\ not_before_of(link) # None => not_before_of(link) <= now

\* verify_delegation and the walk read a window alike, but for an empty
\* notBefore.
LEMMA WindowReadAlike ==
    ASSUME NEW link \in Links, WellTyped(link), not_before_of(link) # Err,
           NEW now \in Int
    PROVE  WindowErrors(link, now) = {} <=> InWindow(link, now) /\ link.notBefore # ""
<1> DEFINE from == link["notBefore"]
           to == link["expiresAt"]
<1>1. Ms \in [Text -> Int \cup {Err}] /\ Ms[""] = Err
  BY ReadingAssumption
<1>2. /\ to \in Text => text_of(link, "expiresAt") = to
      /\ to \notin Text => to \in {Absent, Null} /\ text_of(link, "expiresAt") = ""
      /\ from \in Text => text_of(link, "notBefore") = from
      /\ from \notin Text => from \in {Absent, Null} /\ text_of(link, "notBefore") = ""
  BY TextRead DEF TextMembers
<1>3. WindowErrors(link, now) = {} <=>
         /\ read_ms(to) # Err /\ ~Exceeds(now, read_ms(to))
         /\ ~(from \in Text /\ parse_ms(from) = Err)
         /\ ~Exceeds(read_ms(from), now)
  BY DEF WindowErrors
<1>4. read_ms(to) # Err /\ ~Exceeds(now, read_ms(to))
         <=> expiry_of(link) \notin {None, Err} /\ now <= expiry_of(link)
  <2>1. CASE to \in Text /\ Ms[to] # Err
    <3>1. to # "" /\ Ms[to] \in Int
      BY <1>1, <2>1
    <3>2. read_ms(to) = Ms[to] /\ expiry_of(link) = Ms[to]
      BY <1>2, <2>1, <3>1 DEF read_ms, parse_ms, expiry_of, instant_of
    <3>3. Ms[to] # None /\ Ms[to] # Err /\ now # None /\ now # Err
      BY <3>1, OptionAssumption
    <3>4. ~Exceeds(now, Ms[to]) <=> now <= Ms[to]
      BY <3>1, InstantsCompare
    <3>. QED BY <3>2, <3>3, <3>4, Zenon
  <2>2. CASE ~(to \in Text /\ Ms[to] # Err)
    <3>1. read_ms(to) = Err
      BY <2>2 DEF read_ms, parse_ms
    <3>2. expiry_of(link) \in {None, Err}
      BY <1>1, <1>2, <2>2 DEF expiry_of, instant_of, parse_ms
    <3>. QED BY <3>1, <3>2
  <2>. QED BY <2>1, <2>2
<1>5. ~(from \in Text /\ parse_ms(from) = Err) /\ ~Exceeds(read_ms(from), now)
         <=> /\ not_before_of(link) # None => not_before_of(link) <= now
             /\ from # ""
  <2>1. CASE from \in Text /\ Ms[from] # Err
    <3>1. from # "" /\ Ms[from] \in Int
      BY <1>1, <2>1
    <3>2. read_ms(from) = Ms[from] /\ parse_ms(from) = Ms[from] /\ not_before_of(link) = Ms[from]
      BY <1>2, <2>1, <3>1 DEF read_ms, parse_ms, not_before_of, instant_of
    <3>3. Ms[from] # None /\ Ms[from] # Err /\ now # None /\ now # Err
      BY <3>1, OptionAssumption
    <3>4. ~Exceeds(Ms[from], now) <=> Ms[from] <= now
      BY <3>1, InstantsCompare
    <3>. QED BY <3>1, <3>2, <3>3, <3>4, Zenon
  <2>2. CASE from \in Text /\ Ms[from] = Err
    <3>1. from = ""
      BY <1>2, <2>2 DEF not_before_of, instant_of, parse_ms
    <3>. QED BY <2>2, <3>1 DEF parse_ms
  <2>3. CASE from \notin Text
    <3>1. read_ms(from) = Err /\ not_before_of(link) = None /\ from # ""
      BY <1>2, <2>3, ShapeAssumption DEF read_ms, not_before_of, instant_of
    <3>. QED BY <2>3, <3>1 DEF Exceeds
  <2>. QED BY <2>1, <2>2, <2>3
<1>. QED BY <1>3, <1>4, <1>5 DEF InWindow

\* The lenient depth bound, in doubles, never fails a link whose position is
\* within its own ceiling.
LEMMA LenientDepthPasses ==
    ASSUME NEW link \in Links, WellTyped(link),
           max_depth_of(link) = None \/ position(link) <= max_depth_of(link)
    PROVE  ~DepthExceeded(link)
<1> DEFINE value(n) == IF n \in NegativeZeros THEN 0 ELSE AsI64[n]
           now == link["currentDepth"]
           most == link["maxDepth"]
<1>1. /\ link # NotObject
      /\ depth_of(link, "currentDepth") # Err /\ depth_of(link, "maxDepth") # Err
  BY DEF WellTyped, DepthMembers
<1>2. CASE now \in Number /\ most \in Number
  <2>1. /\ now \notin {Absent, Null, Malformed} /\ most \notin {Absent, Null, Malformed}
    BY <1>2, ShapeAssumption
  <2>2. /\ depth_of(link, "currentDepth") = value(now) /\ value(now) # None
    BY <1>1, <1>2, <2>1, OptionAssumption DEF depth_of
  <2>3. /\ depth_of(link, "maxDepth") = value(most) /\ value(most) # None
    BY <1>1, <1>2, <2>1, OptionAssumption DEF depth_of
  <2>4. value(now) <= value(most)
    BY <2>2, <2>3 DEF position, max_depth_of
  <2>5. AsF64[now] <= AsF64[most]
    BY <1>2, <2>2, <2>3, <2>4, RoundingAssumption
  <2>6. AsF64[now] \in Int /\ AsF64[most] \in Int
    BY <1>2, ReadingAssumption
  <2>. QED BY <1>2, <2>5, <2>6, NotAbove DEF DepthExceeded, as_f64
<1>3. CASE now \notin Number \/ most \notin Number
  BY <1>3 DEF DepthExceeded, as_f64, Exceeds
<1>. QED BY <1>2, <1>3

\* On a chain that attenuates, a link that is signed is inactive for the sake
\* of its window alone.
LEMMA OnlyTheWindowDecides ==
    ASSUME NEW c, Attenuates(c), NEW i \in 1..Len(c), Len(c) \in Nat, c[i] \in Links,
           verify_delegation_signature(c[i]), NEW now
    PROVE  verify_delegation(c[i], now) = WindowErrors(c[i], now)
<1>1. WellTyped(c[i])
  BY LinkParts
<1>2. max_depth_of(c[i]) = None \/ position(c[i]) <= max_depth_of(c[i])
  <2>1. i \in 1..i
    OBVIOUS
  <2>. QED BY <2>1, DepthParts
<1>3. ~DepthExceeded(c[i])
  BY <1>1, <1>2, LenientDepthPasses
<1>4. c[i] # NotObject
  BY <1>1 DEF WellTyped
<1>. QED BY <1>3, <1>4 DEF verify_delegation

----------------------------------------------------------------------------
(* Everything but revocation *)

\* The link passes the loop over the hops.
Vetted(i) ==
    verify_delegation_signature(chain[i]) /\ verify_delegation(chain[i], now_ms) = {}

\* For a chain that attenuates from a trusted root, read at a time that can
\* be read, what is left to check is each link.
LEMMA VettingGrants ==
    ASSUME Attenuates(chain), chain \in Seq(Links), call \in Calls, now_ms # Err,
           TrustedRoot(chain, call.roots)
    PROVE  Grantable <=> \A i \in 1..Len(chain) : Vetted(i)
<1>1. now_ms \in Int
  BY CallAssumption, ReadingAssumption DEF Calls, now_ms, parse_ms
<1>2. Len(chain) \in Nat /\ chain # << >> /\ \A i \in 1..Len(chain) : chain[i] \in Links
  BY DEF Attenuates
<1>3. chain[1].delegatedBy \in call.roots \ {""}
  BY DEF TrustedRoot, str_field
<1>4. ASSUME NEW i \in 1..Len(chain)
      PROVE  Vetted(i) <=> /\ verify_delegation_signature(chain[i])
                           /\ chain[i].notBefore # "" /\ InWindow(chain[i], now_ms)
  <2>1. WellTyped(chain[i]) /\ not_before_of(chain[i]) # Err
    BY <1>4, LinkParts
  <2>2. WindowErrors(chain[i], now_ms) = {}
           <=> InWindow(chain[i], now_ms) /\ chain[i].notBefore # ""
    BY <1>1, <1>2, <1>4, <2>1, WindowReadAlike
  <2>3. verify_delegation_signature(chain[i])
           => verify_delegation(chain[i], now_ms) = WindowErrors(chain[i], now_ms)
    BY <1>2, <1>4, OnlyTheWindowDecides
  <2>. QED BY <2>2, <2>3, Zenon DEF Vetted
<1>5. Grantable <=> \A i \in 1..Len(chain) :
                       /\ verify_delegation_signature(chain[i])
                       /\ chain[i].notBefore # "" /\ InWindow(chain[i], now_ms)
  BY <1>3, Zenon DEF Grantable, InForce, InWindow
<1>. QED BY <1>4, <1>5, Zenon

\* What the call has seen to at each of its stages.
Progress ==
    /\ call \in Calls
    /\ stage \in {"root", "structure", "hops", "revocation"} => now_ms # Err
    /\ stage \in {"structure", "hops", "revocation"} =>
          chain # << >> /\ TrustedRoot(chain, call.roots)
    /\ stage = "hops" =>
          at <= Len(chain) + 1 /\ \A i \in 1..(at - 1) : Vetted(i)
    /\ stage = "revocation" => \A i \in 1..Len(chain) : Vetted(i)

OutcomeRight ==
    RevocationIsTheLastGate /\ HopRefusalNamesFirst /\ LenientDepthNeverDecides

GrantInv == DecisionInv /\ AuthorizationInv /\ Progress /\ OutcomeRight

\* The arguments of the call stay what they are.
LEMMA ArgumentsKept == [Next]_vars => chain' = chain /\ call' = call
BY DEF Next, CallNext, RefuseTime, ParseTime, RefuseEmptyCall, RefuseRootDelegator,
       EnterStructure, Structure, RefuseStructure, EnterHops, PassHop,
       RefuseSignature, RefuseInactive, ReturnIndeterminate, EnterRevocation,
       AskResolver, Heed, Authorize, Revoke, Return, Conclude, Go, Advance, vars,
       structureVars, authVars, StructureNext, RefuseEmpty, GateLink, RefuseAtGate,
       SeedRoot, RefuseRoot, WalkHop, RefuseHop, Accept, Refuse

\* In the two last loops the chain attenuates, and what is left to check is
\* each link.
LEMMA LoopsDecide ==
    ASSUME GrantInv, stage \in {"hops", "revocation"}
    PROVE  /\ Attenuates(chain) /\ TrustedRoot(chain, call.roots)
           /\ Grantable <=> \A i \in 1..Len(chain) : Vetted(i)
           /\ Len(chain) \in Nat /\ at \in Nat \ {0}
           /\ \A i \in 1..Len(chain) : chain[i] \in Links
<1>1. Attenuates(chain) /\ chain \in Seq(Links) /\ at \in Nat \ {0}
  BY DEF GrantInv, AuthorizationInv, RevocationInv, Admitted, DecisionInv, Decided
<1>2. call \in Calls /\ now_ms # Err /\ TrustedRoot(chain, call.roots)
  BY DEF GrantInv, Progress
<1>. QED BY <1>1, <1>2, VettingGrants

LastGateKinds == {"RevocationIndeterminate", "HopRevoked", "Authorized"}
HopKinds == {"InvalidSignature", "HopInactive"}

\* An outcome on which everything else is in order.
LEMMA GrantedOutcome ==
    ASSUME Grantable, NEW kind \in LastGateKinds, NEW index, Conclude(kind, index)
    PROVE  OutcomeRight'
<1>1. /\ outcome' = [kind |-> kind, hop |-> index] /\ chain' = chain /\ call' = call
      /\ outcome'.kind = kind /\ kind \notin HopKinds
  BY DEF Conclude, structureVars, LastGateKinds, HopKinds
<1>2. RevocationIsTheLastGate'
  <2>1. Grantable'
    BY <1>1 DEF Grantable, now_ms
  <2>. QED BY <1>1, <2>1 DEF RevocationIsTheLastGate, LastGateKinds
<1>3. HopRefusalNamesFirst' /\ LenientDepthNeverDecides'
  BY <1>1 DEF HopRefusalNamesFirst, LenientDepthNeverDecides, Returned, HopKinds
<1>. QED BY <1>2, <1>3 DEF OutcomeRight

\* A refusal before or in the structural call.
LEMMA EarlyRefusal ==
    ASSUME ~Grantable, NEW kind, kind \notin LastGateKinds \cup HopKinds, NEW index,
           Conclude(kind, index)
    PROVE  OutcomeRight'
<1>1. /\ outcome' = [kind |-> kind, hop |-> index] /\ chain' = chain /\ call' = call
      /\ outcome'.kind = kind
  BY DEF Conclude, structureVars
<1>2. RevocationIsTheLastGate'
  <2>1. ~Grantable'
    BY <1>1 DEF Grantable, now_ms
  <2>. QED BY <1>1, <2>1 DEF RevocationIsTheLastGate, LastGateKinds
<1>3. HopRefusalNamesFirst' /\ LenientDepthNeverDecides'
  BY <1>1 DEF HopRefusalNamesFirst, LenientDepthNeverDecides, Returned, HopKinds
<1>. QED BY <1>2, <1>3 DEF OutcomeRight

\* A refusal in the loop over the hops.
LEMMA HopRefusal ==
    ASSUME GrantInv, RefuseSignature \/ RefuseInactive
    PROVE  OutcomeRight'
<1> DEFINE signed == verify_delegation_signature(chain[at])
<1>1. stage = "hops" /\ at \in 1..Len(chain)
  BY LoopsDecide DEF RefuseSignature, RefuseInactive
<1>2. PICK kind \in HopKinds :
         /\ Conclude(kind, at - 1)
         /\ signed <=> kind = "HopInactive"
         /\ signed => verify_delegation(chain[at], now_ms) # {}
  BY DEF RefuseSignature, RefuseInactive, Return, HopKinds
<1>3. /\ outcome' = [kind |-> kind, hop |-> at - 1] /\ chain' = chain /\ call' = call
      /\ outcome'.kind = kind /\ outcome'.hop = at - 1 /\ outcome'.hop + 1 = at
      /\ now_ms' = now_ms
  BY <1>1, <1>2 DEF Conclude, structureVars, now_ms
<1>4. RevocationIsTheLastGate'
  <2>1. ~Vetted(at)
    BY <1>2 DEF Vetted
  <2>2. ~Grantable
    BY <1>1, <2>1, LoopsDecide
  <2>3. ~Grantable'
    BY <1>3, <2>2 DEF Grantable, now_ms
  <2>. QED BY <1>3, <2>3 DEF RevocationIsTheLastGate, HopKinds
<1>5. HopRefusalNamesFirst'
  <2>1. Attenuates(chain) /\ TrustedRoot(chain, call.roots)
    BY <1>1, LoopsDecide
  <2>2. ASSUME NEW i \in 1..(at - 1)
        PROVE  verify_delegation_signature(chain[i]) /\ WindowErrors(chain[i], now_ms) = {}
    BY <1>1, SignatureNames DEF GrantInv, Progress, Vetted, verify_delegation
  <2>3. verify_delegation_signature(chain[at]) <=> kind = "HopInactive"
    BY <1>2
  <2>. QED BY <1>3, <2>1, <2>2, <2>3 DEF HopRefusalNamesFirst
<1>6. LenientDepthNeverDecides'
  <2>1. kind = "HopInactive" => WindowErrors(chain[at], now_ms) # {}
    BY <1>1, <1>2, LoopsDecide, OnlyTheWindowDecides
  <2>. QED BY <1>3, <2>1 DEF LenientDepthNeverDecides, Returned
<1>. QED BY <1>4, <1>5, <1>6 DEF OutcomeRight

\* A stage is only left for the next when its business is done.
LEMMA ProgressKept ==
    ASSUME GrantInv, [Next]_vars
    PROVE  Progress'
<1>1. chain' = chain /\ call' = call /\ now_ms' = now_ms
  BY ArgumentsKept DEF now_ms
<1>2. Progress /\ at \in Nat \ {0} /\ chain \in Seq(Links)
  BY DEF GrantInv, AuthorizationInv, RevocationInv
<1>3. \A i : Vetted(i)' = Vetted(i)
  BY <1>1 DEF Vetted
<1>4. CASE stage' = "returned"
  BY <1>1, <1>2, <1>4 DEF Progress
<1>5. CASE stage' = stage /\ at' = at
  BY <1>1, <1>2, <1>3, <1>5 DEF Progress
<1>6. CASE ParseTime \/ EnterStructure
  BY <1>1, <1>2, <1>6 DEF Progress, ParseTime, EnterStructure, Go
<1>7. CASE EnterHops
  <2>1. stage = "structure" /\ stage' = "hops" /\ at' = 1
    BY <1>7 DEF EnterHops, Go
  <2>. QED BY <1>1, <1>2, <2>1 DEF Progress
<1>8. CASE PassHop
  <2>1. stage = "hops" /\ stage' = "hops" /\ at' = at + 1 /\ at <= Len(chain) /\ Vetted(at)
    BY <1>8 DEF PassHop, Advance, Vetted
  <2>2. \A i \in 1..(at' - 1) : Vetted(i)
    BY <1>2, <2>1 DEF Progress
  <2>. QED BY <1>1, <1>2, <1>3, <2>1, <2>2 DEF Progress
<1>9. CASE EnterRevocation
  <2>1. stage = "hops" /\ stage' = "revocation" /\ at > Len(chain)
    BY <1>9 DEF EnterRevocation, Go
  <2>2. \A i \in 1..Len(chain) : Vetted(i)
    BY <1>2, <2>1 DEF Progress
  <2>. QED BY <1>1, <1>2, <1>3, <2>1, <2>2 DEF Progress
<1>10. CASE AskResolver
  <2>1. stage = "revocation" /\ stage' \in {"revocation", "returned"}
    BY <1>10 DEF AskResolver, Heed, Advance, Conclude
  <2>. QED BY <1>1, <1>2, <1>3, <2>1 DEF Progress
<1>. QED
  BY <1>4, <1>5, <1>6, <1>7, <1>8, <1>9, <1>10
  DEF Next, CallNext, RefuseTime, RefuseEmptyCall, RefuseRootDelegator, Structure,
      RefuseStructure, RefuseSignature, RefuseInactive, ReturnIndeterminate,
      Authorize, Revoke, Return, Conclude, vars, authVars

\* Every outcome is right about what is in order.
LEMMA OutcomeKept ==
    ASSUME GrantInv, [Next]_vars
    PROVE  OutcomeRight'
<1>1. chain' = chain /\ call' = call
  BY ArgumentsKept
<1>2. CASE stage' # "returned"
  BY <1>2 DEF OutcomeRight, RevocationIsTheLastGate, HopRefusalNamesFirst,
              LenientDepthNeverDecides, Returned
<1>3. CASE stage' = stage /\ outcome' = outcome
  <2>1. OutcomeRight
    BY DEF GrantInv
  <2>2. (Grantable' <=> Grantable) /\ now_ms' = now_ms
    BY <1>1 DEF Grantable, now_ms
  <2>. QED
    BY <1>1, <1>3, <2>1, <2>2
    DEF OutcomeRight, RevocationIsTheLastGate, HopRefusalNamesFirst,
        LenientDepthNeverDecides, Returned
<1>4. CASE RefuseTime
  BY <1>4, EarlyRefusal DEF RefuseTime, Return, Grantable, LastGateKinds, HopKinds
<1>5. CASE RefuseEmptyCall
  <2>1. ~Grantable
    BY <1>5 DEF RefuseEmptyCall, Grantable, Attenuates
  <2>. QED BY <1>5, <2>1, EarlyRefusal DEF RefuseEmptyCall, Return, LastGateKinds, HopKinds
<1>6. CASE RefuseRootDelegator
  <2>1. ~Grantable
    <3>1. ASSUME Attenuates(chain) PROVE chain[1] # NotObject
      <4>1. chain # << >>
        BY <3>1, Zenon DEF Attenuates
      <4>2. Len(chain) \in Nat /\ Len(chain) >= 1
        BY <4>1, ChainFacts DEF GrantInv, DecisionInv, IInv
      <4>3. 1 \in 1..Len(chain)
        BY <4>2
      <4>. QED BY <3>1, <4>3, LinkParts DEF WellTyped
    <3>2. call.roots \subseteq Text
      BY CallAssumption DEF GrantInv, Progress, Calls
    <3> SUFFICES ASSUME Attenuates(chain), chain[1].delegatedBy \in call.roots \ {""}
                 PROVE  FALSE
      BY DEF Grantable
    <3>3. str_field(chain[1], "delegatedBy") = chain[1].delegatedBy
      BY <3>1, <3>2, ShapeAssumption DEF str_field
    <3>. QED BY <1>6, <3>3 DEF RefuseRootDelegator, TrustedRoot
  <2>. QED BY <1>6, <2>1, EarlyRefusal DEF RefuseRootDelegator, Return, LastGateKinds, HopKinds
<1>7. CASE RefuseStructure
  <2>1. ~Grantable
    BY <1>7 DEF RefuseStructure, GrantInv, DecisionInv, Decided, Grantable
  <2>2. verdict.kind \notin LastGateKinds \cup HopKinds
    BY DEF GrantInv, DecisionInv, IInv, TypeOK, StructureErrors, LastGateKinds, HopKinds
  <2>. QED BY <1>7, <2>1, <2>2, EarlyRefusal DEF RefuseStructure, Return
<1>8. CASE RefuseSignature \/ RefuseInactive
  BY <1>8, HopRefusal
<1>9. CASE ReturnIndeterminate
  <2>1. stage = "hops" /\ at > Len(chain)
    BY <1>9 DEF ReturnIndeterminate
  <2>2. Grantable
    BY <2>1, LoopsDecide DEF GrantInv, Progress
  <2>. QED BY <1>9, <2>2, GrantedOutcome DEF ReturnIndeterminate, Return, LastGateKinds
<1>10. CASE AskResolver \/ Authorize
  <2>1. stage = "revocation"
    BY <1>10 DEF AskResolver, Authorize
  <2>2. Grantable
    BY <2>1, LoopsDecide DEF GrantInv, Progress
  <2>3. \/ stage' = stage
        \/ \E kind \in LastGateKinds, index \in {at - 1, Len(chain)} : Conclude(kind, index)
    BY <1>10 DEF AskResolver, Authorize, Heed, Advance, Return, LastGateKinds
  <2>. QED BY <1>2, <2>1, <2>2, <2>3, GrantedOutcome
<1>. QED
  BY <1>2, <1>3, <1>4, <1>5, <1>6, <1>7, <1>8, <1>9, <1>10
  DEF Next, CallNext, ParseTime, EnterStructure, Structure, EnterHops, PassHop,
      EnterRevocation, Go, Advance, Revoke, vars, authVars

\* The invariant is one.
LEMMA GrantInvariance == Spec => []GrantInv
<1>1. Init => GrantInv
  <2> SUFFICES ASSUME Init PROVE GrantInv
    OBVIOUS
  <2>1. DecisionInv
    BY InitInv DEF Init, StructureInit, DecisionInv, Walkable, Decided, Pending, Accepted
  <2>2. AuthorizationInv
    BY RevocationInit, InitInv DEF Init, AuthorizationInv, Admitted, Returned
  <2>3. Progress /\ OutcomeRight
    BY DEF Init, Progress, OutcomeRight, RevocationIsTheLastGate, HopRefusalNamesFirst,
           LenientDepthNeverDecides, Returned
  <2>. QED BY <2>1, <2>2, <2>3 DEF GrantInv
<1>2. GrantInv /\ [Next]_vars => GrantInv'
  BY StepsOfStructure, DecidedKept, AuthorizationStep, ProgressKept, OutcomeKept
  DEF GrantInv
<1>. QED BY <1>1, <1>2, PTL DEF Spec

----------------------------------------------------------------------------
(* Types, and what an outcome says of revocation *)

\* A structural refusal names a hop.
Named ==
    \/ verdict \in {Pending, Accepted}
    \/ verdict.kind \in StructureErrors /\ verdict.hop \in 0..Len(chain)

\* What the types of the caller's state add to the other invariants.
Ranges ==
    /\ Named
    /\ at \in 1..(Len(chain) + 1)
    /\ stage \in {"time", "root", "structure", "hops", "revocation", "returned"}
    /\ outcome \in [kind : AuthorizationErrors \cup {"Pending", "Authorized"},
                    hop : 0..Len(chain)]
    /\ answers \in Seq({"revoked", "not_revoked", "no_answer"})
    /\ revoked \subseteq {chain[i] : i \in 1..Len(chain)}

FullInv == GrantInv /\ Ranges /\ RevocationNamesTheLink

\* A refusal of the structural call names a hop of the chain.
LEMMA VerdictNamesHop ==
    ASSUME IInv, Named, [StructureNext]_structureVars
    PROVE  Named'
<1>1. /\ Len(chain) \in Nat /\ hop \in Nat \ {0} /\ hop <= Len(chain) + 1
      /\ pc = "walk" => hop >= 2
  BY ChainFacts DEF IInv, Control
<1>2. chain' = chain
  BY DEF StructureNext, RefuseEmpty, GateLink, RefuseAtGate, SeedRoot, RefuseRoot,
         WalkHop, RefuseHop, Accept, Refuse, structureVars
<1>3. CASE verdict' = verdict
  BY <1>2, <1>3 DEF Named
<1>4. CASE verdict' = Accepted
  BY <1>4 DEF Named
<1>5. ASSUME NEW kind \in StructureErrors, NEW index \in 1..(Len(chain) + 1),
             Refuse(kind, index)
      PROVE  Named'
  <2>1. verdict' = [kind |-> kind, hop |-> index - 1]
    BY <1>5 DEF Refuse
  <2>2. verdict'.kind \in StructureErrors /\ verdict'.hop \in 0..Len(chain)
    BY <1>1, <2>1
  <2>. QED BY <1>2, <2>2 DEF Named
<1>6. "EmptyChain" \in StructureErrors /\ "ExpiryUnparseable" \in StructureErrors
      /\ 1 \in 1..(Len(chain) + 1) /\ hop \in 1..(Len(chain) + 1)
  BY <1>1 DEF StructureErrors
<1>7. CASE RefuseEmpty
  BY <1>5, <1>6, <1>7 DEF RefuseEmpty
<1>8. CASE RefuseAtGate
  <2>1. PICK i \in DOMAIN GateRules : Refuse(GateRules[i], hop)
    BY <1>8 DEF RefuseAtGate
  <2>2. GateRules[i] \in StructureErrors
    BY GateRulesListed DEF StructureErrors
  <2>. QED BY <1>5, <1>6, <2>1, <2>2
<1>9. CASE RefuseRoot
  <2>1. PICK i \in DOMAIN SeedRules : Refuse(SeedRules[i], 1)
    BY <1>9 DEF RefuseRoot
  <2>2. SeedRules[i] \in StructureErrors
    BY DEF SeedRules, NarrowRules, StructureErrors
  <2>. QED BY <1>5, <1>6, <2>1, <2>2
<1>10. CASE RefuseHop
  <2>1. PICK i \in DOMAIN HopRules :
           IF HopRules[i] = "ParentExpiryUnparseable"
           THEN Refuse("ExpiryUnparseable", hop - 1) ELSE Refuse(HopRules[i], hop)
    BY <1>10 DEF RefuseHop
  <2>2. HopRules[i] \in StructureErrors \cup {"ParentExpiryUnparseable"}
    BY DEF HopRules, NarrowRules, StructureErrors
  <2>3. hop - 1 \in 1..(Len(chain) + 1)
    BY <1>1, <1>10 DEF RefuseHop
  <2>4. CASE HopRules[i] = "ParentExpiryUnparseable"
    BY <1>5, <1>6, <2>1, <2>3, <2>4
  <2>5. CASE HopRules[i] # "ParentExpiryUnparseable"
    BY <1>5, <1>6, <2>1, <2>2, <2>5
  <2>. QED BY <2>4, <2>5
<1>. QED
  BY <1>3, <1>4, <1>7, <1>8, <1>9, <1>10
  DEF StructureNext, GateLink, SeedRoot, WalkHop, Accept, structureVars

\* Every outcome is a known kind at a link of the chain.
LEMMA RangesKept ==
    ASSUME FullInv, [Next]_vars
    PROVE  Ranges'
<1>1. /\ chain' = chain /\ Len(chain) \in Nat /\ chain \in Seq(Links)
      /\ IInv /\ Ranges
  BY ArgumentsKept, ChainFacts DEF FullInv, GrantInv, DecisionInv, IInv
<1>2. Named'
  BY <1>1, StepsOfStructure, VerdictNamesHop DEF Ranges
<1> DEFINE Answers == Seq({"revoked", "not_revoked", "no_answer"})
           Kinds == AuthorizationErrors \cup {"Pending", "Authorized"}
<1>3. ASSUME NEW kind \in Kinds, NEW index \in 0..Len(chain), Conclude(kind, index),
             answers' \in Answers
      PROVE  Ranges'
  <2>1. /\ outcome' \in [kind : Kinds, hop : 0..Len(chain)]
        /\ stage' = "returned" /\ at' = at /\ revoked' = revoked
    BY <1>3 DEF Conclude
  <2>. QED BY <1>1, <1>2, <1>3, <2>1 DEF Ranges
<1>4. CASE /\ at' \in 1..(Len(chain) + 1) /\ outcome' = outcome
           /\ answers' \in Answers
           /\ revoked' \subseteq {chain[i] : i \in 1..Len(chain)}
           /\ stage' \in {"time", "root", "structure", "hops", "revocation", "returned"}
  BY <1>1, <1>2, <1>4 DEF Ranges
<1>5. ASSUME NEW kind \in Kinds, NEW index \in 0..Len(chain), Return(kind, index)
      PROVE  Ranges'
  <2>1. answers' \in Answers
    BY <1>1, <1>5 DEF Return, Ranges
  <2>. QED BY <1>3, <1>5, <2>1 DEF Return
<1>6. 0 \in 0..Len(chain) /\ Len(chain) \in 0..Len(chain)
      /\ (at <= Len(chain) => at - 1 \in 0..Len(chain) /\ at + 1 \in 1..(Len(chain) + 1))
      /\ 1 \in 1..(Len(chain) + 1)
  BY <1>1 DEF Ranges
<1>7. {"TimestampError", "EmptyChain", "UntrustedRoot", "InvalidSignature", "HopInactive",
       "HopRevoked", "RevocationIndeterminate", "Authorized"} \subseteq Kinds
  BY DEF AuthorizationErrors, StructureErrors
<1>8. CASE \/ RefuseTime \/ RefuseEmptyCall \/ RefuseRootDelegator \/ RefuseSignature
           \/ RefuseInactive \/ ReturnIndeterminate \/ Authorize
  <2>1. \E kind \in Kinds, index \in 0..Len(chain) : Return(kind, index)
    BY <1>6, <1>7, <1>8
    DEF RefuseTime, RefuseEmptyCall, RefuseRootDelegator, RefuseSignature,
        RefuseInactive, ReturnIndeterminate, Authorize
  <2>. QED BY <1>5, <2>1
<1>9. CASE RefuseStructure
  <2>1. verdict.kind \in Kinds /\ verdict.hop \in 0..Len(chain)
    BY <1>1, <1>9 DEF RefuseStructure, Ranges, Named, AuthorizationErrors
  <2>. QED BY <1>5, <1>9, <2>1 DEF RefuseStructure
<1>10. CASE ParseTime \/ EnterStructure \/ EnterHops \/ EnterRevocation
  BY <1>1, <1>4, <1>6, <1>10
  DEF ParseTime, EnterStructure, EnterHops, EnterRevocation, Go, Ranges
<1>11. CASE PassHop
  BY <1>1, <1>4, <1>6, <1>11 DEF PassHop, Advance, Ranges
<1>12. CASE AskResolver
  <2>1. PICK answer \in {"revoked", "not_revoked", "no_answer"} :
          answers' = Append(answers, answer) /\ Heed(answer)
    BY <1>12 DEF AskResolver
  <2>2. answers' \in Answers
    BY <1>1, <2>1 DEF Ranges
  <2>3. stage = "revocation" /\ at <= Len(chain)
    BY <1>12 DEF AskResolver
  <2>4. CASE Advance
    BY <1>1, <1>4, <1>6, <2>2, <2>3, <2>4 DEF Advance, Ranges
  <2>5. CASE \E kind \in {"HopRevoked", "RevocationIndeterminate"} : Conclude(kind, at - 1)
    BY <1>3, <1>6, <1>7, <2>2, <2>3, <2>5
  <2>. QED BY <2>1, <2>4, <2>5 DEF Heed
<1>13. CASE Structure \/ UNCHANGED vars
  BY <1>1, <1>4, <1>13 DEF Structure, authVars, vars, Ranges
<1>14. CASE Revoke
  BY <1>1, <1>4, <1>14 DEF Revoke, Ranges
<1>. QED
  BY <1>8, <1>9, <1>10, <1>11, <1>12, <1>13, <1>14 DEF Next, CallNext

\* A kind that speaks of revocation comes from the resolver, or from the call
\* that has none.
LEMMA RevocationNamed ==
    ASSUME FullInv, [Next]_vars
    PROVE  RevocationNamesTheLink'
<1>1. /\ chain' = chain /\ call' = call /\ Len(chain) \in Nat
      /\ Ranges /\ RevocationNamesTheLink /\ RevocationInv
  BY ArgumentsKept, ChainFacts
  DEF FullInv, GrantInv, DecisionInv, IInv, AuthorizationInv
<1>2. CASE stage' # "returned"
  BY <1>2 DEF RevocationNamesTheLink, Returned
<1>3. CASE stage' = stage /\ outcome' = outcome /\ answers' = answers
           /\ revoked \subseteq revoked'
  BY <1>1, <1>3 DEF RevocationNamesTheLink, Returned
<1>4. ASSUME NEW kind, kind \notin {"HopRevoked", "RevocationIndeterminate"}, NEW index,
             Conclude(kind, index)
      PROVE  RevocationNamesTheLink'
  <2>1. outcome'.kind = kind
    BY <1>4 DEF Conclude
  <2>. QED BY <1>4, <2>1 DEF RevocationNamesTheLink, Returned
<1>5. CASE RefuseTime \/ RefuseEmptyCall \/ RefuseRootDelegator \/ RefuseSignature
           \/ RefuseInactive \/ Authorize
  <2>1. \E kind, index : /\ kind \notin {"HopRevoked", "RevocationIndeterminate"}
                        /\ Conclude(kind, index)
    BY <1>5 DEF RefuseTime, RefuseEmptyCall, RefuseRootDelegator, RefuseSignature,
                RefuseInactive, Authorize, Return
  <2>. QED BY <1>4, <2>1
<1>6. CASE RefuseStructure
  <2>1. verdict.kind \notin {"HopRevoked", "RevocationIndeterminate"}
    BY <1>1, <1>6 DEF RefuseStructure, Ranges, Named, StructureErrors
  <2>. QED BY <1>4, <1>6, <2>1 DEF RefuseStructure, Return
<1>7. CASE ReturnIndeterminate
  <2>1. /\ call'.entry = "plain"
        /\ outcome' = [kind |-> "RevocationIndeterminate", hop |-> 0]
    BY <1>1, <1>7 DEF ReturnIndeterminate, Return, Conclude
  <2>. QED BY <2>1 DEF RevocationNamesTheLink, Returned
<1>8. CASE AskResolver
  <2>1. PICK answer \in {IF chain[at] \in revoked THEN "revoked" ELSE "not_revoked",
                        "no_answer"} :
          answers' = Append(answers, answer) /\ Heed(answer)
    BY <1>8 DEF AskResolver
  <2>2. /\ stage = "revocation" /\ at \in 1..Len(chain)
        /\ answers \in Seq({"revoked", "not_revoked", "no_answer"})
        /\ Len(answers) = at - 1
    BY <1>1, <1>8 DEF AskResolver, RevocationInv, Vouching
  <2>3. CASE answer = "not_revoked"
    BY <1>2, <2>1, <2>2, <2>3 DEF Heed, Advance
  <2>4. CASE answer = "revoked"
    <3>1. /\ Conclude("HopRevoked", at - 1) /\ chain[at] \in revoked
      BY <2>1, <2>4 DEF Heed
    <3>2. /\ outcome'.kind = "HopRevoked" /\ outcome'.hop = at - 1 /\ revoked' = revoked
      BY <3>1 DEF Conclude
    <3>3. outcome'.hop < Len(chain) /\ outcome'.hop + 1 = at
      BY <1>1, <2>2, <3>2
    <3>. QED BY <1>1, <3>1, <3>2, <3>3 DEF RevocationNamesTheLink, Returned
  <2>5. CASE answer = "no_answer"
    <3>1. /\ outcome'.kind = "RevocationIndeterminate" /\ outcome'.hop = at - 1
      BY <2>1, <2>5 DEF Heed, Conclude
    <3>2. outcome'.hop + 1 = at /\ Len(answers') = at /\ answers'[at] = "no_answer"
      BY <2>1, <2>2, <2>5, <3>1
    <3>. QED BY <3>1, <3>2 DEF RevocationNamesTheLink, Returned
  <2>. QED BY <2>1, <2>3, <2>4, <2>5
<1>. QED
  BY <1>2, <1>3, <1>5, <1>6, <1>7, <1>8
  DEF Next, CallNext, ParseTime, EnterStructure, Structure, EnterHops, PassHop,
      EnterRevocation, Go, Advance, Revoke, vars, authVars

\* The invariant is one.
LEMMA FullInvariance == Spec => []FullInv
<1>1. Init => Ranges /\ RevocationNamesTheLink
  <2> SUFFICES ASSUME Init PROVE Ranges /\ RevocationNamesTheLink
    OBVIOUS
  <2>1. Len(chain) \in Nat
    BY LinkAssumption DEF Init, StructureInit, Presentable
  <2>2. at \in 1..(Len(chain) + 1) /\ 0 \in 0..Len(chain)
    BY <2>1 DEF Init
  <2>3. Named
    BY DEF Init, StructureInit, Named
  <2>. QED BY <2>2, <2>3 DEF Init, Pending, Ranges, RevocationNamesTheLink, Returned
<1>2. FullInv /\ GrantInv' /\ [Next]_vars => FullInv'
  BY RangesKept, RevocationNamed DEF FullInv
<1>. QED BY <1>1, <1>2, GrantInvariance, PTL DEF Spec, FullInv

----------------------------------------------------------------------------
(* The results about the call as a whole *)

\* The types of the call's state.
THEOREM AuthTypeCorrect == Spec => []AuthTypeOK
<1>1. FullInv => AuthTypeOK
  BY DEF FullInv, GrantInv, Progress, AuthorizationInv, RevocationInv, IInv, Ranges, AuthTypeOK
<1>. QED BY <1>1, FullInvariance, PTL

\* An outcome that speaks of revocation, and a token, are given exactly to
\* the chains on which every other gate passes: whatever the chain, the
\* roots, the time and the entry point, nothing is turned away that should
\* get that far and nothing gets that far that should be turned away.
THEOREM RevocationComesLast == Spec => []RevocationIsTheLastGate
BY GrantInvariance, PTL DEF GrantInv, OutcomeRight

\* A hop that is refused is the first to deserve it: every hop above it is
\* linked to its neighbour and signed by the key it names.
THEOREM HopsRefuseRightly == Spec => []HopRefusalNamesFirst
<1>1. GrantInv => HopRefusalNamesFirst
  BY DEF GrantInv, OutcomeRight
<1>. QED BY <1>1, GrantInvariance, PTL

\* A hop is found inactive for the sake of its window only, never by the
\* depth check in doubles, which takes zero for what is not a number: the
\* strict walk before it has turned away every chain it could object to.
THEOREM DepthNeverDecides == Spec => []LenientDepthNeverDecides
<1>1. GrantInv => LenientDepthNeverDecides
  BY DEF GrantInv, OutcomeRight
<1>. QED BY <1>1, GrantInvariance, PTL

\* What is said of revocation is said of the link it is true of.
THEOREM RevocationNamesRightly == Spec => []RevocationNamesTheLink
BY FullInvariance, PTL DEF FullInv

\* What one canonical form pins down of a member: a null is as good as none, a
\* number is its double, and anything else is itself.
LEMMA OnePreimage ==
    ASSUME NEW signed \in Links \ {NotObject}, NEW link \in Links \ {NotObject},
           delegation_signature_preimage(signed) = delegation_signature_preimage(link),
           NEW key \in TextMembers \cup DepthMembers \cup {"spendLimit", "scope"}
    PROVE  LET Kept(value) == IF value = Null THEN Absent ELSE value
               Leaf(value) == IF key \in NumberMembers THEN to_double_view(value) ELSE value
           IN  Leaf(Kept(signed[key])) = Leaf(Kept(link[key]))
<1> DEFINE Kept(value) == IF value = Null THEN Absent ELSE value
           Leaf(value) == IF key \in NumberMembers THEN to_double_view(value) ELSE value
<1>1. ASSUME NEW l \in Links \ {NotObject}
      PROVE  delegation_signature_preimage(l)[key] = Leaf(Kept(l[key]))
  <2>1. key \in DOMAIN l /\ key # "signature"
    BY MemberAssumption DEF TextMembers, DepthMembers
  <2>2. without_nulls(l)[key] = Kept(l[key])
    BY <2>1 DEF without_nulls
  <2>3. DOMAIN canonicalize(l) = DOMAIN l /\ canonicalize(l)[key] = Leaf(Kept(l[key]))
    BY <2>1, <2>2 DEF canonicalize
  <2> HIDE DEF Leaf, Kept
  <2>. QED BY <2>1, <2>3 DEF delegation_signature_preimage
<1>2. delegation_signature_preimage(signed)[key] = Leaf(Kept(signed[key]))
  BY <1>1
<1>3. delegation_signature_preimage(link)[key] = Leaf(Kept(link[key]))
  BY <1>1
<1>. QED BY <1>2, <1>3

\* Number members that are signed alike are read alike as doubles, and are
\* stated, unstated or malformed together.
SameDouble(m, n) ==
    /\ as_f64(m) = as_f64(n)
    /\ m \in Number <=> n \in Number
    /\ m \in {Absent, Null} <=> n \in {Absent, Null}
    /\ m = Malformed <=> n = Malformed

LEMMA SignedAsDouble ==
    ASSUME NEW m \in NumberValue, NEW n \in NumberValue,
           to_double_view(IF m = Null THEN Absent ELSE m)
               = to_double_view(IF n = Null THEN Absent ELSE n)
    PROVE  SameDouble(m, n)
<1> DEFINE Shown(value) == to_double_view(IF value = Null THEN Absent ELSE value)
<1>1. ASSUME NEW value \in NumberValue
      PROVE  /\ value \in Number => /\ Shown(value) = AsF64[value] /\ AsF64[value] \in Int
                                    /\ value \notin {Absent, Null, Malformed}
             /\ value \in {Absent, Null} => Shown(value) = Absent /\ value # Malformed
             /\ value = Malformed => Shown(value) = Malformed
             /\ value \in Number \/ value \in {Absent, Null} \/ value = Malformed
  BY ShapeAssumption, ReadingAssumption DEF to_double_view, NumberValue
<1>2. Shown(m) = Shown(n)
  OBVIOUS
<1>3. Absent \notin Int /\ Malformed \notin Int /\ Absent # Malformed
  BY ShapeAssumption
<1> HIDE DEF Shown
<1>4. CASE m \in Number
  <2>1. n \in Number
    BY <1>1, <1>2, <1>3, <1>4
  <2>. QED BY <1>1, <1>2, <1>4, <2>1 DEF SameDouble, as_f64
<1>5. CASE m \in {Absent, Null}
  <2>1. n \in {Absent, Null}
    BY <1>1, <1>2, <1>3, <1>5
  <2>. QED BY <1>1, <1>5, <2>1 DEF SameDouble, as_f64
<1>6. CASE m = Malformed
  <2>1. n = Malformed
    BY <1>1, <1>2, <1>3, <1>6
  <2>. QED BY <1>6, <2>1 DEF SameDouble
<1>. QED BY <1>1, <1>4, <1>5, <1>6

\* Links with one preimage grant the same.
LEMMA OnePreimageGrantsAlike ==
    ASSUME NEW signed \in Links \ {NotObject}, NEW link \in Links \ {NotObject},
           delegation_signature_preimage(signed) = delegation_signature_preimage(link)
    PROVE  GrantsAlike(signed, link)
<1> DEFINE Kept(value) == IF value = Null THEN Absent ELSE value
<1>1. ASSUME NEW key \in TextMembers \cup {"scope"}
      PROVE  Kept(signed[key]) = Kept(link[key])
  <2>1. key \notin NumberMembers
    BY DEF NumberMembers, TextMembers
  <2>. QED BY <2>1, OnePreimage
<1>2. ASSUME NEW key \in DepthMembers \cup {"spendLimit"}
      PROVE  /\ to_double_view(Kept(signed[key])) = to_double_view(Kept(link[key]))
             /\ signed[key] \in NumberValue /\ link[key] \in NumberValue
  <2>1. key \in NumberMembers
    BY DEF NumberMembers, DepthMembers
  <2>2. to_double_view(Kept(signed[key])) = to_double_view(Kept(link[key]))
    BY <2>1, OnePreimage
  <2>. QED BY <2>2, LinkAssumption
<1>3. ASSUME NEW key \in DepthMembers \cup {"spendLimit"}
      PROVE  SameDouble(signed[key], link[key])
  BY <1>2, SignedAsDouble
<1>4. \A key \in TextMembers : text_of(signed, key) = text_of(link, key)
  <2>1. ASSUME NEW key \in TextMembers
        PROVE  text_of(signed, key) = text_of(link, key)
    <3>1. Kept(signed[key]) = Kept(link[key])
      BY <1>1
    <3>. QED BY <3>1, ShapeAssumption DEF text_of
  <2>. QED BY <2>1
<1>5. scopes_of(signed) = scopes_of(link)
  <2>1. Kept(signed.scope) = Kept(link.scope)
    BY <1>1
  <2>. QED BY <2>1 DEF scopes_of
<1>6. spend_limit_of(signed) = spend_limit_of(link)
  <2>1. ASSUME NEW l \in Links \ {NotObject}
        PROVE  /\ spend_limit_of(l) = IF l.spendLimit = Malformed THEN Err
                                      ELSE as_f64(l.spendLimit)
               /\ l.spendLimit \in NumberValue
    <3>1. l.spendLimit \in NumberValue
      BY LinkAssumption
    <3>. QED BY <3>1, ShapeAssumption DEF spend_limit_of, as_f64, NumberValue
  <2>2. SameDouble(signed.spendLimit, link.spendLimit)
    BY <1>3
  <2>. QED BY <2>1, <2>2 DEF SameDouble
<1>7. ASSUME NEW key \in DepthMembers
      PROVE  depth_of(signed, key) = None <=> depth_of(link, key) = None
  <2>1. ASSUME NEW l \in Links \ {NotObject}
        PROVE  depth_of(l, key) = None <=> l[key] \in {Absent, Null}
    <3>1. l[key] \in NumberValue
      BY LinkAssumption
    <3>2. CASE l[key] \in {Absent, Null}
      <4>1. l[key] \notin Number /\ l[key] \notin NegativeZeros /\ l[key] # Malformed
        BY <3>2, ShapeAssumption, ReadingAssumption
      <4>. QED BY <3>2, <4>1 DEF depth_of
    <3>3. CASE l[key] = Malformed
      <4>1. l[key] \notin Number /\ l[key] \notin NegativeZeros /\ l[key] \notin {Absent, Null}
        BY <3>3, ShapeAssumption, ReadingAssumption
      <4>. QED BY <3>3, <4>1, OptionAssumption DEF depth_of
    <3>4. CASE l[key] \in Number
      <4>1. l[key] \notin {Absent, Null, Malformed}
        BY <3>4, ShapeAssumption
      <4>2. 0 # None /\ Err # None
        BY OptionAssumption
      <4>. QED BY <3>4, <4>1, <4>2 DEF depth_of
    <3>. QED BY <3>1, <3>2, <3>3, <3>4 DEF NumberValue
  <2>2. SameDouble(signed[key], link[key])
    BY <1>3
  <2>. QED BY <2>1, <2>2 DEF SameDouble
<1>. QED BY <1>3, <1>4, <1>5, <1>6, <1>7 DEF GrantsAlike, SameDouble

\* Every token rests on an unbroken line of keys from a trusted root, and any
\* link one of these keys may have signed grants what the link presented does.
THEOREM TokenTracesToRoot == Spec => []AuthorityTracesToRoot
<1>1. ASSUME GrantInv, IInv, Returned({"Authorized"}) PROVE AuthorityTracesToRoot
  <2>1. Grantable
    BY <1>1 DEF GrantInv, OutcomeRight, RevocationIsTheLastGate, Returned
  <2>2. /\ Attenuates(chain) /\ Len(chain) \in Nat
        /\ \A i \in 1..Len(chain) : chain[i] \in Links
    BY <1>1, <2>1, ChainFacts DEF IInv, Grantable
  <2>3. ASSUME NEW i \in 1..Len(chain)
        PROVE  /\ chain[i].delegatedBy \in Text /\ chain[i].delegatedBy # ""
               /\ chain[i].signature.bytes.by = KeyHex[chain[i].delegatedBy].bytes
               /\ chain[i].signature.bytes.over = delegation_signature_preimage(chain[i])
    BY <2>1, <2>3, SignatureNames DEF Grantable
  <2>4. ASSUME NEW i \in 2..Len(chain)
        PROVE  chain[i].delegatedBy = chain[i - 1].delegatedTo
    <3>1. i \in 1..Len(chain) /\ i - 1 \in 1..Len(chain)
      BY <2>2
    <3>2. /\ WellTyped(chain[i]) /\ WellTyped(chain[i - 1])
          /\ chain[i] \in Links /\ chain[i - 1] \in Links
      BY <2>2, <3>1, LinkParts
    <3>3. text_of(chain[i], "delegatedBy") = text_of(chain[i - 1], "delegatedTo")
      BY <2>2, <2>4 DEF Attenuates, Linked
    <3>4. text_of(chain[i], "delegatedBy") = chain[i].delegatedBy
      BY <2>3, <3>1, <3>2, TextRead DEF TextMembers
    <3>5. text_of(chain[i - 1], "delegatedTo") # ""
      BY <2>3, <3>1, <3>3, <3>4
    <3>6. text_of(chain[i - 1], "delegatedTo") = chain[i - 1].delegatedTo
      BY <3>2, <3>5, TextRead DEF TextMembers
    <3>. QED BY <3>3, <3>4, <3>6
  <2>5. chain[1].delegatedBy \in call.roots
    BY <2>1 DEF Grantable
  <2> DEFINE Signer(i) == IF i = 1 THEN chain[1].delegatedBy ELSE chain[i - 1].delegatedTo
  <2>6. ASSUME NEW i \in 1..Len(chain)
        PROVE  Signer(i) = chain[i].delegatedBy
    <3>1. CASE i = 1
      BY <3>1
    <3>2. CASE i # 1
      <4>1. i \in 2..Len(chain)
        BY <2>2, <3>2
      <4>. QED BY <2>4, <3>2, <4>1
    <3>. QED BY <3>1, <3>2
  <2>7. \A i \in 1..Len(chain) :
           /\ chain[i].signature.bytes.by = KeyHex[Signer(i)].bytes
           /\ chain[i].signature.bytes.over = delegation_signature_preimage(chain[i])
    BY <2>3, <2>6, Zenon
  <2>8. \A i \in 1..Len(chain) : \A signed \in Links \ {NotObject} :
           chain[i].signature.bytes.over = delegation_signature_preimage(signed)
              => GrantsAlike(signed, chain[i])
    <3>1. ASSUME NEW i \in 1..Len(chain), NEW signed \in Links \ {NotObject},
                 chain[i].signature.bytes.over = delegation_signature_preimage(signed)
          PROVE  GrantsAlike(signed, chain[i])
      <4>1. chain[i] \in Links \ {NotObject}
        BY <2>1, <2>2, <3>1, SignatureNames DEF Grantable
      <4>2. delegation_signature_preimage(signed) = delegation_signature_preimage(chain[i])
        BY <2>3, <3>1
      <4>. QED BY <4>1, <4>2, OnePreimageGrantsAlike
    <3>. QED BY <3>1
  <2>. QED BY <2>5, <2>7, <2>8, Zenon DEF AuthorityTracesToRoot
<1>2. GrantInv => AuthorityTracesToRoot
  BY <1>1 DEF GrantInv, DecisionInv, AuthorityTracesToRoot
<1>. QED BY <1>2, GrantInvariance, PTL
=============================================================================
