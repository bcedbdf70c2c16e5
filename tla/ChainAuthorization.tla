------------------------- MODULE ChainAuthorization -------------------------
(***************************************************************************)
(* verify_chain_authorization and                                          *)
(* verify_chain_authorization_with_revocation (delegation.rs): one call of *)
(* either, with the structural call of DelegationChain made inside it, in  *)
(* an environment that revokes links while the call runs.                  *)
(*                                                                         *)
(*   time        the evaluation time is parsed                             *)
(*   root        the chain's first delegator must be a trusted root        *)
(*   structure   verify_chain_structure runs, step by step                 *)
(*   hops        every link's signature and status is checked              *)
(*   revocation  with_revocation only: the resolver is asked, link by link *)
(*   returned    an outcome is out                                         *)
(*                                                                         *)
(* The resolver is the caller's function.  It is modelled by what the code *)
(* says of it: it answers whether a link is revoked now, or cannot answer. *)
(***************************************************************************)
EXTENDS DelegationChain, Crypto

CONSTANTS
    Times,      \* the texts a call may be given as evaluation time
    Roots       \* the lists of trusted roots a call may be given, as sets

ASSUME CallAssumption == Times \subseteq Text /\ Roots \subseteq SUBSET Text

VARIABLES
    call,           \* the arguments besides the chain
    stage,          \* where the call is, see above
    at,             \* the link under check, from 1, in the last two loops
    outcome,        \* the result, Pending until there is one
    answers,        \* what the resolver answered so far, in order
    revoked,        \* the links revoked so far, wherever that is recorded
    revokedAtStart  \* the links revoked before the call began

authVars == <<call, stage, at, outcome, answers, revoked, revokedAtStart>>
vars == <<structureVars, authVars>>

AuthorizationErrors ==
    StructureErrors \cup {"TimestampError", "UntrustedRoot", "InvalidSignature",
                          "HopInactive", "HopRevoked", "RevocationIndeterminate"}

----------------------------------------------------------------------------
(* One link on its own *)

\* str_field: anything but a string reads as the empty one.
str_field(link, key) ==
    IF link = NotObject \/ link[key] \in {Absent, Null, Malformed}
    THEN "" ELSE link[key]

verify_delegation_signature(link) ==
    /\ link # NotObject
    /\ link.signature \notin {Absent, Null, Malformed}
    /\ link.delegatedBy \in Text
    /\ verify_ed25519(delegation_signature_preimage(link), link.signature,
                      link.delegatedBy)

\* A missing expiry never expires.
WindowErrors_m(link, now) ==
    {error \in {"Expired", "InvalidNotBefore", "NotYetValid"} :
        CASE error = "Expired" -> Exceeds(now, read_ms(link.expiresAt))
          [] error = "InvalidNotBefore" ->
                link.notBefore \in Text /\ parse_ms(link.notBefore) = Err
          [] error = "NotYetValid" -> Exceeds(read_ms(link.notBefore), now)}

\* The lifetime errors of verify_delegation, at instant now.  Here, unlike in
\* the walk, a member that is a string is always parsed, the empty one too,
\* and a member that is none is no error for notBefore.
WindowErrors(link, now) ==
    {error \in {"InvalidExpiry", "Expired", "InvalidNotBefore", "NotYetValid"} :
        CASE error = "InvalidExpiry" -> read_ms(link.expiresAt) = Err
          [] error = "Expired" -> Exceeds(now, read_ms(link.expiresAt))
          [] error = "InvalidNotBefore" ->
                link.notBefore \in Text /\ parse_ms(link.notBefore) = Err
          [] error = "NotYetValid" -> Exceeds(read_ms(link.notBefore), now)}

\* The depth bound of verify_delegation: both depths as doubles, when both are
\* numbers at all.
DepthExceeded(link) ==
    Exceeds(as_f64(link.currentDepth), as_f64(link.maxDepth))

\* verify_delegation: the errors of its status.
verify_delegation(link, now) ==
    IF link = NotObject THEN {"NotAnObject"}
    ELSE WindowErrors(link, now)
         \cup (IF verify_delegation_signature(link) THEN {} ELSE {"InvalidSignature"})
         \cup (IF DepthExceeded(link) THEN {"DepthExceeded"} ELSE {})

----------------------------------------------------------------------------
(* The call *)

Calls == [entry : {"plain", "with_revocation"}, time : Times, roots : Roots]

now_ms == parse_ms(call.time)

TrustedRoot(c, roots) == str_field(c[1], "delegatedBy") \in roots \ {""}

\* The link's number instead of its zero-based hop.
Conclude_m(kind, index) ==
    /\ outcome' = [kind |-> kind, hop |-> index + 1]
    /\ stage' = "returned"
    /\ UNCHANGED <<structureVars, call, at, revoked, revokedAtStart>>

\* The call ends with this outcome.
Conclude(kind, index) ==
    /\ outcome' = [kind |-> kind, hop |-> index]
    /\ stage' = "returned"
    /\ UNCHANGED <<structureVars, call, at, revoked, revokedAtStart>>

Return(kind, index) == Conclude(kind, index) /\ UNCHANGED answers

Go(next) ==
    /\ stage' = next
    /\ at' = 1
    /\ UNCHANGED <<structureVars, call, outcome, answers, revoked, revokedAtStart>>

\* The next link is the same.
Advance_m ==
    UNCHANGED <<structureVars, call, stage, at, outcome, revoked, revokedAtStart>>

Advance ==
    /\ at' = at + 1
    /\ UNCHANGED <<structureVars, call, stage, outcome, revoked, revokedAtStart>>

Init ==
    /\ StructureInit
    /\ call \in Calls
    /\ stage = "time"
    /\ at = 1
    /\ outcome = Pending
    /\ answers = << >>
    /\ revoked \in SUBSET {chain[i] : i \in 1..Len(chain)}
    /\ revokedAtStart = revoked

RefuseTime == stage = "time" /\ now_ms = Err /\ Return("TimestampError", 0)

ParseTime == stage = "time" /\ now_ms # Err /\ Go("root")

RefuseEmptyCall == stage = "root" /\ chain = << >> /\ Return("EmptyChain", 0)

RefuseRootDelegator ==
    /\ stage = "root" /\ chain # << >>
    /\ ~TrustedRoot(chain, call.roots)
    /\ Return("UntrustedRoot", 0)

EnterStructure ==
    /\ stage = "root" /\ chain # << >>
    /\ TrustedRoot(chain, call.roots)
    /\ Go("structure")

Structure ==
    /\ stage = "structure"
    /\ StructureNext
    /\ UNCHANGED authVars

RefuseStructure ==
    /\ stage = "structure" /\ verdict \notin {Pending, Accepted}
    /\ Return(verdict.kind, verdict.hop)

EnterHops == stage = "structure" /\ verdict = Accepted /\ Go("hops")

PassHop ==
    /\ stage = "hops" /\ at <= Len(chain)
    /\ verify_delegation_signature(chain[at])
    /\ verify_delegation(chain[at], now_ms) = {}
    /\ Advance /\ UNCHANGED answers

RefuseSignature ==
    /\ stage = "hops" /\ at <= Len(chain)
    /\ ~verify_delegation_signature(chain[at])
    /\ Return("InvalidSignature", at - 1)

\* Activity is looked at first.
RefuseInactive_m ==
    /\ stage = "hops" /\ at <= Len(chain)
    /\ verify_delegation(chain[at], now_ms) # {}
    /\ Return("HopInactive", at - 1)

RefuseInactive ==
    /\ stage = "hops" /\ at <= Len(chain)
    /\ verify_delegation_signature(chain[at])
    /\ verify_delegation(chain[at], now_ms) # {}
    /\ Return("HopInactive", at - 1)

\* Without a resolver the last word is that revocation is not known.
ReturnIndeterminate ==
    /\ stage = "hops" /\ at > Len(chain) /\ call.entry = "plain"
    /\ Return("RevocationIndeterminate", 0)

EnterRevocation ==
    /\ stage = "hops" /\ at > Len(chain) /\ call.entry = "with_revocation"
    /\ Go("revocation")

\* A resolver that cannot answer is taken to say "not revoked".
Heed_m(answer) ==
    IF answer # "revoked" THEN Advance
    ELSE Conclude("HopRevoked", at - 1)

\* The match on the resolver's answer about the link at hand.
Heed(answer) ==
    CASE answer = "not_revoked" -> Advance
      [] answer = "revoked" -> Conclude("HopRevoked", at - 1)
      [] answer = "no_answer" -> Conclude("RevocationIndeterminate", at - 1)

\* revocation(link) is Some(true), Some(false) or None.
AskResolver ==
    /\ stage = "revocation" /\ at <= Len(chain)
    /\ \E answer \in {IF chain[at] \in revoked THEN "revoked" ELSE "not_revoked",
                      "no_answer"} :
          /\ answers' = Append(answers, answer)
          /\ Heed(answer)

Authorize ==
    /\ stage = "revocation" /\ at > Len(chain)
    /\ Return("Authorized", Len(chain))

CallNext ==
    \/ RefuseTime \/ ParseTime
    \/ RefuseEmptyCall \/ RefuseRootDelegator \/ EnterStructure
    \/ Structure \/ RefuseStructure \/ EnterHops
    \/ PassHop \/ RefuseSignature \/ RefuseInactive
    \/ ReturnIndeterminate \/ EnterRevocation
    \/ AskResolver \/ Authorize

\* Somebody revokes a link of this chain, at any time.
Revoke ==
    /\ \E i \in 1..Len(chain) :
          /\ chain[i] \notin revoked
          /\ revoked' = revoked \cup {chain[i]}
    /\ UNCHANGED <<structureVars, call, stage, at, outcome, answers, revokedAtStart>>

Next == CallNext \/ Revoke

\* The call runs on; nobody has to revoke anything.
Spec == Init /\ [][Next]_vars /\ WF_vars(CallNext)

----------------------------------------------------------------------------
(* Properties *)

Returned(kinds) == stage = "returned" /\ outcome.kind \in kinds

\* The type invariant.
AuthTypeOK ==
    /\ TypeOK
    /\ call \in Calls
    /\ stage \in {"time", "root", "structure", "hops", "revocation", "returned"}
    /\ at \in 1..(Len(chain) + 1)
    /\ outcome \in [kind : AuthorizationErrors \cup {"Pending", "Authorized"},
                    hop : 0..Len(chain)]
    /\ answers \in Seq({"revoked", "not_revoked", "no_answer"})
    /\ revokedAtStart \subseteq revoked
    /\ revoked \subseteq {chain[i] : i \in 1..Len(chain)}

\* The two links grant the same in every text, scope and limit.  Depths agree
\* as doubles only, although the walk reads them exactly.
GrantsAlike(signed, link) ==
    /\ \A key \in TextMembers : text_of(signed, key) = text_of(link, key)
    /\ scopes_of(signed) = scopes_of(link)
    /\ spend_limit_of(signed) = spend_limit_of(link)
    /\ \A key \in DepthMembers :
          /\ depth_of(signed, key) = None <=> depth_of(link, key) = None
          /\ as_f64(signed[key]) = as_f64(link[key])

\* A token rests on an unbroken line of keys: the first link is signed by a
\* trusted root, every other by the principal the link above delegates to.
\* Each signature is over the canonical form of the link.  So whoever carried
\* it may have added or dropped nulls, respelled its numbers and moved a depth
\* within one double, and nothing else: whichever link the key signed grants
\* what this one does.
AuthorityTracesToRoot ==
    Returned({"Authorized"}) =>
        /\ chain[1].delegatedBy \in call.roots
        /\ \A i \in 1..Len(chain) :
              LET signer == IF i = 1 THEN chain[1].delegatedBy
                                     ELSE chain[i - 1].delegatedTo
                  over == chain[i].signature.bytes.over
              IN  /\ chain[i].signature.bytes.by = KeyHex[signer].bytes
                  /\ over = delegation_signature_preimage(chain[i])
                  /\ \A signed \in Links \ {NotObject} :
                        over = delegation_signature_preimage(signed)
                            => GrantsAlike(signed, chain[i])

\* now lies in the window of every link of c, both ends included.
InForce(c, now) ==
    \A i \in 1..Len(c) :
        /\ expiry_of(c[i]) \notin {None, Err} /\ now <= expiry_of(c[i])
        /\ not_before_of(c[i]) # None => not_before_of(c[i]) <= now

\* Everything but revocation, of the chain as a whole.  A notBefore that is
\* the empty text is no bound to the walk but unreadable on the link itself.
Grantable ==
    /\ now_ms # Err
    /\ Attenuates(chain)
    /\ chain[1].delegatedBy \in call.roots \ {""}
    /\ \A i \in 1..Len(chain) :
          verify_delegation_signature(chain[i]) /\ chain[i].notBefore # ""
    /\ InForce(chain, now_ms)

\* "On the path where every other gate passes it reports
\* RevocationIndeterminate" (verify_chain_authorization): an outcome that
\* speaks of revocation, and a token, mean that everything else is in order,
\* and every other outcome that it is not.
RevocationIsTheLastGate ==
    stage = "returned" =>
        (Grantable <=> outcome.kind \in {"RevocationIndeterminate", "HopRevoked",
                                         "Authorized"})

\* A token means that each link was vouched for, and no link of it was
\* already revoked when the call began, whatever is revoked meanwhile and
\* whatever the resolver could not answer.
NoTokenForRevokedChain ==
    Returned({"Authorized"}) =>
        /\ outcome.hop = Len(chain) /\ Len(answers) = Len(chain)
        /\ \A i \in 1..Len(chain) :
              answers[i] = "not_revoked" /\ chain[i] \notin revokedAtStart

\* A link reported as revoked is, and one whose state is reported unknown by
\* the call with a resolver was asked about in vain.
RevocationNamesTheLink ==
    /\ Returned({"HopRevoked"}) =>
          outcome.hop < Len(chain) /\ chain[outcome.hop + 1] \in revoked
    /\ Returned({"RevocationIndeterminate"}) /\ call.entry = "with_revocation"
          => /\ Len(answers) = outcome.hop + 1
             /\ answers[outcome.hop + 1] = "no_answer"

\* "None of this can widen authority" (verify_delegation): its lenient
\* reading of depths decides nothing here, a link is only found inactive for
\* the sake of its window.
LenientDepthNeverDecides ==
    Returned({"HopInactive"}) =>
        WindowErrors(chain[outcome.hop + 1], now_ms) # {}

\* A hop that is refused is the first to deserve it, on a chain that does
\* attenuate from a trusted root.
HopRefusalNamesFirst ==
    Returned({"InvalidSignature", "HopInactive"}) =>
        /\ Attenuates(chain) /\ TrustedRoot(chain, call.roots)
        /\ \A i \in 1..outcome.hop :
              /\ verify_delegation_signature(chain[i])
              /\ WindowErrors(chain[i], now_ms) = {}
        /\ verify_delegation_signature(chain[outcome.hop + 1])
              <=> outcome.kind = "HopInactive"

\* Every call returns: no chain, no environment and no silence of the
\* resolver keeps it from an outcome.
CallReturns == <>(stage = "returned")

----------------------------------------------------------------------------
(* Statements of the documentation that the code does not meet *)

\* "verify_chain_authorization returns a ChainAuthorization value"
\* (README.md:56): the plain call can end with a token.
PlainCallReturnsToken ==
    stage = "returned" /\ call.entry = "plain" /\ Grantable
        => outcome.kind = "Authorized"

\* "Signature verification follows RFC 8032 ... This crate does not reject
\* that key class" (README.md:76-80): a signature that satisfies the
\* equation is not refused for its key.
LowOrderKeyNotRejected ==
    Returned({"InvalidSignature"}) =>
        LET link == chain[outcome.hop + 1]
        IN  link.signature \notin {Absent, Null, Malformed} =>
                ~Equation(delegation_signature_preimage(link),
                          link.signature.bytes, KeyHex[link.delegatedBy].bytes)
=============================================================================
