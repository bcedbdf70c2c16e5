--------------------------- MODULE PassportProofs ---------------------------
(***************************************************************************)
(* Proofs about Passport, for every envelope, options and key.             *)
(*                                                                         *)
(* PassportInv says, for each check the call has reached, what the errors  *)
(* are by then: the union of what the checks before it find, which is why  *)
(* none hides another.  It also remembers that the envelope is open and    *)
(* what the caller's opt-in has left behind.  What a valid result stands   *)
(* for follows from what the single checks find.                           *)
(*                                                                         *)
(* EdgesInv adds that past the options both edges of the window are sums   *)
(* within i64, and AnswerRight what a valid result is worth: it is what    *)
(* Deserves says.  That Deserves looks through null members is shown of    *)
(* the envelope alone, in ErasedDeserves.                                  *)
(***************************************************************************)
EXTENDS Passport, TLAPS

OptedIn == options.trusted_issuers = {} /\ options.allow_self_signed

SignatureErrors == IF AgentSigned(signed) THEN {} ELSE {"InvalidSignature"}
FirstErrors == SignatureErrors \cup AuthorityErrors(signed, options)
MoreErrors == FirstErrors \cup PassportWindowErrors(signed.passport)
AllErrors == MoreErrors \cup FieldErrors(signed.passport)

OptInNoted(flag, warned) ==
    /\ flag = OptedIn
    /\ OptedIn => "NoTrustedIssuers" \in warned

PassportInv ==
    /\ PassportTypeOK
    /\ pc \in {"options", "envelope", "signature"} => errors = {}
    /\ pc \in {"signature", "authority", "window", "fields", "delegations"}
          => ~MalformedEnvelope(signed)
    /\ pc = "authority" => errors = SignatureErrors
    /\ pc = "window" => errors = FirstErrors
    /\ pc = "fields" => errors = MoreErrors
    /\ pc = "delegations" => errors = AllErrors
    /\ pc \in {"window", "fields", "delegations"}
          => OptInNoted(self_signed_accepted, warnings)
    /\ Verified =>
          /\ MalformedEnvelope(signed) => result.errors # {} /\ ~result.valid
          /\ ~MalformedEnvelope(signed) =>
                /\ result.errors = AllErrors
                /\ result.valid = (AllErrors = {})
                /\ result.issuer_trust_checked = (options.trusted_issuers # {})
          /\ result.self_signed_accepted <=> OptedIn /\ result.valid
          /\ OptedIn /\ result.valid => "NoTrustedIssuers" \in result.warnings

----------------------------------------------------------------------------
(* What the checks find *)

\* Each check finds errors and warnings of its own.
LEMMA FindingsTyped ==
    /\ SignatureErrors \subseteq {"InvalidSignature"}
    /\ AuthorityErrors(signed, options)
          \subseteq {"AuthorityNotEstablished", "NoIssuerCountersignature",
                     "UntrustedIssuer", "InvalidIssuerCountersignature"}
    /\ \A passport :
          /\ PassportWindowErrors(passport)
                \subseteq {"InvalidExpiry", "Expired", "InvalidNotBefore", "NotYetValid"}
          /\ FieldErrors(passport) \subseteq {"MissingAgentId", "MissingPublicKey"}
          /\ FieldWarnings(passport) \subseteq {"NoVersion", "NoCapabilities"}
    /\ \A delegation :
          DelegationWarnings(delegation)
                \subseteq {"DelegationInvalidExpiry", "DelegationExpired",
                           "DelegationSpendExhausted"}
<1>1. SignatureErrors \subseteq {"InvalidSignature"}
  BY DEF SignatureErrors
<1>2. AuthorityErrors(signed, options)
          \subseteq {"AuthorityNotEstablished", "NoIssuerCountersignature",
                     "UntrustedIssuer", "InvalidIssuerCountersignature"}
  BY DEF AuthorityErrors
<1>3. \A passport :
          /\ PassportWindowErrors(passport)
                \subseteq {"InvalidExpiry", "Expired", "InvalidNotBefore", "NotYetValid"}
          /\ FieldErrors(passport) \subseteq {"MissingAgentId", "MissingPublicKey"}
          /\ FieldWarnings(passport) \subseteq {"NoVersion", "NoCapabilities"}
  BY DEF PassportWindowErrors, FieldErrors, FieldWarnings
<1>4. \A delegation :
          DelegationWarnings(delegation)
                \subseteq {"DelegationInvalidExpiry", "DelegationExpired",
                           "DelegationSpendExhausted"}
  BY DEF DelegationWarnings
<1>. QED BY <1>1, <1>2, <1>3, <1>4

\* The authority step finds nothing exactly when the stand-alone check would
\* succeed for some trusted issuer.
LEMMA AuthorityFindsNothing ==
    ASSUME options \in Options, options.trusted_issuers # {}, ~MalformedEnvelope(signed)
    PROVE  AuthorityErrors(signed, options) = {}
              <=> \E issuer \in options.trusted_issuers :
                     verify_issuer_signature(signed, issuer)
<1> DEFINE countersignature == signed.issuerSignature
           key == countersignature.issuerPublicKey
           countersigned ==
              ~(countersignature \in {Absent, Null, Malformed}
                \/ Unsignable(countersignature.signature) \/ Blank(key))
           verified == verify_ed25519(issuer_signature_preimage(signed),
                                      countersignature.signature, key)
<1>1. AuthorityErrors(signed, options) = {}
          <=> countersigned /\ key \in options.trusted_issuers /\ verified
  <2>1. CASE ~countersigned
    BY <2>1 DEF AuthorityErrors
  <2>2. CASE countersigned
    <3>1. AuthorityErrors(signed, options) =
             CASE key \notin options.trusted_issuers -> {"UntrustedIssuer"}
               [] key \in options.trusted_issuers /\ verified -> {}
               [] OTHER -> {"InvalidIssuerCountersignature"}
      BY <2>2 DEF AuthorityErrors
    <3>2. CASE key \notin options.trusted_issuers
      BY <2>2, <3>1, <3>2
    <3>3. CASE key \in options.trusted_issuers
      BY <2>2, <3>1, <3>3
    <3>. QED BY <3>2, <3>3
  <2>. QED BY <2>1, <2>2
<1>2. ASSUME NEW issuer \in options.trusted_issuers,
             verify_issuer_signature(signed, issuer)
      PROVE  countersigned /\ key \in options.trusted_issuers /\ verified
  <2>1. /\ countersignature \notin {Absent, Null, Malformed}
        /\ key = issuer /\ verified
        /\ countersignature.signature \notin {Absent, Null, Malformed}
    BY <1>2 DEF verify_issuer_signature
  <2>2. countersignature.signature.chars = 128 /\ KeyHex[key].chars = 64
    BY <2>1 DEF verify_ed25519
  <2>3. key \in Text /\ key # ""
    <3>1. options.trusted_issuers \subseteq Text
      BY OptionsAssumption
    <3>2. KeyHex[key].chars # KeyHex[""].chars
      BY <2>2, EmptyKeyAssumption
    <3>3. key # ""
      BY <3>2
    <3>. QED BY <1>2, <2>1, <3>1, <3>3
  <2>4. ~Blank(key)
    BY <2>3, ShapeAssumption DEF Blank
  <2>5. ~Unsignable(countersignature.signature)
    BY <2>1, <2>2 DEF Unsignable
  <2>. QED BY <2>1, <2>4, <2>5
<1>3. ASSUME countersigned, key \in options.trusted_issuers, verified
      PROVE  verify_issuer_signature(signed, key)
  <2>1. signed # NotObject
    BY DEF MalformedEnvelope
  <2>. QED BY <1>3, <2>1 DEF verify_issuer_signature, Unsignable
<1>. QED BY <1>1, <1>2, <1>3

----------------------------------------------------------------------------
(* The call *)

LEMMA InitEstablishes == PassportInit => PassportInv
<1> SUFFICES ASSUME PassportInit PROVE PassportInv
  OBVIOUS
<1>1. result.kind = "Pending" /\ ~Verified
  BY DEF PassportInit, Pending, Verified
<1>2. /\ options \in Options /\ pc = "options" /\ result = Pending
      /\ at = 1 /\ errors = {} /\ warnings = {} /\ self_signed_accepted = FALSE
  BY Zenon DEF PassportInit
<1>3. PassportTypeOK
  <2>1. self_signed_accepted \in BOOLEAN
    BY <1>2, Zenon
  <2>2. at \in Nat \ {0}
    BY <1>2
  <2>3. pc = "done" <=> result # Pending
    BY <1>2
  <2>. QED BY <1>1, <1>2, <2>1, <2>2, <2>3 DEF PassportTypeOK
<1>. QED BY <1>1, <1>2, <1>3 DEF PassportInv

\* A check that finds what it should find keeps the types.
LEMMA FindTyped ==
    ASSUME PassportInv, result = Pending,
           NEW found \in SUBSET PassportErrors, NEW warned \in SUBSET PassportWarnings,
           NEW next \in {"envelope", "signature", "authority", "window", "fields",
                         "delegations"},
           Find(found, warned, next),
           at' \in Nat \ {0}, self_signed_accepted' \in BOOLEAN
    PROVE  PassportTypeOK' /\ ~Verified'
<1>1. errors' = errors \cup found /\ warnings' = warnings \cup warned /\ pc' = next
  BY DEF Find
<1>2. UNCHANGED <<options, result>>
  BY DEF Find
<1>3. result.kind = "Pending"
  BY DEF Pending
<1>. QED BY <1>1, <1>2, <1>3 DEF PassportInv, PassportTypeOK, Verified

\* An answer without a verification says nothing about the passport.
LEMMA RefusalTyped ==
    ASSUME PassportInv, NEW kind \in {"InvalidEvaluationTime", "SkewArithmetic"},
           Return([kind |-> kind])
    PROVE  PassportInv'
<1>1. result' = [kind |-> kind] /\ pc' = "done"
  BY DEF Return
<1>2. result'.kind = kind /\ result' # Pending /\ ~Verified'
  BY <1>1 DEF Pending, Verified
<1>3. UNCHANGED <<options, at, errors, warnings, self_signed_accepted>>
  BY DEF Return
<1>4. PassportTypeOK'
  BY <1>1, <1>2, <1>3 DEF PassportInv, PassportTypeOK
<1>. QED BY <1>1, <1>2, <1>4 DEF PassportInv

\* A verification.
LEMMA VerificationTyped ==
    ASSUME PassportInv, NEW valid, NEW found, NEW checked_issuers, NEW self_signed,
           Return(Verification(valid, found, checked_issuers, self_signed))
    PROVE  /\ PassportTypeOK' /\ pc' = "done" /\ UNCHANGED <<signed, options>>
           /\ result'.valid = valid /\ result'.errors = found
           /\ result'.warnings = warnings
           /\ result'.issuer_trust_checked = checked_issuers
           /\ result'.self_signed_accepted = self_signed
<1>1. result' = [kind |-> "Verification", valid |-> valid, errors |-> found,
                 warnings |-> warnings, issuer_trust_checked |-> checked_issuers,
                 self_signed_accepted |-> self_signed]
  BY DEF Return, Verification
<1>2. pc' = "done" /\ UNCHANGED <<signed, options, at, errors, warnings, self_signed_accepted>>
  BY DEF Return
<1>3. result'.kind = "Verification"
  BY <1>1
<1>4. result' # Pending
  BY <1>3 DEF Pending
<1>5. PassportTypeOK'
  BY <1>2, <1>3, <1>4 DEF PassportInv, PassportTypeOK
<1>. QED BY <1>1, <1>2, <1>5

LEMMA StepKeeps == PassportInv /\ [PassportNext]_passportVars => PassportInv'
<1> SUFFICES ASSUME PassportInv, [PassportNext]_passportVars PROVE PassportInv'
  OBVIOUS
<1>typed. /\ pc # "done" => result = Pending
          /\ at \in Nat \ {0} /\ self_signed_accepted \in BOOLEAN
  BY DEF PassportInv, PassportTypeOK
<1>same. ASSUME UNCHANGED <<signed, options>>
         PROVE  /\ OptedIn' = OptedIn /\ SignatureErrors' = SignatureErrors
                /\ FirstErrors' = FirstErrors /\ MoreErrors' = MoreErrors
                /\ AllErrors' = AllErrors
                /\ MalformedEnvelope(signed)' = MalformedEnvelope(signed)
  <2>1. OptedIn' = OptedIn /\ SignatureErrors' = SignatureErrors
    BY <1>same DEF OptedIn, SignatureErrors
  <2>2. FirstErrors' = FirstErrors
    BY <1>same, <2>1 DEF FirstErrors
  <2>3. MoreErrors' = MoreErrors
    BY <1>same, <2>2 DEF MoreErrors, PassportWindowErrors, expiry_floor,
       not_before_ceiling, now_ms, skew
  <2>4. AllErrors' = AllErrors
    BY <1>same, <2>3 DEF AllErrors
  <2>. QED BY <1>same, <2>1, <2>2, <2>3, <2>4
<1>0. CASE UNCHANGED passportVars
  <2>1. UNCHANGED <<signed, options, pc, at, errors, warnings, self_signed_accepted, result>>
    BY <1>0 DEF passportVars
  <2>2. PassportTypeOK' /\ Verified' = Verified
    BY <2>1 DEF PassportInv, PassportTypeOK, Verified
  <2>3. OptInNoted(self_signed_accepted, warnings)' = OptInNoted(self_signed_accepted, warnings)
    BY <2>1, <1>same DEF OptInNoted
  <2>. QED BY <2>1, <2>2, <2>3, <1>same DEF PassportInv
<1>1. CASE RefuseTime
  BY <1>1, RefusalTyped DEF RefuseTime
<1>2. CASE RefuseSkew
  BY <1>2, RefusalTyped DEF RefuseSkew
<1>3. CASE ApplyOptions
  <2>1. /\ pc = "options" /\ Find({}, {}, "envelope") /\ pc' = "envelope"
        /\ errors' = errors /\ UNCHANGED <<at, self_signed_accepted>>
    BY <1>3 DEF ApplyOptions, Find
  <2>2. PassportTypeOK' /\ ~Verified'
    BY <2>1, <1>typed, FindTyped
  <2>. QED BY <2>1, <2>2 DEF PassportInv
<1>4. CASE RefuseEnvelope
  <2> DEFINE missing == {"MissingPassportOrSignature"}
  <2>1. MalformedEnvelope(signed) /\ Return(Verification(FALSE, missing, FALSE, FALSE))
    BY <1>4 DEF RefuseEnvelope
  <2>2. /\ PassportTypeOK' /\ pc' = "done" /\ UNCHANGED <<signed, options>>
        /\ result'.valid = FALSE /\ result'.errors = missing
        /\ result'.self_signed_accepted = FALSE
    BY <2>1, VerificationTyped
  <2>. QED BY <2>1, <2>2, <1>same DEF PassportInv
<1>5. CASE OpenEnvelope
  <2>1. /\ pc = "envelope" /\ Find({}, {}, "signature") /\ pc' = "signature"
        /\ ~MalformedEnvelope(signed)
        /\ errors' = errors /\ UNCHANGED <<at, self_signed_accepted, signed, options>>
    BY <1>5 DEF OpenEnvelope, Find
  <2>2. PassportTypeOK' /\ ~Verified'
    BY <2>1, <1>typed, FindTyped
  <2>. QED BY <2>1, <2>2, <1>same DEF PassportInv
<1>6. CASE CheckSignature
  <2>1. /\ pc = "signature" /\ Find(SignatureErrors, {}, "authority") /\ pc' = "authority"
        /\ errors' = errors \cup SignatureErrors
        /\ UNCHANGED <<at, self_signed_accepted, signed, options>>
    BY <1>6 DEF CheckSignature, Find, SignatureErrors
  <2>2. SignatureErrors \in SUBSET PassportErrors
    BY FindingsTyped DEF PassportErrors
  <2>3. PassportTypeOK' /\ ~Verified'
    BY <2>1, <2>2, <1>typed, FindTyped
  <2>. QED BY <2>1, <2>3, <1>same DEF PassportInv
<1>7. CASE CheckAuthority
  <2> DEFINE found == AuthorityErrors(signed, options)
             warned == IF OptedIn THEN {"NoTrustedIssuers"} ELSE {}
  <2>1. /\ pc = "authority" /\ Find(found, warned, "window") /\ pc' = "window"
        /\ errors' = errors \cup found /\ warnings' = warnings \cup warned
        /\ self_signed_accepted' = OptedIn /\ UNCHANGED <<at, signed, options>>
    BY <1>7 DEF CheckAuthority, Find, OptedIn
  <2>2. found \in SUBSET PassportErrors /\ warned \in SUBSET PassportWarnings
    BY FindingsTyped DEF PassportErrors, PassportWarnings
  <2>3. OptedIn \in BOOLEAN
    BY DEF OptedIn
  <2>4. PassportTypeOK' /\ ~Verified'
    BY <2>1, <2>2, <2>3, <1>typed, FindTyped
  <2>5. errors' = FirstErrors
    BY <2>1 DEF PassportInv, FirstErrors
  <2>6. OptInNoted(self_signed_accepted, warnings)'
    BY <2>1, <1>same DEF OptInNoted
  <2>. QED BY <2>1, <2>4, <2>5, <2>6, <1>same DEF PassportInv
<1>8. CASE CheckWindow
  <2> DEFINE found == PassportWindowErrors(signed.passport)
  <2>1. /\ pc = "window" /\ Find(found, {}, "fields") /\ pc' = "fields"
        /\ errors' = errors \cup found /\ warnings' = warnings
        /\ UNCHANGED <<at, self_signed_accepted, signed, options>>
    BY <1>8 DEF CheckWindow, Find
  <2>2. found \in SUBSET PassportErrors
    BY FindingsTyped DEF PassportErrors
  <2>3. PassportTypeOK' /\ ~Verified'
    BY <2>1, <2>2, <1>typed, FindTyped
  <2>4. errors' = MoreErrors
    BY <2>1 DEF PassportInv, MoreErrors
  <2>5. OptInNoted(self_signed_accepted, warnings)'
    BY <2>1, <1>same DEF PassportInv, OptInNoted
  <2>. QED BY <2>1, <2>3, <2>4, <2>5, <1>same DEF PassportInv
<1>9. CASE CheckFields
  <2> DEFINE found == FieldErrors(signed.passport)
             warned == FieldWarnings(signed.passport)
  <2>1. /\ pc = "fields" /\ Find(found, warned, "delegations") /\ pc' = "delegations"
        /\ errors' = errors \cup found /\ warnings' = warnings \cup warned
        /\ UNCHANGED <<at, self_signed_accepted, signed, options>>
    BY <1>9 DEF CheckFields, Find
  <2>2. found \in SUBSET PassportErrors /\ warned \in SUBSET PassportWarnings
    BY FindingsTyped DEF PassportErrors, PassportWarnings
  <2>3. PassportTypeOK' /\ ~Verified'
    BY <2>1, <2>2, <1>typed, FindTyped
  <2>4. errors' = AllErrors
    BY <2>1 DEF PassportInv, AllErrors
  <2>5. OptInNoted(self_signed_accepted, warnings)'
    BY <2>1, <1>same DEF PassportInv, OptInNoted
  <2>. QED BY <2>1, <2>3, <2>4, <2>5, <1>same DEF PassportInv
<1>10. CASE ObserveDelegation
  <2> DEFINE warned == DelegationWarnings(Embedded(signed.passport)[at])
  <2>1. /\ pc = "delegations" /\ Find({}, warned, "delegations") /\ pc' = "delegations"
        /\ errors' = errors /\ warnings' = warnings \cup warned
        /\ at' = at + 1 /\ UNCHANGED <<self_signed_accepted, signed, options>>
    BY <1>10 DEF ObserveDelegation, Find
  <2>2. warned \in SUBSET PassportWarnings
    BY FindingsTyped DEF PassportWarnings
  <2>3. at' \in Nat \ {0} /\ self_signed_accepted' \in BOOLEAN /\ pc # "done"
    BY <2>1, <1>typed
  <2>4. PassportTypeOK' /\ ~Verified'
    BY <2>1, <2>2, <2>3, <1>typed, FindTyped
  <2>5. OptInNoted(self_signed_accepted, warnings)'
    BY <2>1, <1>same DEF PassportInv, OptInNoted
  <2>. QED BY <2>1, <2>4, <2>5, <1>same DEF PassportInv
<1>11. CASE Conclude
  <2>1. /\ pc = "delegations" /\ ~MalformedEnvelope(signed) /\ errors = AllErrors
        /\ OptInNoted(self_signed_accepted, warnings)
    BY <1>11 DEF Conclude, PassportInv
  <2>2. Return(Verification(errors = {}, errors, options.trusted_issuers # {},
                            self_signed_accepted /\ errors = {}))
    BY <1>11 DEF Conclude
  <2>3. /\ PassportTypeOK' /\ pc' = "done" /\ UNCHANGED <<signed, options>>
        /\ result'.valid = (errors = {}) /\ result'.errors = errors
        /\ result'.warnings = warnings
        /\ result'.issuer_trust_checked = (options.trusted_issuers # {})
        /\ result'.self_signed_accepted = (self_signed_accepted /\ errors = {})
    BY <2>2, VerificationTyped
  <2>4. /\ result'.self_signed_accepted <=> OptedIn' /\ result'.valid
        /\ OptedIn' /\ result'.valid => "NoTrustedIssuers" \in result'.warnings
    <3>1. self_signed_accepted = OptedIn /\ OptedIn' = OptedIn
      BY <2>1, <2>3, <1>same DEF OptInNoted
    <3>2. result'.self_signed_accepted = (OptedIn' /\ result'.valid)
      BY <2>3, <3>1, Zenon
    <3>3. OptedIn' => "NoTrustedIssuers" \in result'.warnings
      BY <2>1, <2>3, <3>1 DEF OptInNoted
    <3>. QED BY <3>2, <3>3, Zenon
  <2>5. ~MalformedEnvelope(signed)' /\ result'.errors = AllErrors'
        /\ result'.valid = (AllErrors' = {})
        /\ result'.issuer_trust_checked = (options'.trusted_issuers # {})
    BY <2>1, <2>3, <1>same
  <2>. QED BY <2>3, <2>4, <2>5 DEF PassportInv
<1>. QED
  BY <1>0, <1>1, <1>2, <1>3, <1>4, <1>5, <1>6, <1>7, <1>8, <1>9, <1>10, <1>11
  DEF PassportNext

LEMMA InvHolds == PassportSpec => []PassportInv
BY InitEstablishes, StepKeeps, PTL DEF PassportSpec

----------------------------------------------------------------------------
(* What a result means *)

\* Every reachable state of the passport call is well typed: a result is there
\* exactly when the call is done.
THEOREM PassportTypeCorrect == PassportSpec => []PassportTypeOK
<1>1. PassportInv => PassportTypeOK
  BY DEF PassportInv
<1>. QED BY <1>1, InvHolds, PTL

\* No check hides what another finds, however many fail.
THEOREM NoFailureHidden == PassportSpec => []EveryFailureReported
<1>1. PassportInv => EveryFailureReported
  BY DEF PassportInv, EveryFailureReported, AllErrors, MoreErrors, FirstErrors,
         SignatureErrors
<1>. QED BY <1>1, InvHolds, PTL

\* The flag for self-signed passports is set exactly on valid results that
\* rest on the caller's opt-in.
LEMMA FlagIsVerdict ==
    ASSUME PassportInv, Verified
    PROVE  result.self_signed_accepted
              <=> result.valid /\ ~result.issuer_trust_checked
<1>1. result.self_signed_accepted <=> OptedIn /\ result.valid
  BY DEF PassportInv
<1>2. CASE ~result.valid
  BY <1>1, <1>2
<1>3. CASE result.valid
  <2>1. ~MalformedEnvelope(signed) /\ AllErrors = {}
    BY <1>3 DEF PassportInv
  <2>2. result.issuer_trust_checked = (options.trusted_issuers # {})
    BY <2>1 DEF PassportInv
  <2>3. AuthorityErrors(signed, options) = {}
    BY <2>1 DEF AllErrors, MoreErrors, FirstErrors
  <2>4. options.trusted_issuers = {} => options.allow_self_signed
    BY <2>3 DEF AuthorityErrors
  <2>5. OptedIn <=> options.trusted_issuers = {}
    BY <2>4 DEF OptedIn
  <2>6. ~result.issuer_trust_checked <=> options.trusted_issuers = {}
    BY <2>2, Zenon
  <2>. QED BY <1>1, <1>3, <2>5, <2>6
<1>. QED BY <1>2, <1>3

\* What the stand-alone check finds for a trusted issuer is a countersignature
\* of that issuer over this very envelope.
LEMMA CheckedIsVouched ==
    ASSUME options \in Options, NEW issuer \in options.trusted_issuers,
           verify_issuer_signature(signed, issuer)
    PROVE  Vouched(signed, options.trusted_issuers)
<1> DEFINE countersignature == signed.issuerSignature
           signature == countersignature.signature
           preimage == issuer_signature_preimage(signed)
<1>1. /\ countersignature \notin {Absent, Null, Malformed}
      /\ countersignature.issuerPublicKey = issuer
      /\ signature \notin {Absent, Null, Malformed}
      /\ verify_ed25519(preimage, signature, issuer)
  BY DEF verify_issuer_signature
<1>2. /\ KeyHex[issuer].chars = 64 /\ signature.chars = 128
      /\ KeyHex[issuer].bytes \in Points /\ signature.bytes # BadHex
      /\ verify_strict(preimage, signature.bytes, KeyHex[issuer].bytes)
  BY <1>1 DEF verify_ed25519
<1>3. /\ KeyHex[issuer].bytes \notin SmallOrder
      /\ ~signature.bytes.small_order_r /\ signature.bytes.reduced
      /\ signature.bytes.by = KeyHex[issuer].bytes /\ signature.bytes.over = preimage
  BY <1>2 DEF verify_strict, Equation
<1>4. issuer # ""
  BY <1>2, EmptyKeyAssumption, Zenon
<1>5. ~Unsignable(signature)
  BY <1>1, <1>2 DEF Unsignable
<1>6. MadeBy(signature, issuer, preimage)
  BY <1>2, <1>3 DEF MadeBy
<1>7. issuer \in options.trusted_issuers \ {""}
  BY <1>4
<1>. QED BY <1>1, <1>2, <1>3, <1>5, <1>6, <1>7, Zenon DEF Vouched

\* A valid passport is vouched for: a trusted issuer countersigned exactly
\* this envelope, or there is none, the caller opted in, and the warning says
\* so.
THEOREM ValidIsVouchedFor == PassportSpec => []ValidHasAuthority
<1>1. ASSUME PassportInv, Valid
      PROVE  IF options.trusted_issuers # {}
             THEN Vouched(signed, options.trusted_issuers) /\ result.issuer_trust_checked
             ELSE options.allow_self_signed /\ "NoTrustedIssuers" \in result.warnings
  <2>1. Verified /\ result.valid /\ options \in Options
    BY <1>1 DEF Valid, PassportInv, PassportTypeOK
  <2>2. ~MalformedEnvelope(signed) /\ AllErrors = {}
    BY <1>1, <2>1 DEF PassportInv
  <2>3. AuthorityErrors(signed, options) = {}
    BY <2>2 DEF AllErrors, MoreErrors, FirstErrors
  <2>4. CASE options.trusted_issuers = {}
    <3>1. options.allow_self_signed
      BY <2>3, <2>4 DEF AuthorityErrors
    <3>2. "NoTrustedIssuers" \in result.warnings
      BY <1>1, <2>1, <2>4, <3>1 DEF PassportInv, OptedIn
    <3>. QED BY <2>4, <3>1, <3>2
  <2>5. CASE options.trusted_issuers # {}
    <3>1. result.issuer_trust_checked = (options.trusted_issuers # {})
      BY <1>1, <2>1, <2>2 DEF PassportInv
    <3>2. result.issuer_trust_checked
      BY <2>5, <3>1, Zenon
    <3>3. PICK issuer \in options.trusted_issuers : verify_issuer_signature(signed, issuer)
      BY <2>1, <2>2, <2>3, <2>5, AuthorityFindsNothing
    <3>4. Vouched(signed, options.trusted_issuers)
      BY <2>1, <3>3, CheckedIsVouched
    <3>. QED BY <2>5, <3>2, <3>4
  <2>. QED BY <2>4, <2>5
<1>2. ASSUME PassportInv, Verified
      PROVE  result.self_signed_accepted
                <=> result.valid /\ ~result.issuer_trust_checked
  BY <1>2, FlagIsVerdict
<1>3. PassportInv => ValidHasAuthority
  BY <1>1, <1>2 DEF ValidHasAuthority
<1>. QED BY <1>3, InvHolds, PTL

\* The stand-alone countersignature check and the authority step of the call
\* agree on every envelope.
THEOREM CountersignaturesAgree == PassportSpec => []IssuerChecksAgree
<1> DEFINE ofAuthority == {"NoIssuerCountersignature", "UntrustedIssuer",
                           "InvalidIssuerCountersignature"}
<1>1. ASSUME PassportInv, Verified, ~MalformedEnvelope(signed),
             options.trusted_issuers # {}
      PROVE  (\E issuer \in options.trusted_issuers : verify_issuer_signature(signed, issuer))
                <=> result.errors \cap ofAuthority = {}
  <2>1. result.errors = AllErrors /\ options \in Options
    BY <1>1 DEF PassportInv, PassportTypeOK
  <2>2. "AuthorityNotEstablished" \notin AuthorityErrors(signed, options)
    BY <1>1 DEF AuthorityErrors
  <2>3. AuthorityErrors(signed, options) \subseteq ofAuthority
    BY <2>2, FindingsTyped
  <2>4. AllErrors \cap ofAuthority = AuthorityErrors(signed, options)
    BY <2>3, FindingsTyped DEF AllErrors, MoreErrors, FirstErrors
  <2>. QED BY <1>1, <2>1, <2>4, AuthorityFindsNothing
<1>2. PassportInv => IssuerChecksAgree
  BY <1>1 DEF IssuerChecksAgree
<1>. QED BY <1>2, InvHolds, PTL

----------------------------------------------------------------------------
(* The skew *)

\* The edges of the window can be computed.
EdgesKnown == now_ms # Err /\ Err \notin {skew, expiry_floor, not_before_ceiling}

\* Past the options the edges are known; a call is only refused for want of them.
EdgesInv ==
    /\ pc \notin {"options", "done"} \/ Verified => EdgesKnown
    /\ result.kind = "SkewArithmetic" => now_ms # Err /\ ~EdgesKnown
    /\ result.kind = "InvalidEvaluationTime" => now_ms = Err
    /\ result.kind = "Pending" => result = Pending

LEMMA EdgesInit == PassportInit => EdgesInv
<1> SUFFICES ASSUME PassportInit PROVE EdgesInv
  OBVIOUS
<1>1. result.kind = "Pending" /\ pc = "options" /\ result = Pending
  BY DEF PassportInit, Pending
<1>. QED BY <1>1 DEF EdgesInv, Verified

LEMMA EdgesStep == PassportInv /\ EdgesInv /\ [PassportNext]_passportVars => EdgesInv'
<1> SUFFICES ASSUME PassportInv, EdgesInv, [PassportNext]_passportVars PROVE EdgesInv'
  OBVIOUS
<1>1. ASSUME UNCHANGED options
      PROVE  EdgesKnown' = EdgesKnown /\ now_ms' = now_ms
  BY <1>1 DEF EdgesKnown, now_ms, skew, expiry_floor, not_before_ceiling
<1>2. CASE UNCHANGED passportVars
  <2>1. UNCHANGED <<options, pc, result>>
    BY <1>2 DEF passportVars
  <2>. QED BY <1>1, <2>1 DEF EdgesInv, Verified
<1>3. CASE RefuseTime
  <2>1. /\ result' = [kind |-> "InvalidEvaluationTime"] /\ pc' = "done"
        /\ UNCHANGED options /\ now_ms = Err
    BY <1>3 DEF RefuseTime, Return
  <2>. QED BY <1>1, <2>1 DEF EdgesInv, Verified
<1>4. CASE RefuseSkew
  <2>1. /\ result' = [kind |-> "SkewArithmetic"] /\ pc' = "done" /\ UNCHANGED options
        /\ now_ms # Err /\ ~EdgesKnown
    BY <1>4 DEF RefuseSkew, Return, EdgesKnown
  <2>. QED BY <1>1, <2>1 DEF EdgesInv, Verified
<1>5. CASE ApplyOptions
  <2>1. EdgesKnown /\ UNCHANGED <<options, result>>
    BY <1>5 DEF ApplyOptions, Find, EdgesKnown
  <2>. QED BY <1>1, <2>1 DEF EdgesInv, Verified
<1>6. CASE \/ OpenEnvelope \/ CheckSignature \/ CheckAuthority \/ CheckWindow
           \/ CheckFields \/ ObserveDelegation
  <2>1. pc \notin {"options", "done"} /\ UNCHANGED <<options, result>>
    BY <1>6 DEF OpenEnvelope, CheckSignature, CheckAuthority, CheckWindow, CheckFields,
                ObserveDelegation, Find
  <2>. QED BY <1>1, <2>1 DEF EdgesInv, Verified
<1>7. CASE RefuseEnvelope \/ Conclude
  <2>1. pc \notin {"options", "done"} /\ pc' = "done" /\ UNCHANGED options
    BY <1>7 DEF RefuseEnvelope, Conclude, Return
  <2>2. result'.kind = "Verification"
    BY <1>7 DEF RefuseEnvelope, Conclude, Return, Verification
  <2>. QED BY <1>1, <2>1, <2>2 DEF EdgesInv, Verified
<1>. QED
  BY <1>2, <1>3, <1>4, <1>5, <1>6, <1>7 DEF PassportNext

LEMMA EdgesHold == PassportSpec => []EdgesInv
BY EdgesInit, EdgesStep, InvHolds, PTL DEF PassportSpec

\* When the edges are known they are the instant and the skew themselves, and
\* when they are not, one of them is beyond 64 bits.
LEMMA EdgesExact ==
    ASSUME options \in Options, now_ms # Err
    PROVE  LET s == options.allowed_clock_skew_ms
           IN  /\ EdgesKnown => expiry_floor = now_ms - s /\ not_before_ceiling = now_ms + s
               /\ ~EdgesKnown => s > MaxI64 \/ now_ms - s \notin I64 \/ now_ms + s \notin I64
<1> DEFINE s == options.allowed_clock_skew_ms
<1>1. s \in Nat /\ options.evaluation_time \in Text
  BY OptionsAssumption
<1>2. now_ms \in Int
  BY <1>1, ReadingAssumption DEF now_ms, parse_ms
<1>3. \A x \in Int : IF x \in I64 THEN checked(x) = x /\ checked(x) # Err
                                  ELSE checked(x) = Err
  BY OptionAssumption DEF checked
<1>4. now_ms - s \in Int /\ now_ms + s \in Int /\ s \in Int
  BY <1>1, <1>2
<1>5. s \in I64 <=> ~(s > MaxI64)
  BY <1>1, IntegerAssumption DEF I64
<1>6. CASE s \notin I64
  <2>1. skew = Err
    BY <1>3, <1>4, <1>6 DEF skew
  <2>. QED BY <1>5, <1>6, <2>1 DEF EdgesKnown
<1>7. CASE s \in I64
  <2>1. skew = s /\ skew # Err
    BY <1>3, <1>4, <1>7 DEF skew
  <2>2. expiry_floor = checked(now_ms - s) /\ not_before_ceiling = checked(now_ms + s)
    BY <2>1 DEF expiry_floor, not_before_ceiling
  <2>. QED BY <1>3, <1>4, <2>1, <2>2 DEF EdgesKnown
<1>. QED BY <1>6, <1>7

\* The skew moves both edges of the window by exactly its amount, whatever the
\* instant, the skew and the width of the integers, or the call is refused and
\* one of the edges is indeed not representable.
THEOREM SkewMovesBothEdges == PassportSpec => []SkewIsExact
<1>1. ASSUME PassportInv, EdgesInv, result.kind = "SkewArithmetic"
      PROVE  \/ options.allowed_clock_skew_ms > MaxI64
             \/ now_ms - options.allowed_clock_skew_ms \notin I64
             \/ now_ms + options.allowed_clock_skew_ms \notin I64
  <2>1. options \in Options /\ now_ms # Err /\ ~EdgesKnown
    BY <1>1 DEF PassportInv, PassportTypeOK, EdgesInv
  <2>. QED BY <2>1, EdgesExact
<1>2. ASSUME PassportInv, EdgesInv, Verified, ~MalformedEnvelope(signed)
      PROVE  LET s == options.allowed_clock_skew_ms
             IN  /\ "Expired" \in result.errors
                       <=> Exceeds(now_ms - s, read_ms(member(signed.passport, "expiresAt")))
                 /\ "NotYetValid" \in result.errors
                       <=> Exceeds(read_ms(member(signed.passport, "notBefore")), now_ms + s)
  <2>1. options \in Options /\ EdgesKnown /\ result.errors = AllErrors
    BY <1>2 DEF PassportInv, PassportTypeOK, EdgesInv
  <2>2. /\ expiry_floor = now_ms - options.allowed_clock_skew_ms
        /\ not_before_ceiling = now_ms + options.allowed_clock_skew_ms
    BY <2>1, EdgesExact DEF EdgesKnown
  <2>3. \A error \in {"Expired", "NotYetValid"} :
           error \in AllErrors <=> error \in PassportWindowErrors(signed.passport)
    BY FindingsTyped DEF AllErrors, MoreErrors, FirstErrors
  <2>4. /\ "Expired" \in PassportWindowErrors(signed.passport)
              <=> Exceeds(expiry_floor, read_ms(member(signed.passport, "expiresAt")))
        /\ "NotYetValid" \in PassportWindowErrors(signed.passport)
              <=> Exceeds(read_ms(member(signed.passport, "notBefore")), not_before_ceiling)
    BY DEF PassportWindowErrors
  <2>. QED BY <2>1, <2>2, <2>3, <2>4
<1>3. PassportInv /\ EdgesInv => SkewIsExact
  BY <1>1, <1>2 DEF SkewIsExact
<1>. QED BY <1>3, EdgesHold, InvHolds, PTL

----------------------------------------------------------------------------
(* The decision *)

\* Some trusted issuer passes the stand-alone check exactly when the envelope
\* is vouched for.
LEMMA CheckedIffVouched ==
    ASSUME options \in Options, signed # NotObject
    PROVE  (\E issuer \in options.trusted_issuers : verify_issuer_signature(signed, issuer))
              <=> Vouched(signed, options.trusted_issuers)
<1>1. ASSUME Vouched(signed, options.trusted_issuers)
      PROVE  verify_issuer_signature(signed, signed.issuerSignature.issuerPublicKey)
  <2> DEFINE key == signed.issuerSignature.issuerPublicKey
             signature == signed.issuerSignature.signature
             preimage == issuer_signature_preimage(signed)
  <2>1. /\ signed.issuerSignature \notin {Absent, Null, Malformed}
        /\ ~Unsignable(signature) /\ signature.chars = 128 /\ KeyHex[key].chars = 64
        /\ KeyHex[key].bytes \in Points \ SmallOrder
        /\ MadeBy(signature, key, preimage)
    BY <1>1 DEF Vouched
  <2>2. signature \notin {Absent, Null, Malformed}
    BY <2>1 DEF Unsignable
  <2>3. verify_ed25519(preimage, signature, key)
    BY <2>1, PointAssumption DEF MadeBy, verify_ed25519, verify_strict, Equation
  <2>. QED BY <2>1, <2>2, <2>3 DEF verify_issuer_signature
<1>2. Vouched(signed, options.trusted_issuers)
         => signed.issuerSignature.issuerPublicKey \in options.trusted_issuers
  BY DEF Vouched
<1>. QED BY <1>1, <1>2, CheckedIsVouched

\* The authority step finds nothing exactly on what has authority.
LEMMA AuthorityDecided ==
    ASSUME options \in Options, ~MalformedEnvelope(signed)
    PROVE  AuthorityErrors(signed, options) = {}
              <=> \/ options.trusted_issuers = {} /\ options.allow_self_signed
                  \/ Vouched(signed, options.trusted_issuers)
<1>1. CASE options.trusted_issuers = {}
  <2>1. ~Vouched(signed, options.trusted_issuers)
    BY <1>1 DEF Vouched
  <2>2. AuthorityErrors(signed, options) =
           IF options.allow_self_signed THEN {} ELSE {"AuthorityNotEstablished"}
    BY <1>1 DEF AuthorityErrors
  <2>. QED BY <1>1, <2>1, <2>2
<1>2. CASE options.trusted_issuers # {}
  <2>1. signed # NotObject
    BY DEF MalformedEnvelope
  <2>. QED BY <1>2, <2>1, AuthorityFindsNothing, CheckedIffVouched
<1>. QED BY <1>1, <1>2

\* What is exceeded, for instants.
LEMMA ExceedsFacts ==
    ASSUME NEW x \in Int, NEW y \in Int \cup {Err}
    PROVE  /\ Exceeds(x, y) <=> y # Err /\ x > y
           /\ Exceeds(y, x) <=> y # Err /\ y > x
BY OptionAssumption DEF Exceeds

\* The window check finds nothing exactly inside the widened window.
LEMMA WindowDecided ==
    ASSUME options \in Options, EdgesKnown, NEW passport
    PROVE  LET s == options.allowed_clock_skew_ms
               expiry == read_ms(member(passport, "expiresAt"))
               from == member(passport, "notBefore")
           IN  PassportWindowErrors(passport) = {}
                  <=> /\ expiry # Err /\ expiry + s >= now_ms
                      /\ from = Absent \/ (read_ms(from) # Err /\ read_ms(from) - s <= now_ms)
<1> DEFINE s == options.allowed_clock_skew_ms
           expiry == read_ms(member(passport, "expiresAt"))
           from == member(passport, "notBefore")
<1>1. s \in Nat /\ options.evaluation_time \in Text /\ now_ms # Err
  BY OptionsAssumption DEF EdgesKnown
<1>2. \A value : read_ms(value) \in Int \cup {Err}
  BY ReadingAssumption DEF read_ms, parse_ms
<1>3. now_ms \in Int
  BY <1>1, ReadingAssumption DEF now_ms, parse_ms
<1>4. expiry_floor = now_ms - s /\ not_before_ceiling = now_ms + s
  BY <1>1, EdgesExact
<1>5. from = Absent => read_ms(from) = Err
  BY ShapeAssumption DEF read_ms
<1>6. PassportWindowErrors(passport) = {}
         <=> /\ expiry # Err /\ ~Exceeds(expiry_floor, expiry)
             /\ ~(from # Absent /\ read_ms(from) = Err)
             /\ ~Exceeds(read_ms(from), not_before_ceiling)
  <2>1. /\ "InvalidExpiry" \in PassportWindowErrors(passport) <=> expiry = Err
        /\ "Expired" \in PassportWindowErrors(passport) <=> Exceeds(expiry_floor, expiry)
        /\ "InvalidNotBefore" \in PassportWindowErrors(passport)
              <=> from # Absent /\ read_ms(from) = Err
        /\ "NotYetValid" \in PassportWindowErrors(passport)
              <=> Exceeds(read_ms(from), not_before_ceiling)
    BY DEF PassportWindowErrors
  <2>2. PassportWindowErrors(passport)
           \subseteq {"InvalidExpiry", "Expired", "InvalidNotBefore", "NotYetValid"}
    BY FindingsTyped
  <2>. QED BY <2>1, <2>2
<1>7. expiry \in Int \cup {Err} /\ read_ms(from) \in Int \cup {Err}
  BY <1>2
<1> HIDE DEF s, expiry, from
<1>11. now_ms - s \in Int /\ now_ms + s \in Int
  BY <1>1, <1>3
<1>8. /\ Exceeds(expiry_floor, expiry) <=> expiry # Err /\ now_ms - s > expiry
      /\ Exceeds(read_ms(from), not_before_ceiling)
            <=> read_ms(from) # Err /\ read_ms(from) > now_ms + s
  <2>1. Exceeds(now_ms - s, expiry) <=> expiry # Err /\ now_ms - s > expiry
    BY <1>7, <1>11, ExceedsFacts
  <2>2. Exceeds(read_ms(from), now_ms + s)
           <=> read_ms(from) # Err /\ read_ms(from) > now_ms + s
    BY <1>7, <1>11, ExceedsFacts
  <2>. QED BY <1>4, <2>1, <2>2
<1>9. /\ expiry # Err => (now_ms - s > expiry <=> ~(expiry + s >= now_ms))
      /\ read_ms(from) # Err => (read_ms(from) > now_ms + s <=> ~(read_ms(from) - s <= now_ms))
  BY <1>1, <1>3, <1>7
<1>10. PassportWindowErrors(passport) = {}
         <=> /\ expiry # Err /\ expiry + s >= now_ms
             /\ from = Absent \/ (read_ms(from) # Err /\ read_ms(from) - s <= now_ms)
  BY <1>5, <1>6, <1>8, <1>9
<1>. QED BY <1>10 DEF s, expiry, from

\* An agent's signature is by a key that is there.
LEMMA SignedHasKey ==
    ASSUME AgentSigned(signed)
    PROVE  /\ ~Blank(member(signed.passport, "publicKey"))
           /\ signed.passport # NotObject
<1> DEFINE key == member(signed.passport, "publicKey")
<1>1. key \in Text /\ KeyHex[key].chars = 64
  BY DEF AgentSigned, verify_ed25519
<1>2. key # ""
  BY <1>1, EmptyKeyAssumption, Zenon
<1>3. key \notin {Absent, Null, Malformed}
  BY <1>1, ShapeAssumption
<1>4. signed.passport # NotObject
  BY <1>3 DEF member
<1>. QED BY <1>2, <1>3, <1>4 DEF Blank

\* The instant and the skew of the options, and whether the edges are known.
LEMMA EdgesDecided ==
    ASSUME options \in Options
    PROVE  LET s == options.allowed_clock_skew_ms
           IN  EdgesKnown
                  <=> /\ now_ms # Err /\ s \in I64
                      /\ now_ms - s \in I64 /\ now_ms + s \in I64
<1> DEFINE s == options.allowed_clock_skew_ms
<1>1. s \in Nat /\ options.evaluation_time \in Text
  BY OptionsAssumption
<1>2. \A x \in Int : checked(x) = Err <=> x \notin I64
  BY OptionAssumption DEF checked
<1>3. CASE now_ms = Err
  BY <1>3 DEF EdgesKnown
<1>4. CASE now_ms # Err
  <2>1. now_ms \in Int
    BY <1>1, <1>4, ReadingAssumption DEF now_ms, parse_ms
  <2>2. s \in Int /\ now_ms - s \in Int /\ now_ms + s \in Int
    BY <1>1, <2>1
  <2>3. CASE s \notin I64
    <3>1. skew = Err
      BY <1>2, <2>2, <2>3 DEF skew
    <3>. QED BY <2>3, <3>1 DEF EdgesKnown
  <2>4. CASE s \in I64
    <3>1. skew = s /\ skew # Err
      BY <1>2, <2>2, <2>4 DEF skew, checked
    <3>2. expiry_floor = checked(now_ms - s) /\ not_before_ceiling = checked(now_ms + s)
      BY <3>1 DEF expiry_floor, not_before_ceiling
    <3>. QED BY <1>2, <1>4, <2>2, <2>4, <3>1, <3>2 DEF EdgesKnown
  <2>. QED BY <2>3, <2>4
<1>. QED BY <1>3, <1>4

\* A call finds no error exactly in a passport that deserves it.
LEMMA NothingFoundIsDeserved ==
    ASSUME options \in Options
    PROVE  EdgesKnown /\ ~MalformedEnvelope(signed) /\ AllErrors = {}
              <=> Deserves(<<signed, options>>)
<1> DEFINE passport == signed.passport
           s == options.allowed_clock_skew_ms
           expiry == read_ms(passport.expiresAt)
           from == passport.notBefore
           authority == \/ options.trusted_issuers = {} /\ options.allow_self_signed
                        \/ Vouched(signed, options.trusted_issuers)
           window == /\ expiry # Err /\ expiry + s >= now_ms
                     /\ from = Absent \/ (read_ms(from) # Err /\ read_ms(from) - s <= now_ms)
<1>1. Deserves(<<signed, options>>)
         <=> /\ EdgesKnown
             /\ signed # NotObject /\ passport \notin {Absent, Null, NotObject}
             /\ ~Unsignable(signed.signature)
             /\ AgentSigned(signed) /\ window /\ ~Blank(passport.agentId) /\ authority
  BY EdgesDecided DEF Deserves, now_ms
<1>2. ~MalformedEnvelope(signed)
         <=> /\ signed # NotObject /\ passport \notin {Absent, Null}
             /\ ~Unsignable(signed.signature)
  BY DEF MalformedEnvelope
<1>3. ASSUME EdgesKnown, ~MalformedEnvelope(signed)
      PROVE  AllErrors = {}
                <=> /\ passport # NotObject
                    /\ AgentSigned(signed) /\ window /\ ~Blank(passport.agentId) /\ authority
  <2>1. AllErrors = {}
           <=> /\ AgentSigned(signed) /\ AuthorityErrors(signed, options) = {}
               /\ PassportWindowErrors(passport) = {} /\ FieldErrors(passport) = {}
    BY DEF AllErrors, MoreErrors, FirstErrors, SignatureErrors
  <2>2. CASE ~AgentSigned(signed)
    BY <2>1, <2>2
  <2>3. CASE AgentSigned(signed)
    <3>1. ~Blank(member(passport, "publicKey")) /\ passport # NotObject
      BY <2>3, SignedHasKey
    <3>2. \A key : member(passport, key) = passport[key]
      BY <3>1 DEF member
    <3>3. FieldErrors(passport) = {} <=> ~Blank(passport.agentId)
      BY <3>1, <3>2 DEF FieldErrors
    <3>4. PassportWindowErrors(passport) = {} <=> window
      BY <1>3, <3>2, WindowDecided
    <3>5. AuthorityErrors(signed, options) = {} <=> authority
      BY <1>3, AuthorityDecided
    <3> HIDE DEF window, authority, passport
    <3>. QED BY <2>1, <2>3, <3>1, <3>3, <3>4, <3>5
  <2>. QED BY <2>2, <2>3
<1> HIDE DEF passport, window, authority
<1>. QED BY <1>1, <1>2, <1>3

\* The answer is what the argument deserves.
LEMMA AnswerIsDeserved ==
    ASSUME PassportInv, EdgesInv, result # Pending
    PROVE  Valid <=> Deserves(<<signed, options>>)
<1>1. options \in Options
  BY DEF PassportInv, PassportTypeOK
<1>2. CASE ~Verified
  <2>1. ~EdgesKnown
    BY <1>2 DEF EdgesInv, PassportInv, PassportTypeOK, Verified, EdgesKnown
  <2>. QED BY <1>1, <1>2, <2>1, NothingFoundIsDeserved DEF Valid
<1>3. CASE Verified
  <2>1. EdgesKnown
    BY <1>3 DEF EdgesInv
  <2>2. CASE MalformedEnvelope(signed)
    <3>1. ~result.valid
      BY <1>3, <2>2 DEF PassportInv
    <3>. QED BY <1>1, <2>2, <3>1, NothingFoundIsDeserved DEF Valid
  <2>3. CASE ~MalformedEnvelope(signed)
    <3>1. result.valid = (AllErrors = {})
      BY <1>3, <2>3 DEF PassportInv
    <3>2. result.valid <=> AllErrors = {}
      BY <3>1, Zenon
    <3>. QED BY <1>1, <1>3, <2>1, <2>3, <3>2, NothingFoundIsDeserved DEF Valid
  <2>. QED BY <2>2, <2>3
<1>. QED BY <1>2, <1>3

AnswerRight == result # Pending => (Valid <=> Deserves(<<signed, options>>))

LEMMA AnswersRight == PassportSpec => []AnswerRight
<1>1. PassportInv /\ EdgesInv => AnswerRight
  BY AnswerIsDeserved DEF AnswerRight
<1>. QED BY <1>1, InvHolds, EdgesHold, PTL

\* The call is an execution of the abstract Decision: it starts undecided and
\* each step decides rightly or leaves the decision alone, for every envelope
\* and all options.
THEOREM PassportDecides ==
    PassportSpec => PassportPromise!Init /\ [][PassportPromise!Decide]_(PassportPromise!vars)
<1>1. PassportInit => PassportPromise!Init
  BY DEF PassportInit, PassportPromise!Init, IsPassportCall
<1>2. PassportInv /\ PassportInv' /\ AnswerRight' /\ [PassportNext]_passportVars
         => [PassportPromise!Decide]_(PassportPromise!vars)
  <2> SUFFICES ASSUME PassportInv, PassportInv', AnswerRight', [PassportNext]_passportVars
               PROVE  [PassportPromise!Decide]_(PassportPromise!vars)
    OBVIOUS
  <2>1. UNCHANGED <<signed, options>>
    BY DEF PassportNext, RefuseTime, RefuseSkew, ApplyOptions, RefuseEnvelope, OpenEnvelope,
           CheckSignature, CheckAuthority, CheckWindow, CheckFields, ObserveDelegation,
           Conclude, Find, Return, passportVars
  <2>2. CASE result' = result
    <3>1. Valid' <=> Valid
      BY <2>2 DEF Valid, Verified
    <3>. QED BY <2>1, <2>2, <3>1 DEF PassportPromise!vars
  <2>3. CASE result' # result
    <3>1. result = Pending
      <4>1. pc # "done"
        BY <2>3 DEF PassportNext, RefuseTime, RefuseSkew, ApplyOptions, RefuseEnvelope,
                    OpenEnvelope, CheckSignature, CheckAuthority, CheckWindow, CheckFields,
                    ObserveDelegation, Conclude, passportVars
      <4>. QED BY <4>1 DEF PassportInv, PassportTypeOK
    <3>2. result' # Pending /\ Pending' = Pending
      BY <2>3, <3>1 DEF Pending
    <3>3. (Valid <=> Deserves(<<signed, options>>))'
      BY <3>2 DEF AnswerRight
    <3>4. Deserves(<<signed, options>>)' <=> Deserves(<<signed, options>>)
      BY <2>1
    <3>. QED BY <2>1, <3>1, <3>2, <3>3, <3>4 DEF PassportPromise!Decide
  <2>. QED BY <2>2, <2>3
<1>. QED BY <1>1, <1>2, InvHolds, AnswersRight, PTL DEF PassportSpec

----------------------------------------------------------------------------
(* Null members *)

\* An object and the object without its nulls have one canonical form.
LEMMA NullsAreNotSigned ==
    ASSUME NEW object, object # NotObject => without_nulls(object) # NotObject
    PROVE  canonicalize(without_nulls(object)) = canonicalize(object)
<1>1. CASE object = NotObject
  BY <1>1 DEF canonicalize, without_nulls
<1>2. CASE object # NotObject
  <2> DEFINE kept == [key \in DOMAIN object |-> IF object[key] = Null THEN Absent ELSE object[key]]
             twice == [key \in DOMAIN kept |-> IF kept[key] = Null THEN Absent ELSE kept[key]]
  <2>1. without_nulls(object) = kept
    BY <1>2 DEF without_nulls
  <2>2. without_nulls(kept) = twice /\ kept # NotObject
    BY <1>2, <2>1 DEF without_nulls
  <2>3. twice = kept
    <3>1. \A key \in DOMAIN object :
             (IF kept[key] = Null THEN Absent ELSE kept[key]) = kept[key]
      OBVIOUS
    <3>. QED BY <3>1
  <2>4. DOMAIN kept = DOMAIN object
    OBVIOUS
  <2> HIDE DEF kept, twice
  <2>. QED BY <1>2, <2>1, <2>2, <2>3, <2>4 DEF canonicalize
<1>. QED BY <1>1, <1>2

\* Erasing the nulls of a passport leaves its other members and what its
\* agent signs.
LEMMA ErasedPassport ==
    ASSUME signed \in Envelopes, signed # NotObject,
           signed.passport \notin {Absent, Null, NotObject}
    PROVE  LET passport == signed.passport
               form == PassportWithoutNulls(passport)
           IN  /\ form \notin {Absent, Null, NotObject}
               /\ \A key \in {"publicKey", "agentId", "expiresAt", "notBefore"} :
                     form[key] = IF passport[key] = Null THEN Absent ELSE passport[key]
               /\ agent_signature_preimage(form) = agent_signature_preimage(passport)
<1> DEFINE passport == signed.passport
           form == PassportWithoutNulls(passport)
           kept == without_nulls(passport)
           list == kept.delegations
           short == list \in {Absent, Malformed}
           Leaf(key, value) == IF key \in NumberMembers THEN to_double_view(value) ELSE value
           members == {"publicKey", "agentId", "expiresAt", "notBefore", "delegations"}
<1>1. /\ members \subseteq DOMAIN passport
      /\ form \notin {Absent, Null, NotObject}
      /\ passport.delegations \notin {Absent, Null, Malformed} =>
            /\ form.delegations \notin {Absent, Null, Malformed}
            /\ \A i \in DOMAIN passport.delegations :
                  passport.delegations[i] # NotObject
                     => without_nulls(passport.delegations[i]) # NotObject
  BY EnvelopeAssumption
<1>2. /\ kept = [key \in DOMAIN passport |-> IF passport[key] = Null THEN Absent
                                                                   ELSE passport[key]]
      /\ DOMAIN kept = DOMAIN passport
  BY DEF without_nulls
<1>3. form = [kept EXCEPT !["delegations"] =
                 IF short THEN list ELSE [i \in DOMAIN list |-> without_nulls(list[i])]]
  BY DEF PassportWithoutNulls
<1>4. list = IF passport.delegations = Null THEN Absent ELSE passport.delegations
  BY <1>1, <1>2
<1>5. canonicalize(passport) = [key \in DOMAIN passport |-> Leaf(key, kept[key])]
  BY DEF canonicalize
<1> HIDE DEF kept, form
<1>6. /\ DOMAIN form = DOMAIN passport
      /\ \A key \in DOMAIN passport \ {"delegations"} : form[key] = kept[key]
      /\ form.delegations =
            IF short THEN list ELSE [i \in DOMAIN list |-> without_nulls(list[i])]
  BY <1>1, <1>2, <1>3
<1>7. ASSUME NEW key \in {"publicKey", "agentId", "expiresAt", "notBefore"}
      PROVE  form[key] = IF passport[key] = Null THEN Absent ELSE passport[key]
  BY <1>1, <1>2, <1>6
<1>8. \A key \in DOMAIN form \ {"delegations"} :
         (IF form[key] = Null THEN Absent ELSE form[key]) = form[key]
  BY <1>2, <1>6
<1>9. /\ (IF form.delegations = Null THEN Absent ELSE form.delegations) = form.delegations
      /\ short <=> form.delegations \in {Absent, Malformed}
  <2>1. CASE short
    BY <1>4, <1>6, <2>1, ShapeAssumption
  <2>2. CASE ~short
    <3>1. passport.delegations \notin {Absent, Null, Malformed}
      BY <1>4, <2>2
    <3>. QED BY <1>1, <2>2, <3>1
  <2>. QED BY <2>1, <2>2
<1>10. canonicalize(form) = [key \in DOMAIN passport |-> Leaf(key, form[key])]
  <2>1. without_nulls(form)
           = [key \in DOMAIN form |-> IF form[key] = Null THEN Absent ELSE form[key]]
    BY <1>1 DEF without_nulls
  <2>2. \A key \in DOMAIN form : without_nulls(form)[key] = form[key]
    BY <1>8, <1>9, <2>1
  <2>3. canonicalize(form)
           = [key \in DOMAIN form |-> Leaf(key, without_nulls(form)[key])]
    BY <1>1 DEF canonicalize
  <2>. QED BY <1>6, <2>2, <2>3
<1> DEFINE Objects(value) == IF value \in {Absent, Malformed} THEN value
                             ELSE [i \in DOMAIN value |-> canonicalize(value[i])]
<1>11. Objects(form.delegations) = Objects(list)
  <2>1. CASE short
    BY <1>6, <2>1
  <2>2. CASE ~short
    <3>1. list = passport.delegations /\ list \notin {Absent, Null, Malformed}
      BY <1>4, <2>2
    <3>2. \A i \in DOMAIN list : canonicalize(without_nulls(list[i])) = canonicalize(list[i])
      BY <1>1, <3>1, NullsAreNotSigned
    <3>3. form.delegations = [i \in DOMAIN list |-> without_nulls(list[i])]
      BY <1>6, <2>2
    <3>4. [i \in DOMAIN form.delegations |-> canonicalize(form.delegations[i])]
             = [i \in DOMAIN list |-> canonicalize(list[i])]
      BY <3>2, <3>3
    <3>. QED BY <1>9, <2>2, <3>4
  <2>. QED BY <2>1, <2>2
<1>12. agent_signature_preimage(form) = agent_signature_preimage(passport)
  <2>1. "delegations" \notin NumberMembers /\ "delegations" \in DOMAIN passport
    BY <1>1 DEF NumberMembers
  <2>2. agent_signature_preimage(passport)
           = [canonicalize(passport) EXCEPT !["delegations"] = Objects(@)]
    BY DEF agent_signature_preimage
  <2>3. agent_signature_preimage(form)
           = [canonicalize(form) EXCEPT !["delegations"] = Objects(@)]
    BY <1>1 DEF agent_signature_preimage
  <2> HIDE DEF Objects, Leaf
  <2>4. Leaf("delegations", kept["delegations"]) = list
    BY <2>1 DEF Leaf
  <2>5. Leaf("delegations", form["delegations"]) = form.delegations
    BY <2>1 DEF Leaf
  <2>6. agent_signature_preimage(passport)
           = [key \in DOMAIN passport |-> IF key = "delegations" THEN Objects(list)
                                                                  ELSE Leaf(key, kept[key])]
    BY <1>5, <2>1, <2>2, <2>4
  <2>7. agent_signature_preimage(form)
           = [key \in DOMAIN passport |->
                IF key = "delegations" THEN Objects(form.delegations) ELSE Leaf(key, form[key])]
    BY <1>10, <2>1, <2>3, <2>5
  <2>8. \A key \in DOMAIN passport \ {"delegations"} : Leaf(key, form[key]) = Leaf(key, kept[key])
    BY <1>6
  <2>. QED BY <1>11, <2>6, <2>7, <2>8
<1>. QED BY <1>1, <1>7, <1>12 DEF form

\* A passport that deserves it deserves it with its nulls erased.
LEMMA ErasedDeserves ==
    ASSUME signed \in Envelopes, Deserves(<<signed, options>>)
    PROVE  Deserves(<<[signed EXCEPT !.passport = PassportWithoutNulls(@)], options>>)
<1> DEFINE passport == signed.passport
           form == PassportWithoutNulls(passport)
           erased == [signed EXCEPT !["passport"] = form]
           now == parse_ms(options.evaluation_time)
           s == options.allowed_clock_skew_ms
<1>1. /\ now # Err /\ s \in I64 /\ now - s \in I64 /\ now + s \in I64
      /\ signed # NotObject /\ passport \notin {Absent, Null, NotObject}
      /\ ~Unsignable(signed.signature)
      /\ AgentSigned(signed)
      /\ read_ms(passport.expiresAt) # Err /\ read_ms(passport.expiresAt) + s >= now
      /\ \/ passport.notBefore = Absent
         \/ read_ms(passport.notBefore) # Err /\ read_ms(passport.notBefore) - s <= now
      /\ ~Blank(passport.agentId)
      /\ \/ options.trusted_issuers = {} /\ options.allow_self_signed
         \/ Vouched(signed, options.trusted_issuers)
  BY DEF Deserves
<1>2. /\ form \notin {Absent, Null, NotObject}
      /\ \A key \in {"publicKey", "agentId", "expiresAt", "notBefore"} :
            form[key] = IF passport[key] = Null THEN Absent ELSE passport[key]
      /\ agent_signature_preimage(form) = agent_signature_preimage(passport)
  BY <1>1, ErasedPassport
<1>3. /\ erased.passport = form /\ erased.signature = signed.signature
      /\ erased.signedAt = signed.signedAt
      /\ erased.issuerSignature = signed.issuerSignature
  BY <1>1, EnvelopeAssumption
<1>4. /\ passport.publicKey \in Text
      /\ verify_ed25519(agent_signature_preimage(passport), signed.signature,
                        passport.publicKey)
  BY <1>1 DEF AgentSigned, member
<1>5. /\ form.publicKey = passport.publicKey /\ form.agentId = passport.agentId
      /\ form.expiresAt = passport.expiresAt
  BY <1>1, <1>2, <1>4, ShapeAssumption DEF Blank, read_ms
<1>6. form.notBefore = passport.notBefore
  <2>1. passport.notBefore = Null => passport.notBefore = Absent
    BY <1>1, ShapeAssumption DEF read_ms
  <2>. QED BY <1>2, <2>1
<1> HIDE DEF form, passport, erased
<1>7. AgentSigned(erased)
  BY <1>2, <1>3, <1>4, <1>5 DEF AgentSigned, member, form
<1>8. issuer_signature_preimage(erased) = issuer_signature_preimage(signed)
  BY <1>2, <1>3 DEF issuer_signature_preimage, form, passport
<1>9. Vouched(signed, options.trusted_issuers) => Vouched(erased, options.trusted_issuers)
  BY <1>3, <1>8 DEF Vouched
<1>10. erased # NotObject
  BY <1>1, EnvelopeAssumption DEF erased, form, passport
<1>. QED
  BY <1>1, <1>2, <1>3, <1>5, <1>6, <1>7, <1>9, <1>10 DEF Deserves, form, passport, erased

\* Null members, which the agent's signature does not cover, make no passport
\* valid that is not valid without them.
THEOREM NullsNeverHelp == PassportSpec => []NullNeverHelps
<1>1. PassportInit => signed \in Envelopes
  BY DEF PassportInit
<1>2. signed \in Envelopes /\ [PassportNext]_passportVars => (signed \in Envelopes)'
  BY DEF PassportNext, RefuseTime, RefuseSkew, ApplyOptions, RefuseEnvelope, OpenEnvelope,
         CheckSignature, CheckAuthority, CheckWindow, CheckFields, ObserveDelegation,
         Conclude, Find, Return, passportVars
<1>3. PassportSpec => [](signed \in Envelopes)
  BY <1>1, <1>2, PTL DEF PassportSpec
<1>4. ASSUME signed \in Envelopes, PassportInv, AnswerRight, Valid
      PROVE  Deserves(<<[signed EXCEPT !.passport = PassportWithoutNulls(@)], options>>)
  <2>1. result # Pending
    BY <1>4 DEF Valid, Verified, Pending
  <2>2. Deserves(<<signed, options>>)
    BY <1>4, <2>1 DEF AnswerRight
  <2>. QED BY <1>4, <2>2, ErasedDeserves
<1>5. signed \in Envelopes /\ PassportInv /\ AnswerRight => NullNeverHelps
  BY <1>4 DEF NullNeverHelps
<1>. QED BY <1>3, <1>5, InvHolds, AnswersRight, PTL
=============================================================================
