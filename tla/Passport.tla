------------------------------ MODULE Passport ------------------------------
(***************************************************************************)
(* verify_passport (passport.rs): one call on one signed envelope.  The    *)
(* checks run one after the other and, once the envelope is open, none of  *)
(* them stops the call: what each finds is added to the errors and the     *)
(* warnings.                                                               *)
(*                                                                         *)
(*   options      the evaluation time and the skew are applied             *)
(*   envelope     it has a passport and a signature                        *)
(*   signature    the agent's, over the passport                           *)
(*   authority    an issuer's, or the caller's opt-in                      *)
(*   window       expiry and activation                                    *)
(*   fields       required members                                         *)
(*   delegations  the embedded ones are looked at, one by one              *)
(*   done         a result is out                                          *)
(***************************************************************************)
EXTENDS JsonValue, Sequences, Crypto

CONSTANTS
    Envelopes,      \* the values a call may be given as signed passport
    Options         \* the options it may be given

ASSUME OptionsAssumption ==
    \A o \in Options :
        /\ DOMAIN o = {"trusted_issuers", "allow_self_signed",
                       "evaluation_time", "allowed_clock_skew_ms"}
        /\ o.trusted_issuers \subseteq Text
        /\ o.allow_self_signed \in BOOLEAN
        /\ o.evaluation_time \in Text
        /\ o.allowed_clock_skew_ms \in Nat

VARIABLES
    signed, options,        \* the arguments
    pc,                     \* the next check, see above
    at,                     \* the embedded delegation to look at next, from 1
    errors, warnings,       \* what was found so far
    self_signed_accepted,   \* the caller's opt-in was used
    result                  \* Pending until there is one

passportVars == <<signed, options, pc, at, errors, warnings,
                  self_signed_accepted, result>>

PassportErrors ==
    {"MissingPassportOrSignature", "InvalidSignature",
     "NoIssuerCountersignature", "UntrustedIssuer",
     "InvalidIssuerCountersignature", "Expired", "InvalidExpiry",
     "NotYetValid", "InvalidNotBefore", "MissingAgentId", "MissingPublicKey",
     "AuthorityNotEstablished"}

PassportWarnings ==
    {"NoTrustedIssuers", "NoVersion", "NoCapabilities", "DelegationExpired",
     "DelegationInvalidExpiry", "DelegationSpendExhausted"}

----------------------------------------------------------------------------
(* The options *)

\* An i64 operation without its check wraps around.
checked_m(x) == ((x + MaxI64 + 1) % (2 * MaxI64 + 2)) - MaxI64 - 1

\* i64::try_from, and the range of checked_sub and checked_add.
checked(x) == IF x \in I64 THEN x ELSE Err

now_ms == parse_ms(options.evaluation_time)
skew == checked(options.allowed_clock_skew_ms)
expiry_floor == IF skew = Err THEN Err ELSE checked(now_ms - skew)
not_before_ceiling == IF skew = Err THEN Err ELSE checked(now_ms + skew)

----------------------------------------------------------------------------
(* What each check finds *)

member(object, key) == IF object = NotObject THEN Absent ELSE object[key]

\* as_str().is_none_or(str::is_empty)
Blank(value) == value \in {Absent, Null, Malformed, ""}

Unsignable(signature) ==
    signature \notin {Absent, Null, Malformed} => signature.chars = 0

agent_signature_preimage(passport) ==
    IF passport = NotObject THEN NotObject
    ELSE [canonicalize(passport) EXCEPT
            !.delegations = IF @ \in {Absent, Malformed} THEN @
                            ELSE [i \in DOMAIN @ |-> canonicalize(@[i])]]

issuer_signature_preimage(envelope) ==
    [passport |-> agent_signature_preimage(envelope.passport),
     signature |-> envelope.signature,
     signedAt |-> IF envelope.signedAt = Null THEN Absent ELSE envelope.signedAt]

\* A passport, and the objects embedded in it, without their null members.
PassportWithoutNulls(passport) ==
    IF passport = NotObject THEN NotObject
    ELSE [without_nulls(passport) EXCEPT
            !.delegations = IF @ \in {Absent, Malformed} THEN @
                            ELSE [i \in DOMAIN @ |-> without_nulls(@[i])]]

\* Envelopes and the objects in them have all their members, absent ones
\* included, and no object or list is one of the markers.
ASSUME EnvelopeAssumption ==
    \A e \in Envelopes \ {NotObject} :
        /\ e = [key \in {"passport", "signature", "signedAt", "issuerSignature"} |-> e[key]]
        /\ e.passport \notin {Absent, Null, NotObject} =>
              LET form == PassportWithoutNulls(e.passport)
                  list == e.passport.delegations
              IN  /\ {"publicKey", "agentId", "expiresAt", "notBefore", "delegations"}
                        \subseteq DOMAIN e.passport
                  /\ form \notin {Absent, Null, NotObject}
                  /\ [e EXCEPT !.passport = form] # NotObject
                  /\ list \notin {Absent, Null, Malformed} =>
                        /\ form.delegations \notin {Absent, Null, Malformed}
                        /\ \A i \in DOMAIN list :
                              list[i] # NotObject => without_nulls(list[i]) # NotObject

MalformedEnvelope(envelope) ==
    envelope # NotObject =>
        envelope.passport \in {Absent, Null} \/ Unsignable(envelope.signature)

AgentSigned(envelope) ==
    LET key == member(envelope.passport, "publicKey")
    IN  /\ key \in Text
        /\ verify_ed25519(agent_signature_preimage(envelope.passport),
                          envelope.signature, key)

\* The opt-in to self-signed passports also rescues a failed countersignature.
AuthorityErrors_m(envelope, o) ==
    LET issuer == envelope.issuerSignature
        countersigned ==
            ~(issuer \in {Absent, Null, Malformed} \/ Unsignable(issuer.signature)
              \/ Blank(issuer.issuerPublicKey))
    IN  CASE o.allow_self_signed -> {}
          [] ~o.allow_self_signed /\ o.trusted_issuers = {} ->
                {"AuthorityNotEstablished"}
          [] ~o.allow_self_signed /\ o.trusted_issuers # {} ->
                CASE ~countersigned -> {"NoIssuerCountersignature"}
                  [] countersigned /\ issuer.issuerPublicKey \notin o.trusted_issuers ->
                        {"UntrustedIssuer"}
                  [] OTHER -> {}

AuthorityErrors(envelope, o) ==
    LET issuer == envelope.issuerSignature
        countersigned ==
            ~(issuer \in {Absent, Null, Malformed} \/ Unsignable(issuer.signature)
              \/ Blank(issuer.issuerPublicKey))
    IN  CASE o.trusted_issuers = {} ->
                IF o.allow_self_signed THEN {} ELSE {"AuthorityNotEstablished"}
          [] o.trusted_issuers # {} /\ ~countersigned ->
                {"NoIssuerCountersignature"}
          [] o.trusted_issuers # {} /\ countersigned ->
                CASE issuer.issuerPublicKey \notin o.trusted_issuers ->
                        {"UntrustedIssuer"}
                  [] /\ issuer.issuerPublicKey \in o.trusted_issuers
                     /\ verify_ed25519(issuer_signature_preimage(envelope),
                                       issuer.signature, issuer.issuerPublicKey) -> {}
                  [] OTHER -> {"InvalidIssuerCountersignature"}

\* The key in the envelope is not compared with the expected one.
verify_issuer_signature_m(envelope, issuer_public_key) ==
    /\ envelope # NotObject
    /\ envelope.issuerSignature \notin {Absent, Null, Malformed}
    /\ envelope.issuerSignature.signature \notin {Absent, Null, Malformed}
    /\ verify_ed25519(issuer_signature_preimage(envelope),
                      envelope.issuerSignature.signature, issuer_public_key)

\* The countersignature by itself, against one expected key.
verify_issuer_signature(envelope, issuer_public_key) ==
    /\ envelope # NotObject
    /\ envelope.issuerSignature \notin {Absent, Null, Malformed}
    /\ envelope.issuerSignature.issuerPublicKey = issuer_public_key
    /\ envelope.issuerSignature.signature \notin {Absent, Null, Malformed}
    /\ verify_ed25519(issuer_signature_preimage(envelope),
                      envelope.issuerSignature.signature, issuer_public_key)

\* A null expiry is taken for one that was left out on purpose.
PassportWindowErrors_m(passport) ==
    LET expiry == read_ms(member(passport, "expiresAt"))
    IN  {error \in {"InvalidExpiry", "Expired"} :
            CASE error = "InvalidExpiry" ->
                    expiry = Err /\ member(passport, "expiresAt") # Null
              [] error = "Expired" -> Exceeds(expiry_floor, expiry)}

\* expiresAt is required, notBefore is not; a null one is there and unreadable.
PassportWindowErrors(passport) ==
    LET expiry == read_ms(member(passport, "expiresAt"))
        from == member(passport, "notBefore")
    IN  {error \in {"InvalidExpiry", "Expired", "InvalidNotBefore", "NotYetValid"} :
            CASE error = "InvalidExpiry" -> expiry = Err
              [] error = "Expired" -> Exceeds(expiry_floor, expiry)
              [] error = "InvalidNotBefore" -> from # Absent /\ read_ms(from) = Err
              [] error = "NotYetValid" -> Exceeds(read_ms(from), not_before_ceiling)}

FieldErrors(passport) ==
    {error \in {"MissingAgentId", "MissingPublicKey"} :
        Blank(member(passport, IF error = "MissingAgentId" THEN "agentId"
                                                           ELSE "publicKey"))}

FieldWarnings(passport) ==
    {warning \in {"NoVersion", "NoCapabilities"} :
        CASE warning = "NoVersion" -> Blank(member(passport, "version"))
          [] warning = "NoCapabilities" ->
                member(passport, "capabilities")
                    \in {Absent, Null, Malformed, << >>}}

\* What an embedded delegation is worth saying; its skew is none.
DelegationWarnings(delegation) ==
    LET expiresAt == member(delegation, "expiresAt")
        limit == as_f64(member(delegation, "spendLimit"))
        spent == as_f64(member(delegation, "spentAmount"))
    IN  {warning \in {"DelegationInvalidExpiry", "DelegationExpired",
                      "DelegationSpendExhausted"} :
            CASE warning = "DelegationInvalidExpiry" ->
                    expiresAt # Absent /\ read_ms(expiresAt) = Err
              [] warning = "DelegationExpired" ->
                    Exceeds(now_ms, read_ms(expiresAt))
              [] warning = "DelegationSpendExhausted" ->
                    {limit, spent} \cap {None, 0} = {} /\ spent >= limit}

Embedded(passport) ==
    IF member(passport, "delegations") \in {Absent, Null, Malformed} THEN << >>
    ELSE passport.delegations

----------------------------------------------------------------------------
(* The call *)

Pending == [kind |-> "Pending"]

PassportInit ==
    /\ signed \in Envelopes
    /\ options \in Options
    /\ pc = "options"
    /\ at = 1
    /\ errors = {} /\ warnings = {}
    /\ self_signed_accepted = FALSE
    /\ result = Pending

Return(value) ==
    /\ result' = value
    /\ pc' = "done"
    /\ UNCHANGED <<signed, options, at, errors, warnings, self_signed_accepted>>

\* A check adds what it finds and the call goes on.
Find(found, warned, next) ==
    /\ errors' = errors \cup found
    /\ warnings' = warnings \cup warned
    /\ pc' = next
    /\ UNCHANGED <<signed, options, result>>

Verification(valid, found, checked_issuers, self_signed) ==
    [kind |-> "Verification", valid |-> valid, errors |-> found,
     warnings |-> warnings, issuer_trust_checked |-> checked_issuers,
     self_signed_accepted |-> self_signed]

RefuseTime ==
    /\ pc = "options" /\ now_ms = Err
    /\ Return([kind |-> "InvalidEvaluationTime"])

RefuseSkew ==
    /\ pc = "options" /\ now_ms # Err
    /\ Err \in {skew, expiry_floor, not_before_ceiling}
    /\ Return([kind |-> "SkewArithmetic"])

ApplyOptions ==
    /\ pc = "options" /\ now_ms # Err
    /\ Err \notin {skew, expiry_floor, not_before_ceiling}
    /\ Find({}, {}, "envelope") /\ UNCHANGED <<at, self_signed_accepted>>

RefuseEnvelope ==
    /\ pc = "envelope" /\ MalformedEnvelope(signed)
    /\ Return(Verification(FALSE, {"MissingPassportOrSignature"}, FALSE, FALSE))

OpenEnvelope ==
    /\ pc = "envelope" /\ ~MalformedEnvelope(signed)
    /\ Find({}, {}, "signature") /\ UNCHANGED <<at, self_signed_accepted>>

\* A bad signature ends the checks.
CheckSignature_m ==
    /\ pc = "signature"
    /\ IF AgentSigned(signed)
       THEN Find({}, {}, "authority") ELSE Find({"InvalidSignature"}, {}, "delegations")
    /\ UNCHANGED <<at, self_signed_accepted>>

CheckSignature ==
    /\ pc = "signature"
    /\ Find(IF AgentSigned(signed) THEN {} ELSE {"InvalidSignature"}, {}, "authority")
    /\ UNCHANGED <<at, self_signed_accepted>>

CheckAuthority ==
    LET opted_in == options.trusted_issuers = {} /\ options.allow_self_signed
    IN  /\ pc = "authority"
        /\ Find(AuthorityErrors(signed, options),
                IF opted_in THEN {"NoTrustedIssuers"} ELSE {}, "window")
        /\ self_signed_accepted' = opted_in
        /\ UNCHANGED at

CheckWindow ==
    /\ pc = "window"
    /\ Find(PassportWindowErrors(signed.passport), {}, "fields")
    /\ UNCHANGED <<at, self_signed_accepted>>

CheckFields ==
    /\ pc = "fields"
    /\ Find(FieldErrors(signed.passport), FieldWarnings(signed.passport), "delegations")
    /\ UNCHANGED <<at, self_signed_accepted>>

\* What is said of an embedded delegation counts against the passport.
ObserveDelegation_m ==
    /\ pc = "delegations" /\ at <= Len(Embedded(signed.passport))
    /\ Find(DelegationWarnings(Embedded(signed.passport)[at]), {}, "delegations")
    /\ at' = at + 1
    /\ UNCHANGED self_signed_accepted

ObserveDelegation ==
    /\ pc = "delegations" /\ at <= Len(Embedded(signed.passport))
    /\ Find({}, DelegationWarnings(Embedded(signed.passport)[at]), "delegations")
    /\ at' = at + 1
    /\ UNCHANGED self_signed_accepted

Conclude ==
    /\ pc = "delegations" /\ at > Len(Embedded(signed.passport))
    /\ Return(Verification(errors = {}, errors, options.trusted_issuers # {},
                           self_signed_accepted /\ errors = {}))

PassportNext ==
    \/ RefuseTime \/ RefuseSkew \/ ApplyOptions
    \/ RefuseEnvelope \/ OpenEnvelope
    \/ CheckSignature \/ CheckAuthority \/ CheckWindow \/ CheckFields
    \/ ObserveDelegation \/ Conclude

\* The call is plain sequential code: a step that can be taken is taken.
PassportSpec ==
    PassportInit /\ [][PassportNext]_passportVars /\ WF_passportVars(PassportNext)

----------------------------------------------------------------------------
(* Properties *)

Verified == result.kind = "Verification"
Valid == Verified /\ result.valid

\* The type invariant.
PassportTypeOK ==
    /\ options \in Options
    /\ pc \in {"options", "envelope", "signature", "authority", "window",
              "fields", "delegations", "done"}
    /\ at \in Nat \ {0}
    /\ errors \subseteq PassportErrors /\ warnings \subseteq PassportWarnings
    /\ self_signed_accepted \in BOOLEAN
    /\ result.kind \in {"Pending", "InvalidEvaluationTime", "SkewArithmetic",
                       "Verification"}
    /\ pc = "done" <=> result # Pending

\* This key, read from hex, made this signature over this message, and it is
\* encoded the one way that verify_strict takes.
MadeBy(signature, key, message) ==
    /\ signature.bytes # BadHex
    /\ ~signature.bytes.small_order_r /\ signature.bytes.reduced
    /\ signature.bytes.by = KeyHex[key].bytes
    /\ signature.bytes.over = message

\* A trusted issuer countersigned this passport, with the agent's signature
\* and date that are in the envelope.
Vouched(envelope, issuers) ==
    LET issuer == envelope.issuerSignature
    IN  /\ issuer \notin {Absent, Null, Malformed}
        /\ issuer.issuerPublicKey \in issuers \ {""}
        /\ ~Unsignable(issuer.signature)
        /\ issuer.signature.chars = 128 /\ KeyHex[issuer.issuerPublicKey].chars = 64
        /\ KeyHex[issuer.issuerPublicKey].bytes \in Points \ SmallOrder
        /\ MadeBy(issuer.signature, issuer.issuerPublicKey,
                  issuer_signature_preimage(envelope))

\* A signature says who signed, not who vouches: nothing is valid without a
\* countersignature of a trusted issuer on exactly this envelope, unless the
\* caller named no issuer and opted in, and then the warning says so.  "A
\* caller that must not act on a self-vouching passport branches on" the flag
\* self_signed_accepted: it is set exactly on the valid results that no issuer
\* stands behind.
ValidHasAuthority ==
    /\ Valid =>
          IF options.trusted_issuers # {}
          THEN Vouched(signed, options.trusted_issuers) /\ result.issuer_trust_checked
          ELSE options.allow_self_signed /\ "NoTrustedIssuers" \in result.warnings
    /\ Verified => (result.self_signed_accepted
                       <=> result.valid /\ ~result.issuer_trust_checked)

\* The skew moves both edges of the window by exactly its amount, in the
\* integers and not modulo 2^64, or the call is refused.
SkewIsExact ==
    LET passport == signed.passport
        s == options.allowed_clock_skew_ms
    IN  /\ result.kind = "SkewArithmetic"
              => s > MaxI64 \/ now_ms - s \notin I64 \/ now_ms + s \notin I64
        /\ Verified /\ ~MalformedEnvelope(signed) =>
              /\ "Expired" \in result.errors
                    <=> Exceeds(now_ms - s, read_ms(member(passport, "expiresAt")))
              /\ "NotYetValid" \in result.errors
                    <=> Exceeds(read_ms(member(passport, "notBefore")), now_ms + s)

\* One failure does not hide another: "errors" is every check that failed,
\* however many there are.
EveryFailureReported ==
    Verified /\ ~MalformedEnvelope(signed) =>
        result.errors =
            AuthorityErrors(signed, options)
            \cup PassportWindowErrors(signed.passport)
            \cup FieldErrors(signed.passport)
            \cup (IF AgentSigned(signed) THEN {} ELSE {"InvalidSignature"})

\* The stand-alone check, asked of each trusted issuer, and the authority step
\* of the call, which reads the envelope in its own way and names what is wrong
\* with it, find the same envelopes countersigned.
IssuerChecksAgree ==
    Verified /\ ~MalformedEnvelope(signed) /\ options.trusted_issuers # {} =>
        (\E issuer \in options.trusted_issuers : verify_issuer_signature(signed, issuer))
            <=> result.errors \cap {"NoIssuerCountersignature", "UntrustedIssuer",
                                    "InvalidIssuerCountersignature"} = {}

\* The whole of it, for an envelope and options as they are given.
Deserves(argument) ==
    LET envelope == argument[1]
        passport == envelope.passport
        o == argument[2]
        now == parse_ms(o.evaluation_time)
        s == o.allowed_clock_skew_ms
        expiry == read_ms(passport.expiresAt)
        from == passport.notBefore
    IN  /\ now # Err /\ s \in I64 /\ now - s \in I64 /\ now + s \in I64
        /\ envelope # NotObject /\ passport \notin {Absent, Null, NotObject}
        /\ ~Unsignable(envelope.signature)
        /\ AgentSigned(envelope)
        /\ expiry # Err /\ expiry + s >= now
        /\ from = Absent \/ (read_ms(from) # Err /\ read_ms(from) - s <= now)
        /\ ~Blank(passport.agentId)
        /\ \/ o.trusted_issuers = {} /\ o.allow_self_signed
           \/ Vouched(envelope, o.trusted_issuers)

IsPassportCall(argument) ==
    argument[1] \in Envelopes /\ argument[2] \in Options

PassportPromise == INSTANCE Decision WITH
    IsArgument <- IsPassportCall, Good <- Deserves,
    argument <- <<signed, options>>,
    answer <- IF result = Pending THEN "pending"
              ELSE IF Valid THEN "yes" ELSE "no"

\* Every call returns, and its result is valid exactly for a passport that
\* deserves it: no warning and no embedded delegation has a say.
ImplementsPassportPromise == PassportPromise!Spec

\* A null member is as good as none to whoever signed the passport, so anyone
\* can put it there: it never makes a passport valid that is not.
NullNeverHelps ==
    Valid => Deserves(<<[signed EXCEPT !.passport = PassportWithoutNulls(@)],
                        options>>)

----------------------------------------------------------------------------
(* Statements of the documentation that the code does not meet *)

\* "A present but non-parsing expiresAt or notBefore on a passport is an error
\* of its own ... Absence still leaves that edge of the window open"
\* (README.md:84-90).
AbsenceLeavesWindowOpen ==
    Verified /\ ~MalformedEnvelope(signed) =>
        /\ member(signed.passport, "expiresAt") = Absent
              => result.errors \cap {"InvalidExpiry", "Expired"} = {}
        /\ member(signed.passport, "notBefore") = Absent
              => result.errors \cap {"InvalidNotBefore", "NotYetValid"} = {}
=============================================================================
