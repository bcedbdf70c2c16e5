----------------------------- MODULE MCPassport -----------------------------
(***************************************************************************)
(* A small instance of Passport: passports that depart from a good one in  *)
(* at most one member, in envelopes that depart from the good one in at    *)
(* most one more, under every combination of the options.                  *)
(***************************************************************************)
EXTENDS Passport, MCJsonValue

MaxInteger == 31    \* the largest i64: "dusk" and the longest skew exceed it

Plain ==
    [publicKey |-> "anna", agentId |-> "agent", version |-> "1",
     expiresAt |-> "dusk", notBefore |-> absent,
     capabilities |-> <<"read">>, delegations |-> absent]

Delegation(expiry, limit, spent) ==
    [expiresAt |-> expiry, spendLimit |-> limit, spentAmount |-> spent]

Passports ==
    LET With(key, values) == {[Plain EXCEPT ![key] = v] : v \in values}
    IN  With("publicKey", {"anna", "ben", "lowly", "", null})
        \cup With("agentId", {"", null})
        \cup With("version", {absent})
        \cup With("capabilities", {absent, << >>})
        \cup With("expiresAt", {"noon", "garbled", null, absent, malformed})
        \cup With("notBefore", {"noon", "dusk", "", null})
        \cup With("delegations",
                  {<<notObject, Delegation("noon", "1", "1")>>,
                   <<Delegation("garbled", "0", "1"), Delegation(absent, "2", "1")>>})
        \cup {notObject}

\* Signed by the agent and countersigned, some of it badly.
EnvelopesOf(passport) ==
    LET by(key) == Signature(key, agent_signature_preimage(passport))
        Bare(signature) == [passport |-> passport, signature |-> signature,
                            signedAt |-> "noon", issuerSignature |-> absent]
        Countersign(envelope, key, name) ==
            [envelope EXCEPT !.issuerSignature =
                [issuerPublicKey |-> name,
                 signature |-> Signature(key, issuer_signature_preimage(envelope))]]
        good == Countersign(Bare(by("A")), "B", "ben")
    IN  {good, Bare(by("A")), Countersign(Bare(by("B")), "B", "ben"),
         Countersign(Bare(by("A")), "A", "anna"),
         Countersign(Bare(by("A")), "A", "ben"),
         Countersign(Bare(by("A")), "B", "anna"),
         [good EXCEPT !.issuerSignature.signature = absent],
         [good EXCEPT !.issuerSignature.issuerPublicKey = null],
         Countersign(Bare(by("anyone")), "B", "ben"),
         [good EXCEPT !.signedAt = "dusk"],
         [good EXCEPT !.signature = malformed],
         [good EXCEPT !.issuerSignature = malformed]}

AllEnvelopes ==
    UNION {EnvelopesOf(passport) : passport \in Passports}
    \cup {notObject,
          [passport |-> null, signature |-> absent, signedAt |-> absent,
           issuerSignature |-> absent]}

AllOptions ==
    [trusted_issuers : {{}, {"ben"}, {"", "anna", "ben"}}, allow_self_signed : BOOLEAN,
     evaluation_time : {"noon", "dusk", "garbled"},
     allowed_clock_skew_ms : {0, 8, 15, 40}]

\* See MCJsonValue.
MCEnvelopes == AllEnvelopes
MCOptions == AllOptions
=============================================================================
