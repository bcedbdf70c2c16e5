----------------------------- MODULE MCReceipt -----------------------------
(***************************************************************************)
(* A small instance of Receipt: receipts that depart from a good one in    *)
(* one or two members, and lists of evidence and of signatures of up to    *)
(* three entries in every order, some entries bad.                         *)
(***************************************************************************)
EXTENDS Receipt, MCJsonValue

CONSTANT unsigned       \* model value: what a placeholder is the digest of

MCFormatted(instant) == IF instant = 12 THEN "noon" ELSE "dusk"

\* Byte order: capitals first.
Order == <<"", "*", "1", "ANNA", "Ed25519", "agent", "anna", "aps-receipt-v1", "ben",
           "card", "currency", "digest 1", "digest 2", "dusk", "garbled", "lowly",
           "noon", "noon elsewhere", "pay", "read", "tokens">>

\* What the resolver may answer with.
ResolverKeys == [t \in {"", "anna", "ANNA", "ben", "lowly"} |-> TheKeyHex[t]]

AllRank == [t \in AllText |-> CHOOSE i \in DOMAIN Order : Order[i] = t]

----------------------------------------------------------------------------
(* Receipts without their signatures *)

Result(number, detail) == [number |-> number, detail |-> detail]

Bare ==
    [extra |-> FALSE, profile |-> "aps-receipt-v1", receipt_type |-> "agent",
     receipt_id |-> [hex64 |-> FALSE, of |-> unsigned],
     issuer |-> "anna", subject_agent |-> "agent", action_ref |-> "digest 1",
     delegation_ref |-> "tokens", decision_ref |-> absent, prev |-> absent,
     issued_at |-> "noon", result |-> Result("2", absent),
     evidence_refs |-> << >>, signatures |-> << >>]

Named(r) == [r EXCEPT !.receipt_id = compute_receipt_id_v1(r)]

Evidence(type, digest) == [extra |-> FALSE, artifact_type |-> type, sha256 |-> digest]

Evidences ==
    {Evidence(type, digest) : type \in {"1", "agent"}, digest \in {"digest 1", "digest 2"}}
BadEvidences ==
    {notObject, [Evidence("1", "digest 1") EXCEPT !.extra = TRUE],
     Evidence("", "digest 1"), Evidence("1", "noon"), Evidence("1", absent)}

UpTo(n, entries) == UNION {[1..k -> entries] : k \in 0..n}

\* Signed by its issuer, under one key and with these departures.
By(r, key, signer, key_id) ==
    LET made == Signature(key, receipt_signature_payload_v1(r, signer, key_id))
    IN  [chars |-> made.chars, bytes |-> made.bytes, lower_hex |-> TRUE]

Entry(signer, key_id, value) ==
    [extra |-> FALSE, signer |-> signer, key_id |-> key_id, alg |-> "Ed25519",
     value |-> value]

Sealed(r) ==
    [r EXCEPT !.signatures = <<Entry("anna", "1", By(r, "A", "anna", "1"))>>]

----------------------------------------------------------------------------
(* The families *)

\* Members of a wrong kind, and what is not sealed again after an edit.
Departing ==
    LET With(key, values) == {[Named(Bare) EXCEPT ![key] = v] : v \in values}
        shapes == {absent, null, malformed}
    IN  With("extra", {TRUE})
        \cup UNION {With(key, shapes) : key \in REQUIRED_KEYS \ {"signatures"}}
        \cup UNION {With(key, {""}) : key \in Identifiers}
        \cup UNION {With(key, {null, malformed, "noon", "digest 2"}) :
                        key \in {"action_ref", "decision_ref", "prev"}}
        \cup With("profile", {"agent"})
        \cup With("issued_at", {"noon elsewhere", "garbled", "dusk"})
        \cup With("result", {Result(n, d) : n \in {"1", "2.0", "3"}, d \in {absent, null}})
        \cup With("receipt_id", {Bare.receipt_id})

SchemaFamily ==
    {notObject, [Bare EXCEPT !.signatures = null], [Bare EXCEPT !.signatures = malformed],
     [Bare EXCEPT !.signatures = absent]}
    \cup {[r EXCEPT !.signatures = Sealed(Named(Bare)).signatures] : r \in Departing}
    \cup {Sealed(Named(r)) : r \in {d \in Departing :
            d.result \notin {absent, null, malformed}
            /\ d.receipt_id \notin {absent, null, malformed}}}

EvidenceFamily ==
    {Sealed(Named([Bare EXCEPT !.evidence_refs = list])) :
        list \in UpTo(3, Evidences) \cup UpTo(2, Evidences \cup BadEvidences)}

\* Good values, one made for another descriptor, one for another receipt, one
\* by another key, one in capitals, and one by a small-order key.
Entries(r) ==
    {Entry(signer, key_id, By(r, IF signer = "anna" THEN "A" ELSE "B", signer, key_id)) :
        signer \in {"anna", "ben"}, key_id \in {"1", "agent"}}
OddEntries(r) ==
    LET good == By(r, "A", "anna", "1")
        E(value) == Entry("anna", "1", value)
    IN  {E(By(r, "A", "anna", "agent")), E(By(r, "A", "ben", "1")),
         E(By(Named([r EXCEPT !.prev = "digest 1"]), "A", "anna", "1")),
         E(By(r, "B", "anna", "1")), E(By(r, "anyone", "anna", "1")),
         E([good EXCEPT !.lower_hex = FALSE]), E([good EXCEPT !.chars = 64]),
         E([good EXCEPT !.bytes.reduced = FALSE])}
BadEntries(r) ==
    LET good == Entry("anna", "1", By(r, "A", "anna", "1"))
    IN  {notObject, [good EXCEPT !.extra = TRUE], [good EXCEPT !.alg = "agent"],
         [good EXCEPT !.signer = ""], [good EXCEPT !.key_id = null],
         [good EXCEPT !.value = absent], [good EXCEPT !.value = malformed]}

SignatureFamily ==
    LET r == Named(Bare)
        mistaken == [r EXCEPT !.receipt_id.of = unsigned]
    IN  {[r EXCEPT !.signatures = list] :
            list \in UpTo(3, Entries(r)) \cup UpTo(1, OddEntries(r) \cup BadEntries(r))
                     \cup {<<e, f>> : e \in Entries(r), f \in OddEntries(r) \cup BadEntries(r)}
                     \cup {<<f, e>> : e \in Entries(r), f \in OddEntries(r) \cup BadEntries(r)}}
        \cup {[mistaken EXCEPT !.signatures = list] : list \in UpTo(2, Entries(mistaken))}

AllReceipts == SchemaFamily \cup EvidenceFamily \cup SignatureFamily

\* See MCJsonValue.
MCReceipts == AllReceipts
MCRank == AllRank
MCResolverKeys == ResolverKeys
=============================================================================
