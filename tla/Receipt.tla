------------------------------ MODULE Receipt ------------------------------
(***************************************************************************)
(* validate_receipt_v1 and verify_receipt_v1 (receipt_core.rs): one call   *)
(* on one receipt, one action per iteration of the loops.                  *)
(*                                                                         *)
(*   schema      the members of the receipt itself                         *)
(*   evidence    evidence_refs, one by one                                 *)
(*   signatures  the descriptors, one by one; validation ends here         *)
(*   identity    the receipt_id is recomputed                              *)
(*   keys        the caller's resolver is asked for each signature's key,  *)
(*               and the signature is checked                              *)
(*   done        an answer is out                                          *)
(*                                                                         *)
(* A receipt is NotObject or a record of the members of the closed schema, *)
(* with extra for "it has others".  A result that is an object is a record *)
(* of a number and of a detail, which may be null.  A receipt_id that is   *)
(* text is [hex64, of], the payload it is the digest of; a signature value *)
(* that is text is what Crypto takes, with lower_hex.  The digest is       *)
(* external and one-to-one.                                                *)
(***************************************************************************)
EXTENDS JsonValue, Sequences, Crypto

CONSTANTS
    Receipts,       \* the values a call may be given
    Hex64,          \* the texts that are 64 lower-case hex digits
    Rank,           \* the place of a text in byte order
    Formatted(_),   \* the text of an instant, to the millisecond and in UTC
    Unsafe          \* numbers that are not finite, or integral and beyond 2^53 - 1

ASSUME KeyAssumption == "" \in DOMAIN KeyHex

\* The members of the closed schema, and "extra".
Keys ==
    {"extra", "profile", "receipt_id", "receipt_type", "issuer",
     "subject_agent", "action_ref", "delegation_ref", "decision_ref",
     "issued_at", "evidence_refs", "result", "prev", "signatures"}

ASSUME ReceiptAssumption ==
    \A r \in Receipts \ {NotObject} :
        /\ r = [key \in Keys |-> r[key]]
        /\ r.receipt_id \notin {Absent, Null, Malformed} =>
              r.receipt_id \in {[hex64 |-> b, of |-> r.receipt_id.of] : b \in BOOLEAN}
        /\ \A key \in {"evidence_refs", "signatures"} :
              r[key] \notin {Absent, Null, Malformed} =>
                  Len(r[key]) \in Nat /\ DOMAIN r[key] = 1..Len(r[key])
        /\ r.signatures \notin {Absent, Null, Malformed} =>
              \A i \in DOMAIN r.signatures :
                  LET value == r.signatures[i].value
                  IN  (/\ r.signatures[i] # NotObject
                       /\ value \notin {Absent, Null, Malformed}
                       /\ value.lower_hex /\ value.chars = 128)
                      => value.bytes # BadHex
        /\ r.result \notin {Absent, Null, Malformed} =>
              r.result \in [number : Number, detail : {Absent, Null}]

ASSUME HexAssumption == Hex64 \subseteq Text \ {""}
ASSUME ProfileAssumption == "aps-receipt-v1" \in Text
ASSUME RankAssumption ==
    /\ Rank \in [Text -> Nat]
    /\ \A a, b \in Text : Rank[a] = Rank[b] => a = b

\* The key of an entry is not the absence of one.
ASSUME PairAssumption == None \notin Text \X Text

VARIABLES
    receipt, call,      \* the arguments, and which function was called
    pc, at,             \* see above; the entry of a list to look at, from 1
    seen, previous,     \* the keys of the entries before it, and the last one
    issuer_signed,      \* one of them names the issuer
    validation,         \* "pending", "Ok" or an error
    heard,              \* what the resolver was asked and answered, in order
    receipt_id_valid, signature_results, errors
                        \* struct ReceiptVerification, valid without errors

verificationVars == <<heard, receipt_id_valid, signature_results, errors>>
receiptVars == <<receipt, call, pc, at, seen, previous, issuer_signed,
                 validation, verificationVars>>

\* "draft" is validation without require_values.
Calls == {"draft", "validate", "verify"}
require_values == call # "draft"

ReceiptErrors ==
    {"NotAnObject", "UnknownField", "MissingField", "NotStrictIJson",
     "WrongProfile", "EmptyIdentifier", "InvalidHex64", "InvalidIssuedAt",
     "InvalidResult", "NotArrays", "InvalidEvidenceRef",
     "DuplicateEvidenceRef", "EvidenceRefsNotSorted",
     "InvalidSignatureDescriptor", "DuplicateSignature",
     "SignaturesNotSorted", "IssuerSignatureMissing"}

----------------------------------------------------------------------------
(* The closed schema *)

Identifiers == {"receipt_type", "issuer", "subject_agent", "delegation_ref"}

REQUIRED_KEYS ==
    Identifiers \cup {"profile", "receipt_id", "action_ref", "issued_at",
                      "evidence_refs", "result", "signatures"}

Name == Text \ {""}

\* The member has a JSON type its key does not have.
Mistyped(value) == value \in {Null, Malformed}

\* assert_ijson: the rule for numbers.
assert_ijson(object) ==
    object.result \in {Absent, Null, Malformed}
    \/ object.result.number \notin Unsafe

\* The text is the only one that says this instant.
is_exact_utc_milliseconds(text) ==
    parse_ms(text) # Err /\ Formatted(parse_ms(text)) = text

SchemaRules ==
    <<"NotAnObject", "UnknownField", "MissingField", "NotStrictIJson",
      "WrongProfile", "EmptyIdentifier", "InvalidHex64", "InvalidIssuedAt",
      "InvalidResult", "NotArrays">>

FailsSchema(rule, r, values) ==
    CASE rule = "NotAnObject" -> r = NotObject
      [] rule = "UnknownField" -> r.extra
      [] rule = "MissingField" -> \E key \in REQUIRED_KEYS : r[key] = Absent
      [] rule = "NotStrictIJson" -> ~assert_ijson(r)
      [] rule = "WrongProfile" -> r.profile # "aps-receipt-v1"
      [] rule = "EmptyIdentifier" -> \E key \in Identifiers : r[key] \notin Name
      [] rule = "InvalidHex64" ->
            ~(/\ ~Mistyped(r.receipt_id)
              /\ values => r.receipt_id.hex64
              /\ r.action_ref \in Hex64
              /\ {r.decision_ref, r.prev} \subseteq Hex64 \cup {Absent})
      [] rule = "InvalidIssuedAt" ->
            ~(r.issued_at \in Text /\ is_exact_utc_milliseconds(r.issued_at))
      [] rule = "InvalidResult" -> Mistyped(r.result)
      [] rule = "NotArrays" -> Mistyped(r.evidence_refs) \/ Mistyped(r.signatures)

\* Pairs of texts are ordered by the first, then by the second.
Precedes(a, b) ==
    \/ Rank[a[1]] < Rank[b[1]]
    \/ a[1] = b[1] /\ Rank[a[2]] < Rank[b[2]]

EvidenceKey(entry) == <<entry.artifact_type, entry.sha256>>
SignatureKey(entry) == <<entry.signer, entry.key_id>>

Repeated(key) == key \in seen
Misplaced(key) == previous # None /\ ~Precedes(previous, key)

EvidenceRules ==
    <<"NotAnObject", "UnknownField", "InvalidEvidenceRef",
      "DuplicateEvidenceRef", "EvidenceRefsNotSorted">>

\* Entries of one artifact type may come in any order.
FailsEvidence_m(rule, entry) ==
    CASE rule = "NotAnObject" -> entry = NotObject
      [] rule = "UnknownField" -> entry.extra
      [] rule = "InvalidEvidenceRef" ->
            entry.artifact_type \notin Name \/ entry.sha256 \notin Hex64
      [] rule = "DuplicateEvidenceRef" -> Repeated(EvidenceKey(entry))
      [] rule = "EvidenceRefsNotSorted" ->
            previous # None /\ Rank[previous[1]] > Rank[entry.artifact_type]

FailsEvidence(rule, entry) ==
    CASE rule = "NotAnObject" -> entry = NotObject
      [] rule = "UnknownField" -> entry.extra
      [] rule = "InvalidEvidenceRef" ->
            entry.artifact_type \notin Name \/ entry.sha256 \notin Hex64
      [] rule = "DuplicateEvidenceRef" -> Repeated(EvidenceKey(entry))
      [] rule = "EvidenceRefsNotSorted" -> Misplaced(EvidenceKey(entry))

SignatureRules ==
    <<"NotAnObject", "UnknownField", "MissingField",
      "InvalidSignatureDescriptor", "DuplicateSignature", "SignaturesNotSorted">>

WellFormedValue(value, values) ==
    ~Mistyped(value) /\ (values => value.lower_hex /\ value.chars = 128)

\* A descriptor is compared with the one before it only.
FailsSignature_m(rule, entry) ==
    CASE rule = "NotAnObject" -> entry = NotObject
      [] rule = "UnknownField" -> entry.extra
      [] rule = "MissingField" ->
            \E key \in {"signer", "key_id", "alg", "value"} : entry[key] = Absent
      [] rule = "InvalidSignatureDescriptor" ->
            \/ entry.signer \notin Name \/ entry.key_id \notin Name
            \/ entry.alg # "Ed25519" \/ ~WellFormedValue(entry.value, require_values)
      [] rule = "DuplicateSignature" -> previous = SignatureKey(entry)
      [] rule = "SignaturesNotSorted" -> Misplaced(SignatureKey(entry))

FailsSignature(rule, entry) ==
    CASE rule = "NotAnObject" -> entry = NotObject
      [] rule = "UnknownField" -> entry.extra
      [] rule = "MissingField" ->
            \E key \in {"signer", "key_id", "alg", "value"} : entry[key] = Absent
      [] rule = "InvalidSignatureDescriptor" ->
            \/ entry.signer \notin Name \/ entry.key_id \notin Name
            \/ entry.alg # "Ed25519" \/ ~WellFormedValue(entry.value, require_values)
      [] rule = "DuplicateSignature" -> Repeated(SignatureKey(entry))
      [] rule = "SignaturesNotSorted" -> Misplaced(SignatureKey(entry))

\* The error by which a rule is reported.
ErrorOf(rule, list) ==
    IF rule # "NotAnObject" THEN rule
    ELSE IF list = "evidence_refs" THEN "InvalidEvidenceRef"
                                   ELSE "InvalidSignatureDescriptor"

----------------------------------------------------------------------------
(* Payloads *)

receipt_without(r, drop) == [key \in DOMAIN r \ drop |-> r[key]]

\* The value with the number in it passed through its double.
result_view(value) == [value EXCEPT !.number = to_double_view(@)]

\* As in the legacy form, null members are left out.
strict_jcs_m(body) ==
    [body EXCEPT !.result =
        [result_view(@) EXCEPT !.detail = IF @ = Null THEN Absent ELSE @]]

\* The canonical form of a body that passes assert_ijson, which is an error
\* otherwise.  Nothing but the spelling of numbers is lost.
strict_jcs(body) == [body EXCEPT !.result = result_view(@)]

receipt_id_payload_v1(r) ==
    [tag |-> "APS-RECEIPT-ID-V1",
     body |-> strict_jcs(receipt_without(r, {"receipt_id", "signatures"}))]

compute_receipt_id_v1(r) == [hex64 |-> TRUE, of |-> receipt_id_payload_v1(r)]

receipt_signature_payload_v1(r, signer, key_id) ==
    [tag |-> "APS-RECEIPT-SIG-V1",
     receipt |-> strict_jcs(receipt_without(r, {"signatures"})),
     signer |-> [signer |-> signer, key_id |-> key_id, alg |-> "Ed25519"]]

----------------------------------------------------------------------------
(* Validation *)

ReceiptInit ==
    /\ receipt \in Receipts /\ call \in Calls
    /\ pc = "schema" /\ at = 1
    /\ seen = {} /\ previous = None
    /\ issuer_signed = FALSE
    /\ validation = "pending"
    /\ heard = << >> /\ signature_results = << >>
    /\ receipt_id_valid = FALSE
    /\ errors = {}

\* A receipt that does not validate is not verified any further.
Refuse(error) ==
    /\ validation' = error
    /\ pc' = "done"
    /\ errors' = IF call = "verify" THEN {"Validation"} ELSE errors
    /\ UNCHANGED <<receipt, call, at, seen, previous, issuer_signed, heard,
                   receipt_id_valid, signature_results>>

\* The last key of one list is still there when the next begins.
BeginList_m(step) ==
    /\ pc' = step /\ at' = 1
    /\ seen' = {}
    /\ UNCHANGED <<receipt, call, previous, issuer_signed, validation, verificationVars>>

\* On to a list, from its first entry.
BeginList(step) ==
    /\ pc' = step /\ at' = 1
    /\ seen' = {} /\ previous' = None
    /\ UNCHANGED <<receipt, call, issuer_signed, validation, verificationVars>>

\* The entry is in order.
Remember(key, names_issuer) ==
    /\ at' = at + 1
    /\ seen' = seen \cup {key}
    /\ previous' = key
    /\ issuer_signed' = (issuer_signed \/ names_issuer)
    /\ UNCHANGED <<receipt, call, pc, validation, verificationVars>>

RefuseSchema ==
    LET Fails(rule) == FailsSchema(rule, receipt, require_values)
    IN  /\ pc = "schema"
        /\ \E i \in DOMAIN SchemaRules :
              /\ ~\E k \in 1..(i - 1) : Fails(SchemaRules[k])
              /\ Fails(SchemaRules[i])
              /\ Refuse(SchemaRules[i])

PassSchema ==
    /\ pc = "schema"
    /\ ~\E i \in DOMAIN SchemaRules :
          FailsSchema(SchemaRules[i], receipt, require_values)
    /\ BeginList("evidence")

ReadEvidence ==
    /\ pc = "evidence" /\ at <= Len(receipt.evidence_refs)
    /\ LET entry == receipt.evidence_refs[at]
       IN  /\ ~\E i \in DOMAIN EvidenceRules : FailsEvidence(EvidenceRules[i], entry)
           /\ Remember(EvidenceKey(entry), FALSE)

RefuseEvidence ==
    /\ pc = "evidence" /\ at <= Len(receipt.evidence_refs)
    /\ LET Fails(rule) == FailsEvidence(rule, receipt.evidence_refs[at])
       IN  \E i \in DOMAIN EvidenceRules :
              /\ ~\E k \in 1..(i - 1) : Fails(EvidenceRules[k])
              /\ Fails(EvidenceRules[i])
              /\ Refuse(ErrorOf(EvidenceRules[i], "evidence_refs"))

EndEvidence ==
    /\ pc = "evidence" /\ at > Len(receipt.evidence_refs)
    /\ BeginList("signatures")

ReadSignature ==
    /\ pc = "signatures" /\ at <= Len(receipt.signatures)
    /\ LET entry == receipt.signatures[at]
       IN  /\ ~\E i \in DOMAIN SignatureRules : FailsSignature(SignatureRules[i], entry)
           /\ Remember(SignatureKey(entry), entry.signer = receipt.issuer)

RefuseSignature ==
    /\ pc = "signatures" /\ at <= Len(receipt.signatures)
    /\ LET Fails(rule) == FailsSignature(rule, receipt.signatures[at])
       IN  \E i \in DOMAIN SignatureRules :
              /\ ~\E k \in 1..(i - 1) : Fails(SignatureRules[k])
              /\ Fails(SignatureRules[i])
              /\ Refuse(ErrorOf(SignatureRules[i], "signatures"))

RefuseIssuer ==
    /\ pc = "signatures" /\ at > Len(receipt.signatures)
    /\ require_values /\ ~issuer_signed
    /\ Refuse("IssuerSignatureMissing")

PassValidation ==
    /\ pc = "signatures" /\ at > Len(receipt.signatures)
    /\ require_values => issuer_signed
    /\ validation' = "Ok"
    /\ pc' = IF call = "verify" THEN "identity" ELSE "done"
    /\ UNCHANGED <<receipt, call, at, seen, previous, issuer_signed, verificationVars>>

----------------------------------------------------------------------------
(* Verification *)

CheckIdentity ==
    /\ pc = "identity"
    /\ receipt_id_valid' = (/\ assert_ijson(receipt)
                            /\ receipt.receipt_id = compute_receipt_id_v1(receipt))
    /\ errors' = IF receipt_id_valid' THEN errors ELSE errors \cup {"ReceiptIdMismatch"}
    /\ pc' = "keys" /\ at' = 1
    /\ UNCHANGED <<receipt, call, seen, previous, issuer_signed, validation, heard,
                   signature_results>>

\* KeyResolution: the resolver is the caller's, keeps its own state, and may
\* answer anything to anyone at any time.
KeyResolution ==
    [kind : {"Key"}, key : DOMAIN KeyHex] \cup [kind : {"Unresolved", "Error"}, key : {""}]

\* SignatureFailureReason
Reason(answer) ==
    CASE answer.kind = "Unresolved" -> "KeyUnresolved"
      [] answer.kind = "Error" -> "KeyResolutionError"
      [] OTHER -> "None"

SignatureResult(entry, answer) ==
    LET payload == receipt_signature_payload_v1(receipt, entry.signer, entry.key_id)
    IN  [signer |-> entry.signer, key_id |-> entry.key_id,
         valid |-> /\ answer.kind = "Key"
                   /\ assert_ijson(receipt)
                   /\ verify_ed25519(payload, entry.value, answer.key),
         reason |-> Reason(answer)]

Ask(entry, answer) ==
    heard' = Append(heard, [signer |-> entry.signer, key_id |-> entry.key_id,
                            issued_at |-> receipt.issued_at, answer |-> answer])

\* The resolver is asked again when it fails.
AskResolver_m ==
    /\ pc = "keys" /\ at <= Len(receipt.signatures)
    /\ \E answer \in KeyResolution :
          /\ Len(heard) <= Len(receipt.signatures)
          /\ Ask(receipt.signatures[at], answer)
          /\ IF answer.kind = "Error" THEN UNCHANGED <<at, signature_results>>
             ELSE /\ at' = at + 1
                  /\ signature_results' = Append(signature_results,
                        SignatureResult(receipt.signatures[at], answer))
    /\ UNCHANGED <<receipt, call, pc, seen, previous, issuer_signed, validation,
                   receipt_id_valid, errors>>

AskResolver ==
    /\ pc = "keys" /\ at <= Len(receipt.signatures)
    /\ \E answer \in KeyResolution :
          /\ Ask(receipt.signatures[at], answer)
          /\ signature_results' =
                Append(signature_results, SignatureResult(receipt.signatures[at], answer))
    /\ at' = at + 1
    /\ UNCHANGED <<receipt, call, pc, seen, previous, issuer_signed, validation,
                   receipt_id_valid, errors>>

\* One good signature is enough.
ConcludeReceipt_m ==
    /\ pc = "keys" /\ at > Len(receipt.signatures)
    /\ errors' = IF \A i \in DOMAIN signature_results : ~signature_results[i].valid
                 THEN errors \cup {"SignatureInvalid"} ELSE errors
    /\ pc' = "done"
    /\ UNCHANGED <<receipt, call, at, seen, previous, issuer_signed, validation, heard,
                   receipt_id_valid, signature_results>>

ConcludeReceipt ==
    /\ pc = "keys" /\ at > Len(receipt.signatures)
    /\ errors' = IF \E i \in DOMAIN signature_results : ~signature_results[i].valid
                 THEN errors \cup {"SignatureInvalid"} ELSE errors
    /\ pc' = "done"
    /\ UNCHANGED <<receipt, call, at, seen, previous, issuer_signed, validation, heard,
                   receipt_id_valid, signature_results>>

ReceiptNext ==
    \/ RefuseSchema \/ PassSchema
    \/ ReadEvidence \/ RefuseEvidence \/ EndEvidence
    \/ ReadSignature \/ RefuseSignature \/ RefuseIssuer \/ PassValidation
    \/ CheckIdentity \/ AskResolver \/ ConcludeReceipt

\* The call is plain sequential code, and a resolver that returns an error
\* has returned: a step that can be taken is taken.
ReceiptSpec == ReceiptInit /\ [][ReceiptNext]_receiptVars /\ WF_receiptVars(ReceiptNext)

----------------------------------------------------------------------------
(* Properties *)

Verified == call = "verify" /\ pc = "done" /\ validation = "Ok"
Valid == Verified /\ errors = {}

\* The type invariant.
ReceiptTypeOK ==
    /\ receipt \in Receipts /\ call \in Calls
    /\ pc \in {"schema", "evidence", "signatures", "identity", "keys", "done"}
    /\ at \in Nat \ {0}
    /\ previous # None => previous \in seen
    /\ issuer_signed \in BOOLEAN /\ receipt_id_valid \in BOOLEAN
    /\ validation \in {"pending", "Ok"} \cup ReceiptErrors
    /\ pc \in {"identity", "keys"} => validation = "Ok"
    /\ pc = "done" => validation # "pending"
    /\ errors \subseteq {"Validation", "ReceiptIdMismatch", "SignatureInvalid"}
    /\ Len(heard) = Len(signature_results)

\* What of a receipt is signed or identified: every member but these, nulls
\* included, and numbers by their value.
Content(r, but) ==
    [key \in DOMAIN r \ but |->
        IF key = "result" THEN [number |-> AsF64[r.result.number], detail |-> r.result.detail]
        ELSE r[key]]

\* The resolver's key for this descriptor made the signature in it, over all
\* of this receipt and this very descriptor.
Signed(r, i, answer) ==
    LET entry == r.signatures[i]
    IN  /\ answer.kind = "Key"
        /\ KeyHex[answer.key].bytes \in Points \ SmallOrder
        /\ entry.value.bytes.by = KeyHex[answer.key].bytes
        /\ entry.value.bytes.over =
              [tag |-> "APS-RECEIPT-SIG-V1", receipt |-> Content(r, {"signatures"}),
               signer |-> [signer |-> entry.signer, key_id |-> entry.key_id,
                           alg |-> "Ed25519"]]

Identified(r) ==
    r.receipt_id.of = [tag |-> "APS-RECEIPT-ID-V1",
                       body |-> Content(r, {"receipt_id", "signatures"})]

\* A valid receipt is what its signers signed: its id is the digest of its
\* content, the issuer is among the signers, and each signature is by the key
\* the resolver gave for that signer, over this content under its own
\* descriptor.  None can be relabelled, moved, or outlive an edit.
ValidMeansSigned ==
    Valid =>
        /\ Identified(receipt)
        /\ \E i \in DOMAIN receipt.signatures : receipt.signatures[i].signer = receipt.issuer
        /\ \A i \in DOMAIN receipt.signatures : Signed(receipt, i, heard[i].answer)

\* The resolver hears of each descriptor once, in the order of the receipt
\* and with its date, whatever it answered before; and never of a receipt
\* that did not validate.
ResolverAskedInOrder ==
    /\ heard # << >> => validation = "Ok"
    /\ Verified => Len(heard) = Len(receipt.signatures)
    /\ \A i \in DOMAIN heard :
          /\ i \in DOMAIN receipt.signatures
          /\ heard[i].signer = receipt.signatures[i].signer
          /\ heard[i].key_id = receipt.signatures[i].key_id
          /\ heard[i].issued_at = receipt.issued_at

\* An unknown key, a failed lookup and a bad signature are told apart for each
\* signer, whatever became of the others, and what is said of the id depends
\* on no signature.
FailuresKeptApart ==
    Verified =>
        /\ receipt_id_valid <=> Identified(receipt)
        /\ \A i \in DOMAIN signature_results :
              LET answer == heard[i].answer
              IN  /\ signature_results[i].reason = Reason(answer)
                  /\ signature_results[i].valid
                        <=> /\ KeyHex[answer.key].chars = 64
                            /\ ~receipt.signatures[i].value.bytes.small_order_r
                            /\ receipt.signatures[i].value.bytes.reduced
                            /\ Signed(receipt, i, answer)
        /\ "ReceiptIdMismatch" \in errors <=> ~Identified(receipt)
        /\ "SignatureInvalid" \in errors
              <=> \E i \in DOMAIN receipt.signatures : ~signature_results[i].valid

\* What is wrong with an entry by itself.
EvidenceFault(entry) ==
    IF entry = NotObject THEN "InvalidEvidenceRef"
    ELSE CASE entry.extra -> "UnknownField"
           [] ~entry.extra /\ <<entry.artifact_type, entry.sha256>> \notin Name \X Hex64 ->
                "InvalidEvidenceRef"
           [] OTHER -> "none"

SignatureFault(entry, values) ==
    IF entry = NotObject THEN "InvalidSignatureDescriptor"
    ELSE LET missing == Absent \in {entry.signer, entry.key_id, entry.alg, entry.value}
         IN  CASE entry.extra -> "UnknownField"
               [] ~entry.extra /\ missing -> "MissingField"
               [] ~entry.extra /\ ~missing
                    /\ ~(/\ <<entry.signer, entry.key_id>> \in Name \X Name
                         /\ entry.alg = "Ed25519" /\ WellFormedValue(entry.value, values)) ->
                    "InvalidSignatureDescriptor"
               [] OTHER -> "none"

\* What is wrong with a list: what is wrong with the first entry that has a
\* fault of its own or does not come after every entry before it.
ListFault(entries, Fault(_), Key(_), duplicate, unsorted) ==
    LET Out(j) == \E i \in 1..(j - 1) : ~Precedes(Key(entries[i]), Key(entries[j]))
        Bad(j) == Fault(entries[j]) # "none" \/ Out(j)
        places == {j \in DOMAIN entries :
                    (\A i \in 1..(j - 1) : ~Bad(i)) /\ Bad(j)}
        Why(j) == CASE Fault(entries[j]) # "none" -> Fault(entries[j])
                    [] Fault(entries[j]) = "none"
                       /\ \E i \in 1..(j - 1) : Key(entries[i]) = Key(entries[j]) -> duplicate
                    [] OTHER -> unsorted
    IN  IF places = {} THEN "none" ELSE Why(CHOOSE j \in places : TRUE)

EvidenceListFault(r) ==
    ListFault(r.evidence_refs, EvidenceFault, EvidenceKey,
              "DuplicateEvidenceRef", "EvidenceRefsNotSorted")
SignatureListFault(r, values) ==
    LET Fault(entry) == SignatureFault(entry, values)
    IN  ListFault(r.signatures, Fault, SignatureKey,
                  "DuplicateSignature", "SignaturesNotSorted")

\* Looking at one entry at a time, with the last key and the set of keys seen,
\* finds what looking at whole lists finds: evidence before signatures, a
\* repeated entry called a duplicate however far back the first one is, and
\* out of order only what is out of order.
ValidationNamesFirstOffence ==
    pc = "done" /\ (\A i \in DOMAIN SchemaRules :
                        ~FailsSchema(SchemaRules[i], receipt, require_values)) =>
        validation =
            CASE EvidenceListFault(receipt) # "none" -> EvidenceListFault(receipt)
              [] EvidenceListFault(receipt) = "none"
                 /\ SignatureListFault(receipt, require_values) # "none" -> SignatureListFault(receipt, require_values)
              [] OTHER ->
                    IF require_values /\ \A i \in DOMAIN receipt.signatures :
                            receipt.signatures[i].signer # receipt.issuer
                    THEN "IssuerSignatureMissing" ELSE "Ok"

\* A receipt conforms: the closed schema, member by member, both lists in
\* strictly increasing order, and signed by its issuer unless it is a draft.
Conforms(argument) ==
    LET r == argument[1]
        final == argument[2] # "draft"
        Increasing(list, Key(_)) ==
            \A i, j \in DOMAIN list : i < j => Precedes(Key(list[i]), Key(list[j]))
    IN  /\ r # NotObject /\ ~r.extra
        /\ r.profile = "aps-receipt-v1"
        /\ \A key \in Identifiers : r[key] \in Name
        /\ r.receipt_id \notin {Absent, Null, Malformed}
        /\ final => r.receipt_id.hex64
        /\ r.action_ref \in Hex64
        /\ {r.decision_ref, r.prev} \subseteq Hex64 \cup {Absent}
        /\ r.issued_at \in {t \in Text : Ms[t] # Err /\ Formatted(Ms[t]) = t}
        /\ {r.result, r.evidence_refs, r.signatures} \cap {Absent, Null, Malformed} = {}
        /\ r.result.number \notin Unsafe
        /\ \A i \in DOMAIN r.evidence_refs : EvidenceFault(r.evidence_refs[i]) = "none"
        /\ Increasing(r.evidence_refs, EvidenceKey)
        /\ \A i \in DOMAIN r.signatures : SignatureFault(r.signatures[i], final) = "none"
        /\ Increasing(r.signatures, SignatureKey)
        /\ final => \E i \in DOMAIN r.signatures : r.signatures[i].signer = r.issuer

IsReceiptCall(argument) == argument[1] \in Receipts /\ argument[2] \in Calls

ReceiptPromise == INSTANCE Decision WITH
    IsArgument <- IsReceiptCall, Good <- Conforms, argument <- <<receipt, call>>,
    answer <- IF pc # "done" THEN "pending"
              ELSE IF validation = "Ok" THEN "yes" ELSE "no"

\* Every call returns, a resolver that keeps failing included, and finds
\* exactly the receipts that conform in order.
ImplementsReceiptPromise == ReceiptPromise!Spec
=============================================================================
