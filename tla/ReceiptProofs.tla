--------------------------- MODULE ReceiptProofs ---------------------------
(***************************************************************************)
(* Proofs about Receipt, for receipts with any number of signatures and    *)
(* resolvers that answer anything.                                         *)
(*                                                                         *)
(* ReceiptInv ties the record of the verification to the receipt.  Its     *)
(* heart is Recorded: the i-th question was about the i-th descriptor, and *)
(* the i-th result is what the code makes of that descriptor and the       *)
(* answer.  The rest says where the other parts of the verdict come from:  *)
(* the issuer's flag from some descriptor, the errors from the id and from *)
(* the results.  That a valid verdict means signed then follows from what  *)
(* the payloads are.                                                       *)
(*                                                                         *)
(* ShapedInv adds what validation has made sure of by then: the id and the *)
(* values of the signatures before the place it is at are hex of the right *)
(* length, so that none of them fails later for its form.                  *)
(*                                                                         *)
(* ValidationInv is about validation itself.  EvidenceWalked and           *)
(* SignaturesWalked say that the entries passed so far have no fault and   *)
(* strictly increasing keys, and that the keys seen and the previous key   *)
(* are those entries': the two loops look at one key at a time, and that   *)
(* is as good as comparing every pair.  AnswerNamed, the part the theorems *)
(* need, says that the answer is right: it conforms exactly if it is       *)
(* accepted, and a refusal names the first offence of the whole lists.     *)
(***************************************************************************)
EXTENDS Receipt, TLAPS

Count == Len(receipt.signatures)

Question(i, answer) ==
    [signer |-> receipt.signatures[i].signer, key_id |-> receipt.signatures[i].key_id,
     issued_at |-> receipt.issued_at, answer |-> answer]
Outcome(i, answer) == SignatureResult(receipt.signatures[i], answer)

Questions == {Question(i, answer) : i \in 1..Count, answer \in KeyResolution}
Outcomes == {Outcome(i, answer) : i \in 1..Count, answer \in KeyResolution}

\* The schema was found in order.
Listed ==
    /\ receipt # NotObject
    /\ {receipt.signatures, receipt.result} \cap {Absent, Null, Malformed} = {}
    /\ assert_ijson(receipt)

Recorded ==
    /\ heard \in Seq(Questions) /\ signature_results \in Seq(Outcomes)
    /\ Len(heard) = Len(signature_results)
    /\ \A i \in 1..Len(heard) :
          /\ i <= Count
          /\ \E answer \in KeyResolution :
                heard[i] = Question(i, answer) /\ signature_results[i] = Outcome(i, answer)

\* What the id says, and what the results add to it.
IdErrors == IF receipt_id_valid THEN {} ELSE {"ReceiptIdMismatch"}
ResultErrors ==
    IF \E i \in DOMAIN signature_results : ~signature_results[i].valid
    THEN {"SignatureInvalid"} ELSE {}
IdJudged ==
    receipt_id_valid <=> /\ assert_ijson(receipt)
                         /\ receipt.receipt_id = compute_receipt_id_v1(receipt)

Checking == pc \notin {"schema", "done"}

ReceiptInv ==
    /\ ReceiptTypeOK
    /\ Checking \/ validation = "Ok" => Listed
    /\ pc \in {"schema", "evidence", "signatures"} => validation = "pending"
    /\ pc \in {"schema", "evidence", "signatures", "identity"} \/ validation # "Ok"
          => heard = << >> /\ signature_results = << >>
    /\ pc \in {"schema", "evidence", "signatures", "identity"} => errors = {}
    /\ issuer_signed =>
          \E i \in 1..Count : receipt.signatures[i].signer = receipt.issuer
    /\ validation = "Ok" /\ call # "draft" => issuer_signed
    /\ Recorded
    /\ pc = "keys" =>
          Len(heard) = at - 1 /\ at <= Count + 1 /\ IdJudged /\ errors = IdErrors
    /\ Verified =>
          Len(heard) = Count /\ IdJudged /\ errors = IdErrors \cup ResultErrors

----------------------------------------------------------------------------
(* The steps *)

\* A step that asks nothing keeps the record.
LEMMA RecordKept ==
    ASSUME Recorded, UNCHANGED <<receipt, heard, signature_results>>
    PROVE  Recorded'
<1>1. Count' = Count
  BY DEF Count
<1>2. \A i, a : Question(i, a)' = Question(i, a) /\ Outcome(i, a)' = Outcome(i, a)
  BY DEF Question, Outcome, SignatureResult
<1>3. Questions' = Questions /\ Outcomes' = Outcomes
  BY <1>1, <1>2 DEF Questions, Outcomes
<1>. QED BY <1>1, <1>2, <1>3 DEF Recorded

LEMMA InitHolds == ReceiptInit => ReceiptInv
<1>. SUFFICES ASSUME ReceiptInit PROVE ReceiptInv
  OBVIOUS
<1>1. Recorded
  <2>1. heard = << >> /\ signature_results = << >>
    BY DEF ReceiptInit
  <2>. QED BY <2>1 DEF Recorded
<1>2. ReceiptTypeOK
  <2>1. Len(heard) = Len(signature_results)
    BY DEF ReceiptInit
  <2>2. at \in Nat \ {0} /\ errors \subseteq {"Validation", "ReceiptIdMismatch", "SignatureInvalid"}
    BY DEF ReceiptInit
  <2>. QED BY <2>1, <2>2 DEF ReceiptInit, ReceiptTypeOK
<1>. QED BY <1>1, <1>2 DEF ReceiptInit, ReceiptInv, Checking, Verified

\* The rules that stop a list are reported as errors of the type.
LEMMA RulesAreErrors ==
    /\ \A i \in DOMAIN SchemaRules : SchemaRules[i] \in ReceiptErrors
    /\ \A i \in DOMAIN EvidenceRules :
          ErrorOf(EvidenceRules[i], "evidence_refs") \in ReceiptErrors
    /\ \A i \in DOMAIN SignatureRules :
          ErrorOf(SignatureRules[i], "signatures") \in ReceiptErrors
BY DEF SchemaRules, EvidenceRules, SignatureRules, ErrorOf, ReceiptErrors

LEMMA RefusalKeeps ==
    ASSUME ReceiptInv, NEW error \in ReceiptErrors, Refuse(error),
           pc \in {"schema", "evidence", "signatures"}
    PROVE  ReceiptInv'
<1>1. error \notin {"Ok", "pending"}
  BY DEF ReceiptErrors
<1>2. ReceiptTypeOK'
  BY <1>1 DEF ReceiptInv, ReceiptTypeOK, Refuse
<1>3. Recorded'
  BY RecordKept DEF ReceiptInv, Refuse
<1>. QED
  BY <1>1, <1>2, <1>3 DEF ReceiptInv, Refuse, Checking, Listed, Count, Verified

\* Looking at an entry, or going on to a list, leaves the record alone.
LEMMA ListStepsKeep ==
    ASSUME ReceiptInv,
           PassSchema \/ ReadEvidence \/ EndEvidence \/ ReadSignature
    PROVE  ReceiptInv'
<1>. USE DEF verificationVars
<1>1. CASE PassSchema
  <2>1. Listed
    <3>1. /\ ~FailsSchema("NotAnObject", receipt, require_values)
          /\ ~FailsSchema("MissingField", receipt, require_values)
          /\ ~FailsSchema("NotStrictIJson", receipt, require_values)
          /\ ~FailsSchema("InvalidResult", receipt, require_values)
          /\ ~FailsSchema("NotArrays", receipt, require_values)
      BY <1>1 DEF PassSchema, SchemaRules
    <3>. QED BY <3>1 DEF FailsSchema, Listed, REQUIRED_KEYS, Mistyped
  <2>2. Recorded'
    BY <1>1, RecordKept DEF PassSchema, BeginList, ReceiptInv
  <2>. QED
    BY <1>1, <2>1, <2>2 DEF PassSchema, BeginList, ReceiptInv, ReceiptTypeOK, Checking,
                            Listed, Count, Verified
<1>2. CASE ReadEvidence
  <2>1. Recorded'
    BY <1>2, RecordKept DEF ReadEvidence, Remember, ReceiptInv
  <2>. QED
    BY <1>2, <2>1 DEF ReadEvidence, Remember, ReceiptInv, ReceiptTypeOK, Checking,
                      Listed, Count, Verified
<1>3. CASE EndEvidence
  <2>1. Recorded'
    BY <1>3, RecordKept DEF EndEvidence, BeginList, ReceiptInv
  <2>. QED
    BY <1>3, <2>1 DEF EndEvidence, BeginList, ReceiptInv, ReceiptTypeOK, Checking,
                      Listed, Count, Verified
<1>4. CASE ReadSignature
  <2>1. Recorded'
    BY <1>4, RecordKept DEF ReadSignature, Remember, ReceiptInv
  <2>2. issuer_signed' => \E i \in 1..Count : receipt.signatures[i].signer = receipt.issuer
    BY <1>4 DEF ReadSignature, Remember, ReceiptInv, ReceiptTypeOK, Count
  <2>3. ReceiptTypeOK'
    BY <1>4 DEF ReadSignature, Remember, ReceiptInv, ReceiptTypeOK
  <2>. QED
    BY <1>4, <2>1, <2>2, <2>3 DEF ReadSignature, Remember, ReceiptInv, Checking,
                                  Listed, Count, Verified
<1>. QED BY <1>1, <1>2, <1>3, <1>4

LEMMA RefusalStepsKeep ==
    ASSUME ReceiptInv,
           RefuseSchema \/ RefuseEvidence \/ RefuseSignature \/ RefuseIssuer
    PROVE  ReceiptInv'
<1>1. CASE RefuseSchema
  BY <1>1, RulesAreErrors, RefusalKeeps DEF RefuseSchema
<1>2. CASE RefuseEvidence
  BY <1>2, RulesAreErrors, RefusalKeeps DEF RefuseEvidence
<1>3. CASE RefuseSignature
  BY <1>3, RulesAreErrors, RefusalKeeps DEF RefuseSignature
<1>4. CASE RefuseIssuer
  <2>1. "IssuerSignatureMissing" \in ReceiptErrors
    BY DEF ReceiptErrors
  <2>. QED BY <1>4, <2>1, RefusalKeeps DEF RefuseIssuer
<1>. QED BY <1>1, <1>2, <1>3, <1>4

LEMMA PassingKeeps ==
    ASSUME ReceiptInv, PassValidation PROVE ReceiptInv'
<1>. USE DEF verificationVars
<1>1. Recorded'
  BY RecordKept DEF PassValidation, ReceiptInv
<1>2. ReceiptTypeOK'
  BY DEF PassValidation, ReceiptInv, ReceiptTypeOK
<1>. QED
  BY <1>1, <1>2 DEF PassValidation, ReceiptInv, Checking, Listed, Count, Verified,
                    require_values

LEMMA IdentityKeeps ==
    ASSUME ReceiptInv, CheckIdentity PROVE ReceiptInv'
<1>1. Recorded'
  BY RecordKept DEF CheckIdentity, ReceiptInv
<1>2. ReceiptTypeOK'
  BY DEF CheckIdentity, ReceiptInv, ReceiptTypeOK
<1>3. IdJudged' /\ errors' = IdErrors'
  BY DEF CheckIdentity, ReceiptInv, IdJudged, IdErrors
<1>4. receipt' = receipt /\ Listed
  BY DEF CheckIdentity, ReceiptInv, Checking
<1>5. Count \in Nat
  BY <1>4, ReceiptAssumption DEF Listed, Count, ReceiptInv, ReceiptTypeOK
<1>6. Len(heard') = 0 /\ at' = 1
  BY DEF CheckIdentity, ReceiptInv
<1>. QED
  BY <1>1, <1>2, <1>3, <1>4, <1>5, <1>6
     DEF CheckIdentity, ReceiptInv, Checking, Listed, Count, Verified

\* What appending does to a record.
LEMMA AppendFacts ==
    ASSUME NEW S, NEW s \in Seq(S), NEW e \in S
    PROVE  /\ Append(s, e) \in Seq(S) /\ Len(Append(s, e)) = Len(s) + 1
           /\ \A i \in 1..Len(s) : Append(s, e)[i] = s[i]
           /\ Append(s, e)[Len(s) + 1] = e
           /\ Len(s) \in Nat
OBVIOUS

LEMMA AskingKeeps ==
    ASSUME ReceiptInv, AskResolver PROVE ReceiptInv'
<1>. PICK answer \in KeyResolution :
        /\ Ask(receipt.signatures[at], answer)
        /\ signature_results' = Append(signature_results,
                                       SignatureResult(receipt.signatures[at], answer))
  BY DEF AskResolver
<1>. USE DEF verificationVars
<1>1. /\ heard' = Append(heard, Question(at, answer))
      /\ signature_results' = Append(signature_results, Outcome(at, answer))
  BY DEF Ask, Question, Outcome
<1>2. /\ UNCHANGED <<receipt, receipt_id_valid, errors, validation, call, pc, issuer_signed>>
      /\ at' = at + 1 /\ at \in 1..Count /\ pc = "keys"
  BY DEF AskResolver, ReceiptInv, ReceiptTypeOK, Count
<1>3. Question(at, answer) \in Questions /\ Outcome(at, answer) \in Outcomes
  BY <1>2 DEF Questions, Outcomes
<1>4. /\ heard' \in Seq(Questions) /\ Len(heard') = Len(heard) + 1
      /\ \A i \in 1..Len(heard) : heard'[i] = heard[i]
      /\ heard'[Len(heard) + 1] = Question(at, answer)
      /\ Len(heard) \in Nat
  BY <1>1, <1>3, AppendFacts DEF ReceiptInv, Recorded
<1>5. /\ signature_results' \in Seq(Outcomes)
      /\ Len(signature_results') = Len(signature_results) + 1
      /\ \A i \in 1..Len(signature_results) :
            signature_results'[i] = signature_results[i]
      /\ signature_results'[Len(signature_results) + 1] = Outcome(at, answer)
  BY <1>1, <1>3, AppendFacts DEF ReceiptInv, Recorded
<1>6. /\ \A i \in 1..Count, a \in KeyResolution :
            Question(i, a)' = Question(i, a) /\ Outcome(i, a)' = Outcome(i, a)
      /\ Questions' = Questions /\ Outcomes' = Outcomes /\ Count' = Count
  BY <1>2 DEF Question, Outcome, Questions, Outcomes, Count, SignatureResult
<1>7. Len(heard) = at - 1 /\ Len(heard) = Len(signature_results)
  BY <1>2 DEF ReceiptInv, Recorded
<1>8. Recorded'
  <2>. SUFFICES ASSUME NEW i \in 1..Len(heard')
                PROVE  /\ i <= Count
                       /\ \E a \in KeyResolution :
                             /\ heard'[i] = Question(i, a)
                             /\ signature_results'[i] = Outcome(i, a)
    BY <1>4, <1>5, <1>6, <1>7 DEF Recorded
  <2>1. CASE i = at
    BY <2>1, <1>2, <1>4, <1>5, <1>7
  <2>2. CASE i # at
    <3>1. i \in 1..Len(heard)
      BY <2>2, <1>2, <1>4, <1>7
    <3>. QED BY <3>1, <1>4, <1>5, <1>7 DEF ReceiptInv, Recorded
  <2>. QED BY <2>1, <2>2
<1>9. ReceiptTypeOK'
  BY <1>2, <1>4, <1>5, <1>7 DEF AskResolver, ReceiptInv, ReceiptTypeOK
<1>0. Count \in Nat
  BY <1>2, ReceiptAssumption DEF Listed, Count, ReceiptInv, ReceiptTypeOK, Checking
<1>10. Len(heard') = at' - 1 /\ at' <= Count' + 1
  BY <1>0, <1>2, <1>4, <1>6, <1>7
<1>11. IdJudged' /\ errors' = IdErrors'
  BY <1>2 DEF ReceiptInv, IdJudged, IdErrors
<1>12. Listed' /\ validation = "Ok"
  BY <1>2 DEF ReceiptInv, ReceiptTypeOK, Checking, Listed
<1>13. issuer_signed' =>
          \E i \in 1..Count' : receipt.signatures[i].signer = receipt.issuer
  BY <1>2, <1>6 DEF ReceiptInv
<1>. QED
  BY <1>2, <1>8, <1>9, <1>10, <1>11, <1>12, <1>13 DEF ReceiptInv, Checking, Verified

LEMMA ConclusionKeeps ==
    ASSUME ReceiptInv, ConcludeReceipt PROVE ReceiptInv'
<1>1. Recorded'
  BY RecordKept DEF ConcludeReceipt, ReceiptInv
<1>2. ReceiptTypeOK'
  BY DEF ConcludeReceipt, ReceiptInv, ReceiptTypeOK
<1>3. IdJudged' /\ errors' = IdErrors' \cup ResultErrors'
  BY DEF ConcludeReceipt, ReceiptInv, IdJudged, IdErrors, ResultErrors
<1>4. Listed
  BY DEF ConcludeReceipt, ReceiptInv, Checking
<1>5. Count \in Nat
  BY <1>4, ReceiptAssumption DEF Listed, Count, ReceiptInv, ReceiptTypeOK
<1>6. Len(heard) = Count
  BY <1>5 DEF ConcludeReceipt, ReceiptInv, ReceiptTypeOK, Count
<1>. QED
  BY <1>1, <1>2, <1>3, <1>4, <1>6
     DEF ConcludeReceipt, ReceiptInv, Checking, Listed, Count, Verified

LEMMA StutteringKeeps ==
    ASSUME ReceiptInv, UNCHANGED receiptVars PROVE ReceiptInv'
<1>. USE DEF verificationVars
<1>1. Recorded'
  BY RecordKept DEF receiptVars, ReceiptInv
<1>2. ReceiptTypeOK'
  BY DEF receiptVars, ReceiptInv, ReceiptTypeOK
<1>. QED
  BY <1>1, <1>2 DEF receiptVars, ReceiptInv, Checking, Listed, Count, Verified, IdJudged,
                    IdErrors, ResultErrors

THEOREM ReceiptInvHolds == ReceiptSpec => []ReceiptInv
<1>1. ReceiptInv /\ [ReceiptNext]_receiptVars => ReceiptInv'
  BY ListStepsKeep, RefusalStepsKeep, PassingKeeps, IdentityKeeps, AskingKeeps,
     ConclusionKeeps, StutteringKeeps DEF ReceiptNext
<1>. QED BY <1>1, InitHolds, PTL DEF ReceiptSpec

\* Every reachable state of a call on a receipt is well typed.
THEOREM ReceiptTypeCorrect == ReceiptSpec => []ReceiptTypeOK
<1>1. ReceiptInv => ReceiptTypeOK
  BY DEF ReceiptInv
<1>. QED BY <1>1, ReceiptInvHolds, PTL

----------------------------------------------------------------------------
(* The resolver is asked in order *)

LEMMA SignatureList ==
    ASSUME ReceiptInv, Listed
    PROVE  Count \in Nat /\ DOMAIN receipt.signatures = 1..Count
BY ReceiptAssumption DEF Listed, Count, ReceiptInv, ReceiptTypeOK

LEMMA RecordDomains ==
    ASSUME ReceiptInv
    PROVE  /\ Len(heard) \in Nat /\ DOMAIN heard = 1..Len(heard)
           /\ DOMAIN signature_results = 1..Len(heard)
BY DEF ReceiptInv, Recorded

\* The resolver is asked about each descriptor once, in the receipt's order and
\* with its date, whatever it answers, and about none of a receipt that did
\* not validate: for any number of signatures.
THEOREM AskedInOrder == ReceiptSpec => []ResolverAskedInOrder
<1>1. ASSUME ReceiptInv PROVE ResolverAskedInOrder
  <2>. USE <1>1
  <2>1. heard # << >> => validation = "Ok"
    BY DEF ReceiptInv
  <2>2. Verified => Len(heard) = Len(receipt.signatures)
    BY DEF ReceiptInv, Count
  <2>3. ASSUME NEW i \in DOMAIN heard
        PROVE  /\ i \in DOMAIN receipt.signatures
               /\ heard[i].signer = receipt.signatures[i].signer
               /\ heard[i].key_id = receipt.signatures[i].key_id
               /\ heard[i].issued_at = receipt.issued_at
    <3>1. i \in 1..Len(heard) /\ heard # << >>
      BY <2>3, RecordDomains
    <3>2. Listed
      BY <3>1, <2>1 DEF ReceiptInv
    <3>3. PICK answer \in KeyResolution : i <= Count /\ heard[i] = Question(i, answer)
      BY <3>1 DEF ReceiptInv, Recorded
    <3>. QED BY <3>1, <3>2, <3>3, SignatureList, RecordDomains DEF Question
  <2>. QED BY <2>1, <2>2, <2>3 DEF ResolverAskedInOrder
<1>. QED BY <1>1, ReceiptInvHolds, PTL

----------------------------------------------------------------------------
(* Valid means signed *)

\* The canonical form of a receipt without some members is their content.
LEMMA CanonicalIsContent ==
    ASSUME ReceiptInv, Listed, NEW drop \in SUBSET (Keys \ {"result"})
    PROVE  strict_jcs(receipt_without(receipt, drop)) = Content(receipt, drop)
<1>1. /\ receipt = [key \in Keys |-> receipt[key]]
      /\ receipt.result \in [number : Number, detail : {Absent, Null}]
  BY ReceiptAssumption DEF ReceiptInv, ReceiptTypeOK, Listed
<1>2. DOMAIN receipt = Keys
  BY <1>1
<1>3. "result" \in Keys \ drop
  BY DEF Keys
<1>. DEFINE body == receipt_without(receipt, drop)
<1>4. body = [key \in Keys \ drop |-> receipt[key]]
  BY <1>2 DEF receipt_without
<1>5. body.result = receipt.result
  BY <1>3, <1>4
<1>6. result_view(receipt.result)
        = [number |-> AsF64[receipt.result.number], detail |-> receipt.result.detail]
  BY <1>1 DEF result_view, to_double_view
<1>7. strict_jcs(body) = [body EXCEPT !["result"] = result_view(body["result"])]
  BY DEF strict_jcs
<1>8. strict_jcs(body) = [key \in Keys \ drop |->
          IF key = "result" THEN result_view(receipt.result) ELSE receipt[key]]
  BY <1>3, <1>4, <1>5, <1>7
<1>. QED BY <1>2, <1>6, <1>8 DEF Content

\* A signature that verifies was made by that key over that message.
LEMMA VerifiedIsMade ==
    ASSUME NEW message, NEW signature, NEW key, verify_ed25519(message, signature, key)
    PROVE  /\ KeyHex[key].bytes \in Points \ SmallOrder
           /\ signature.bytes.by = KeyHex[key].bytes
           /\ signature.bytes.over = message
BY DEF verify_ed25519, verify_strict, Equation

LEMMA GoodResultIsSigned ==
    ASSUME ReceiptInv, Listed, NEW i \in 1..Len(heard), signature_results[i].valid
    PROVE  Signed(receipt, i, heard[i].answer)
<1>1. PICK answer \in KeyResolution :
          heard[i] = Question(i, answer) /\ signature_results[i] = Outcome(i, answer)
  BY DEF ReceiptInv, Recorded
<1>. DEFINE entry == receipt.signatures[i]
<1>2. heard[i].answer = answer
  BY <1>1 DEF Question
<1>3. /\ answer.kind = "Key"
      /\ verify_ed25519(receipt_signature_payload_v1(receipt, entry.signer, entry.key_id),
                        entry.value, answer.key)
  BY <1>1 DEF Outcome, SignatureResult
<1>4. strict_jcs(receipt_without(receipt, {"signatures"})) = Content(receipt, {"signatures"})
  BY CanonicalIsContent DEF Keys
<1>. QED
  BY <1>2, <1>3, <1>4, VerifiedIsMade DEF Signed, receipt_signature_payload_v1

\* A valid receipt is what its signers signed, for receipts of any number of
\* signatures and any resolver.
THEOREM ValidIsSigned == ReceiptSpec => []ValidMeansSigned
<1>1. ASSUME ReceiptInv, Valid
      PROVE  /\ Identified(receipt)
             /\ \E i \in DOMAIN receipt.signatures :
                    receipt.signatures[i].signer = receipt.issuer
             /\ \A i \in DOMAIN receipt.signatures : Signed(receipt, i, heard[i].answer)
  <2>. USE <1>1
  <2>1. /\ Listed /\ Len(heard) = Count /\ issuer_signed
        /\ IdJudged /\ IdErrors = {} /\ ResultErrors = {}
    BY DEF Valid, Verified, ReceiptInv
  <2>2. DOMAIN receipt.signatures = 1..Count /\ DOMAIN signature_results = 1..Count
    BY <2>1, SignatureList, RecordDomains
  <2>3. Identified(receipt)
    <3>1. receipt.receipt_id = compute_receipt_id_v1(receipt)
      BY <2>1 DEF IdErrors, IdJudged
    <3>2. strict_jcs(receipt_without(receipt, {"receipt_id", "signatures"}))
            = Content(receipt, {"receipt_id", "signatures"})
      BY <2>1, CanonicalIsContent DEF Keys
    <3>. QED
      BY <3>1, <3>2 DEF Identified, compute_receipt_id_v1, receipt_id_payload_v1
  <2>4. \E i \in DOMAIN receipt.signatures : receipt.signatures[i].signer = receipt.issuer
    BY <2>1, <2>2 DEF ReceiptInv
  <2>5. ASSUME NEW i \in DOMAIN receipt.signatures
        PROVE  Signed(receipt, i, heard[i].answer)
    <3>1. i \in 1..Len(heard) /\ signature_results[i].valid
      BY <2>1, <2>2 DEF ResultErrors
    <3>. QED BY <3>1, <2>1, GoodResultIsSigned
  <2>. QED BY <2>3, <2>4, <2>5
<1>2. ReceiptInv => ValidMeansSigned
  BY <1>1 DEF ValidMeansSigned
<1>. QED BY <1>2, ReceiptInvHolds, PTL

----------------------------------------------------------------------------
(* What is said of each signature *)

\* The id is a digest.
IdShaped == receipt.receipt_id = [hex64 |-> TRUE, of |-> receipt.receipt_id.of]

\* The values of the first descriptors are the bytes of a signature.
Shaped(count) ==
    \A i \in 1..count :
        LET value == receipt.signatures[i].value
        IN  value.chars = 128 /\ value.bytes # BadHex

ShapedInv ==
    call # "draft" =>
        /\ pc \notin {"schema", "done"} \/ validation = "Ok" => IdShaped
        /\ pc = "signatures" => Shaped(at - 1)
        /\ validation = "Ok" => Shaped(Count)

LEMMA ShapedStep == ReceiptInv /\ ShapedInv /\ [ReceiptNext]_receiptVars => ShapedInv'
<1>. SUFFICES ASSUME ReceiptInv, ShapedInv, [ReceiptNext]_receiptVars, call' # "draft"
              PROVE  /\ pc' \notin {"schema", "done"} \/ validation' = "Ok" => IdShaped'
                     /\ pc' = "signatures" => Shaped(at - 1)'
                     /\ validation' = "Ok" => Shaped(Count)'
  BY DEF ShapedInv
<1>1. UNCHANGED <<receipt, call>>
  BY DEF ReceiptNext, receiptVars, RefuseSchema, PassSchema, ReadEvidence, RefuseEvidence,
         EndEvidence, ReadSignature, RefuseSignature, RefuseIssuer, PassValidation,
         CheckIdentity, AskResolver, ConcludeReceipt, Refuse, BeginList, Remember
<1>2. /\ Count' = Count /\ require_values /\ IdShaped' = IdShaped
      /\ \A n : Shaped(n)' = Shaped(n)
  BY <1>1 DEF Count, Shaped, IdShaped, require_values
<1>. HIDE DEF Shaped, IdShaped
<1>3. CASE UNCHANGED receiptVars
  BY <1>1, <1>2, <1>3 DEF receiptVars, ShapedInv
<1>4. CASE RefuseSchema \/ RefuseEvidence \/ RefuseSignature \/ RefuseIssuer
  <2>1. pc' = "done" /\ validation' \in ReceiptErrors
    BY <1>4, RulesAreErrors DEF RefuseSchema, RefuseEvidence, RefuseSignature,
                                RefuseIssuer, Refuse, ReceiptErrors
  <2>. QED BY <2>1 DEF ReceiptErrors
<1>5. CASE PassSchema
  <2>1. /\ pc' # "signatures" /\ validation' = "pending" /\ receipt \in Receipts
        /\ ~FailsSchema("NotAnObject", receipt, require_values)
        /\ ~FailsSchema("MissingField", receipt, require_values)
        /\ ~FailsSchema("InvalidHex64", receipt, require_values)
    BY <1>1, <1>5 DEF PassSchema, BeginList, ReceiptInv, ReceiptTypeOK, SchemaRules
  <2>2. /\ receipt # NotObject /\ receipt.receipt_id \notin {Absent, Null, Malformed}
        /\ receipt.receipt_id.hex64
    BY <1>2, <2>1 DEF FailsSchema, REQUIRED_KEYS, Mistyped
  <2>3. PICK b \in BOOLEAN : receipt.receipt_id = [hex64 |-> b, of |-> receipt.receipt_id.of]
    BY <2>1, <2>2, ReceiptAssumption
  <2>4. b = TRUE
    BY <2>2, <2>3
  <2>5. IdShaped
    BY <2>3, <2>4 DEF IdShaped
  <2>. QED BY <1>2, <2>1, <2>5
<1>10. CASE ReadEvidence
  <2>1. pc = "evidence" /\ pc' = pc /\ validation' = "pending"
    BY <1>10 DEF ReadEvidence, Remember, ReceiptInv
  <2>. QED BY <1>1, <1>2, <2>1 DEF ShapedInv
<1>6. CASE EndEvidence
  <2>1. at' = 1 /\ validation' = "pending" /\ IdShaped
    BY <1>1, <1>6 DEF EndEvidence, BeginList, ReceiptInv, ShapedInv
  <2>. QED BY <1>2, <2>1 DEF Shaped
<1>7. CASE ReadSignature
  <2>1. /\ at' = at + 1 /\ at \in Nat \ {0} /\ validation' = "pending"
        /\ Shaped(at - 1) /\ IdShaped
        /\ ~FailsSignature("NotAnObject", receipt.signatures[at])
        /\ ~FailsSignature("InvalidSignatureDescriptor", receipt.signatures[at])
    BY <1>1, <1>7 DEF ReadSignature, Remember, ReceiptInv, ReceiptTypeOK, ShapedInv,
                      SignatureRules
  <2>4. Listed /\ receipt \in Receipts /\ at \in DOMAIN receipt.signatures
    <3>1. Listed /\ receipt \in Receipts /\ at <= Count
      BY <1>7 DEF ReadSignature, ReceiptInv, ReceiptTypeOK, Checking, Count
    <3>. QED BY <2>1, <3>1, SignatureList
  <2>5. /\ receipt.signatures[at] # NotObject
        /\ LET value == receipt.signatures[at].value
           IN  value \notin {Absent, Null, Malformed} /\ value.lower_hex /\ value.chars = 128
    <3>1. ~FailsSignature("MissingField", receipt.signatures[at])
      BY <1>7 DEF ReadSignature, SignatureRules
    <3>. QED BY <1>2, <2>1, <3>1 DEF FailsSignature, WellFormedValue, Mistyped
  <2>2. LET value == receipt.signatures[at].value
        IN  value.chars = 128 /\ value.bytes # BadHex
    <3>1. receipt # NotObject /\ receipt.signatures \notin {Absent, Null, Malformed}
      BY <2>4 DEF Listed
    <3>2. \A i \in DOMAIN receipt.signatures :
             LET value == receipt.signatures[i].value
             IN  (/\ receipt.signatures[i] # NotObject
                  /\ value \notin {Absent, Null, Malformed}
                  /\ value.lower_hex /\ value.chars = 128)
                 => value.bytes # BadHex
      BY <2>4, <3>1, ReceiptAssumption
    <3>. QED BY <2>4, <2>5, <3>2
  <2>3. Shaped(at)
    BY <2>1, <2>2 DEF Shaped
  <2>. QED BY <1>2, <2>1, <2>3
<1>8. CASE PassValidation
  <2>1. /\ at \in Nat \ {0} /\ at > Count /\ Listed /\ pc' # "signatures"
        /\ Shaped(at - 1) /\ IdShaped
    BY <1>1, <1>8 DEF PassValidation, ReceiptInv, ReceiptTypeOK, ShapedInv, Checking, Count
  <2>2. Count \in Nat
    BY <2>1, SignatureList
  <2>3. Shaped(Count)
    BY <2>1, <2>2 DEF Shaped
  <2>. QED BY <1>2, <2>1, <2>3
<1>9. CASE CheckIdentity \/ AskResolver \/ ConcludeReceipt
  <2>1. pc' # "signatures" /\ validation' = validation /\ validation = "Ok"
    BY <1>9 DEF CheckIdentity, AskResolver, ConcludeReceipt, ReceiptInv, ReceiptTypeOK
  <2>. QED BY <1>1, <1>2, <2>1 DEF ShapedInv
<1>. QED
  BY <1>3, <1>4, <1>5, <1>6, <1>7, <1>8, <1>9, <1>10 DEF ReceiptNext

LEMMA ShapedHolds == ReceiptSpec => []ShapedInv
<1>1. ReceiptInit => ShapedInv
  BY DEF ReceiptInit, ShapedInv
<1>. QED BY <1>1, ShapedStep, ReceiptInvHolds, PTL DEF ReceiptSpec

\* What a result says is what the answer and the descriptor deserve.
LEMMA ResultIsRight ==
    ASSUME ReceiptInv, Listed, Shaped(Count), NEW i \in 1..Len(heard)
    PROVE  LET answer == heard[i].answer
               signature == receipt.signatures[i].value
           IN  /\ signature_results[i].reason = Reason(answer)
               /\ signature_results[i].valid
                     <=> /\ KeyHex[answer.key].chars = 64
                         /\ ~signature.bytes.small_order_r /\ signature.bytes.reduced
                         /\ Signed(receipt, i, answer)
<1>1. PICK answer \in KeyResolution :
          i <= Count /\ heard[i] = Question(i, answer) /\ signature_results[i] = Outcome(i, answer)
  BY DEF ReceiptInv, Recorded
<1>. DEFINE entry == receipt.signatures[i]
            payload == receipt_signature_payload_v1(receipt, entry.signer, entry.key_id)
<1>2. heard[i].answer = answer
  BY <1>1 DEF Question
<1>3. signature_results[i].reason = Reason(answer)
  BY <1>1 DEF Outcome, SignatureResult
<1>4. signature_results[i].valid
          <=> answer.kind = "Key" /\ verify_ed25519(payload, entry.value, answer.key)
  BY <1>1 DEF Outcome, SignatureResult, Listed
<1>5. payload = [tag |-> "APS-RECEIPT-SIG-V1", receipt |-> Content(receipt, {"signatures"}),
                 signer |-> [signer |-> entry.signer, key_id |-> entry.key_id,
                             alg |-> "Ed25519"]]
  <2>1. strict_jcs(receipt_without(receipt, {"signatures"})) = Content(receipt, {"signatures"})
    BY CanonicalIsContent DEF Keys
  <2>. QED BY <2>1 DEF receipt_signature_payload_v1
<1>6. entry.value.chars = 128 /\ entry.value.bytes # BadHex
  <2>1. Len(heard) \in Nat
    BY RecordDomains
  <2>. QED BY <1>1, <2>1, SignatureList DEF Shaped
<1>7. Signed(receipt, i, answer)
          <=> /\ answer.kind = "Key"
              /\ KeyHex[answer.key].bytes \in Points \ SmallOrder
              /\ entry.value.bytes.by = KeyHex[answer.key].bytes
              /\ entry.value.bytes.over = payload
  BY <1>5 DEF Signed
<1>. HIDE DEF payload
<1>8. verify_ed25519(payload, entry.value, answer.key)
          <=> /\ KeyHex[answer.key].chars = 64
              /\ KeyHex[answer.key].bytes \in Points \ SmallOrder
              /\ ~entry.value.bytes.small_order_r /\ entry.value.bytes.reduced
              /\ entry.value.bytes.by = KeyHex[answer.key].bytes
              /\ entry.value.bytes.over = payload
  BY <1>6, PointAssumption DEF verify_ed25519, verify_strict, Equation
<1>9. signature_results[i].valid
          <=> /\ KeyHex[answer.key].chars = 64
              /\ ~entry.value.bytes.small_order_r /\ entry.value.bytes.reduced
              /\ Signed(receipt, i, answer)
  BY <1>4, <1>7, <1>8, Zenon
<1>. QED BY <1>2, <1>3, <1>9

\* Whatever becomes of the id and of the other signatures, each signature is
\* judged by itself, and an unknown key, a failed lookup and a bad signature
\* are told apart.
THEOREM JudgedApart == ReceiptSpec => []FailuresKeptApart
<1>1. ASSUME ReceiptInv, ShapedInv, Verified PROVE FailuresKeptApart
  <2>. USE <1>1
  <2>1. /\ Listed /\ Len(heard) = Count /\ IdJudged /\ Shaped(Count)
        /\ IdShaped /\ errors = IdErrors \cup ResultErrors
    BY DEF Verified, ReceiptInv, ShapedInv
  <2>2. DOMAIN receipt.signatures = 1..Count /\ DOMAIN signature_results = 1..Count
    BY <2>1, SignatureList, RecordDomains
  <2>3. receipt_id_valid <=> Identified(receipt)
    <3>1. receipt_id_valid <=> receipt.receipt_id = compute_receipt_id_v1(receipt)
      BY <2>1 DEF IdJudged, Listed
    <3>2. strict_jcs(receipt_without(receipt, {"receipt_id", "signatures"}))
            = Content(receipt, {"receipt_id", "signatures"})
      BY <2>1, CanonicalIsContent DEF Keys
    <3>3. compute_receipt_id_v1(receipt)
            = [hex64 |-> TRUE, of |-> [tag |-> "APS-RECEIPT-ID-V1",
                                       body |-> Content(receipt, {"receipt_id", "signatures"})]]
      BY <3>2 DEF compute_receipt_id_v1, receipt_id_payload_v1
    <3>4. Identified(receipt) <=> receipt.receipt_id = compute_receipt_id_v1(receipt)
      <4>. DEFINE payload == [tag |-> "APS-RECEIPT-ID-V1",
                              body |-> Content(receipt, {"receipt_id", "signatures"})]
      <4>1. Identified(receipt) <=> receipt.receipt_id.of = payload
        BY DEF Identified
      <4>2. receipt.receipt_id = [hex64 |-> TRUE, of |-> receipt.receipt_id.of]
        BY <2>1 DEF IdShaped
      <4>. HIDE DEF payload
      <4>3. receipt.receipt_id.of = payload
               => receipt.receipt_id = [hex64 |-> TRUE, of |-> payload]
        BY <4>2, Zenon
      <4>4. [hex64 |-> TRUE, of |-> payload].of = payload
        OBVIOUS
      <4>5. receipt.receipt_id = [hex64 |-> TRUE, of |-> payload]
               => receipt.receipt_id.of = payload
        BY <4>4, Zenon
      <4>. QED BY <3>3, <4>1, <4>3, <4>5, Zenon DEF payload
    <3>. QED BY <3>1, <3>4, Zenon
  <2>4. ASSUME NEW i \in DOMAIN signature_results
        PROVE  LET answer == heard[i].answer
               IN  /\ signature_results[i].reason = Reason(answer)
                   /\ signature_results[i].valid
                         <=> /\ KeyHex[answer.key].chars = 64
                             /\ ~receipt.signatures[i].value.bytes.small_order_r
                             /\ receipt.signatures[i].value.bytes.reduced
                             /\ Signed(receipt, i, answer)
    BY <2>1, <2>2, ResultIsRight
  <2>5. "ReceiptIdMismatch" \in errors <=> ~Identified(receipt)
    BY <2>1, <2>3 DEF IdErrors, ResultErrors
  <2>6. "SignatureInvalid" \in errors
            <=> \E i \in DOMAIN receipt.signatures : ~signature_results[i].valid
    BY <2>1, <2>2 DEF IdErrors, ResultErrors
  <2>. QED BY <2>3, <2>4, <2>5, <2>6, Zenon DEF FailuresKeptApart
<1>2. ReceiptInv /\ ShapedInv => FailuresKeptApart
  BY <1>1 DEF FailuresKeptApart
<1>. QED BY <1>2, ReceiptInvHolds, ShapedHolds, PTL

----------------------------------------------------------------------------
(* What validation decides *)

\* Pairs of texts in byte order.
LEMMA PrecedesIsStrictOrder ==
    ASSUME NEW a \in Text \X Text, NEW b \in Text \X Text, NEW c \in Text \X Text
    PROVE  /\ ~Precedes(a, a)
           /\ Precedes(a, b) /\ Precedes(b, c) => Precedes(a, c)
<1>1. \A t \in {a[1], a[2], b[1], b[2], c[1], c[2]} : t \in Text /\ Rank[t] \in Nat
  BY RankAssumption
<1>. QED BY <1>1 DEF Precedes

\* The keys of a list up to a place are in increasing order.
Ascending(K, n) == \A i, j \in 1..n : i < j => Precedes(K[i], K[j])

\* What the loop remembers of them.
Noted(K, n) ==
    /\ seen = {K[i] : i \in 1..n}
    /\ previous = IF n = 0 THEN None ELSE K[n]

\* To look at the last key and the set of keys seen is to look at every key
\* before.
LEMMA OneKeyOn ==
    ASSUME NEW K, NEW n \in Nat, \A i \in 1..(n + 1) : K[i] \in Text \X Text,
           Ascending(K, n), Noted(K, n)
    PROVE  /\ Repeated(K[n + 1]) <=> \E i \in 1..n : K[i] = K[n + 1]
           /\ Repeated(K[n + 1]) \/ Misplaced(K[n + 1])
                <=> \E i \in 1..n : ~Precedes(K[i], K[n + 1])
           /\ (\A i \in 1..n : Precedes(K[i], K[n + 1])) => Ascending(K, n + 1)
<1>1. Repeated(K[n + 1]) <=> \E i \in 1..n : K[i] = K[n + 1]
  BY DEF Repeated, Noted
<1>2. Misplaced(K[n + 1]) <=> n # 0 /\ ~Precedes(K[n], K[n + 1])
  <2>1. CASE n = 0
    BY <2>1 DEF Misplaced, Noted
  <2>2. CASE n # 0
    <3>1. K[n] \in Text \X Text
      BY <2>2
    <3>2. previous = K[n] /\ previous # None
      BY <2>2, <3>1, PairAssumption DEF Noted
    <3>. QED BY <2>2, <3>2 DEF Misplaced
  <2>. QED BY <2>1, <2>2
<1>3. ASSUME ~Misplaced(K[n + 1]), NEW i \in 1..n
      PROVE  Precedes(K[i], K[n + 1])
  <2>1. Precedes(K[n], K[n + 1])
    BY <1>2, <1>3
  <2>2. CASE i = n
    BY <2>1, <2>2
  <2>3. CASE i # n
    <3>1. Precedes(K[i], K[n])
      BY <2>3 DEF Ascending
    <3>2. K[i] \in Text \X Text /\ K[n] \in Text \X Text /\ K[n + 1] \in Text \X Text
      OBVIOUS
    <3>. QED BY <2>1, <3>1, <3>2, PrecedesIsStrictOrder
  <2>. QED BY <2>2, <2>3
<1>4. ASSUME NEW i \in 1..n, K[i] = K[n + 1]
      PROVE  ~Precedes(K[i], K[n + 1])
  BY <1>4, PrecedesIsStrictOrder
<1>5. Misplaced(K[n + 1]) => \E i \in 1..n : ~Precedes(K[i], K[n + 1])
  BY <1>2
<1>6. (\A i \in 1..n : Precedes(K[i], K[n + 1])) => Ascending(K, n + 1)
  BY DEF Ascending
<1>. QED BY <1>1, <1>3, <1>4, <1>5, <1>6

----------------------------------------------------------------------------
ECount == Len(receipt.evidence_refs)
EvidenceKeys == [i \in 1..ECount |-> EvidenceKey(receipt.evidence_refs[i])]
SignatureKeys == [i \in 1..Count |-> SignatureKey(receipt.signatures[i])]

EvidenceSound(n) ==
    /\ \A i \in 1..n : EvidenceFault(receipt.evidence_refs[i]) = "none"
    /\ Ascending(EvidenceKeys, n)

SignaturesSound(n) ==
    /\ \A i \in 1..n : SignatureFault(receipt.signatures[i], require_values) = "none"
    /\ Ascending(SignatureKeys, n)

SchemaClean ==
    \A i \in DOMAIN SchemaRules : ~FailsSchema(SchemaRules[i], receipt, require_values)

\* The rules an entry may break by itself, in order, are its fault.
LEMMA EvidenceRulesAreFaults ==
    ASSUME NEW entry
    PROVE  /\ EvidenceFault(entry) = "none"
                => /\ \A i \in 1..3 : ~FailsEvidence(EvidenceRules[i], entry)
                   /\ EvidenceKey(entry) \in Text \X Text
           /\ \A i \in 1..3 :
                  /\ ~\E k \in 1..(i - 1) : FailsEvidence(EvidenceRules[k], entry)
                  /\ FailsEvidence(EvidenceRules[i], entry)
                  => EvidenceFault(entry) = ErrorOf(EvidenceRules[i], "evidence_refs")
           /\ (\A i \in 1..3 : ~FailsEvidence(EvidenceRules[i], entry))
                => EvidenceFault(entry) = "none"
<1>1. /\ EvidenceRules[1] = "NotAnObject" /\ EvidenceRules[2] = "UnknownField"
      /\ EvidenceRules[3] = "InvalidEvidenceRef"
  BY DEF EvidenceRules
<1>2. /\ FailsEvidence(EvidenceRules[1], entry) <=> entry = NotObject
      /\ FailsEvidence(EvidenceRules[2], entry) <=> entry.extra
      /\ FailsEvidence(EvidenceRules[3], entry)
            <=> entry.artifact_type \notin Name \/ entry.sha256 \notin Hex64
  BY <1>1 DEF FailsEvidence
<1>3. /\ ErrorOf(EvidenceRules[1], "evidence_refs") = "InvalidEvidenceRef"
      /\ ErrorOf(EvidenceRules[2], "evidence_refs") = "UnknownField"
      /\ ErrorOf(EvidenceRules[3], "evidence_refs") = "InvalidEvidenceRef"
  BY <1>1 DEF ErrorOf
<1>4. \A i \in 1..3 : i = 1 \/ i = 2 \/ i = 3
  OBVIOUS
<1>5. Name \subseteq Text /\ Hex64 \subseteq Text
  BY HexAssumption DEF Name
<1>. HIDE DEF FailsEvidence, EvidenceRules, ErrorOf
<1>6. EvidenceFault(entry) = "none"
        => /\ \A i \in 1..3 : ~FailsEvidence(EvidenceRules[i], entry)
           /\ EvidenceKey(entry) \in Text \X Text
  BY <1>2, <1>4, <1>5 DEF EvidenceFault, EvidenceKey
<1>7. (\A i \in 1..3 : ~FailsEvidence(EvidenceRules[i], entry))
        => EvidenceFault(entry) = "none"
  BY <1>2 DEF EvidenceFault
<1>8. ASSUME NEW i \in 1..3,
             ~\E k \in 1..(i - 1) : FailsEvidence(EvidenceRules[k], entry),
             FailsEvidence(EvidenceRules[i], entry)
      PROVE  EvidenceFault(entry) = ErrorOf(EvidenceRules[i], "evidence_refs")
  <2>1. CASE i = 1
    BY <1>2, <1>3, <1>8, <2>1 DEF EvidenceFault
  <2>2. CASE i = 2
    BY <1>2, <1>3, <1>8, <2>2 DEF EvidenceFault
  <2>3. CASE i = 3
    BY <1>2, <1>3, <1>8, <2>3 DEF EvidenceFault
  <2>. QED BY <1>4, <2>1, <2>2, <2>3
<1>. QED BY <1>6, <1>7, <1>8

LEMMA SignatureRulesAreFaults ==
    ASSUME NEW entry
    PROVE  /\ SignatureFault(entry, require_values) = "none"
                => /\ \A i \in 1..4 : ~FailsSignature(SignatureRules[i], entry)
                   /\ SignatureKey(entry) \in Text \X Text
           /\ \A i \in 1..4 :
                  /\ ~\E k \in 1..(i - 1) : FailsSignature(SignatureRules[k], entry)
                  /\ FailsSignature(SignatureRules[i], entry)
                  => SignatureFault(entry, require_values)
                        = ErrorOf(SignatureRules[i], "signatures")
           /\ (\A i \in 1..4 : ~FailsSignature(SignatureRules[i], entry))
                => SignatureFault(entry, require_values) = "none"
<1>1. /\ SignatureRules[1] = "NotAnObject" /\ SignatureRules[2] = "UnknownField"
      /\ SignatureRules[3] = "MissingField"
      /\ SignatureRules[4] = "InvalidSignatureDescriptor"
  BY DEF SignatureRules
<1>. DEFINE missing == Absent \in {entry.signer, entry.key_id, entry.alg, entry.value}
            good == /\ <<entry.signer, entry.key_id>> \in Name \X Name
                    /\ entry.alg = "Ed25519"
                    /\ WellFormedValue(entry.value, require_values)
<1>2. /\ FailsSignature(SignatureRules[1], entry) <=> entry = NotObject
      /\ FailsSignature(SignatureRules[2], entry) <=> entry.extra
      /\ FailsSignature(SignatureRules[3], entry) <=> missing
      /\ FailsSignature(SignatureRules[4], entry) <=> ~good
  BY <1>1 DEF FailsSignature
<1>3. /\ ErrorOf(SignatureRules[1], "signatures") = "InvalidSignatureDescriptor"
      /\ ErrorOf(SignatureRules[2], "signatures") = "UnknownField"
      /\ ErrorOf(SignatureRules[3], "signatures") = "MissingField"
      /\ ErrorOf(SignatureRules[4], "signatures") = "InvalidSignatureDescriptor"
  BY <1>1 DEF ErrorOf
<1>4. \A i \in 1..4 : i = 1 \/ i = 2 \/ i = 3 \/ i = 4
  OBVIOUS
<1>5. good => SignatureKey(entry) \in Text \X Text
  BY DEF Name, SignatureKey
<1>9. SignatureFault(entry, require_values) =
        IF entry = NotObject THEN "InvalidSignatureDescriptor"
        ELSE CASE entry.extra -> "UnknownField"
               [] ~entry.extra /\ missing -> "MissingField"
               [] ~entry.extra /\ ~missing /\ ~good -> "InvalidSignatureDescriptor"
               [] OTHER -> "none"
  BY DEF SignatureFault
<1>. HIDE DEF missing, good
<1>6. SignatureFault(entry, require_values) = "none"
        => /\ \A i \in 1..4 : ~FailsSignature(SignatureRules[i], entry)
           /\ SignatureKey(entry) \in Text \X Text
  BY <1>2, <1>4, <1>5, <1>9
<1>7. (\A i \in 1..4 : ~FailsSignature(SignatureRules[i], entry))
        => SignatureFault(entry, require_values) = "none"
  BY <1>2, <1>9
<1>8. ASSUME NEW i \in 1..4,
             ~\E k \in 1..(i - 1) : FailsSignature(SignatureRules[k], entry),
             FailsSignature(SignatureRules[i], entry)
      PROVE  SignatureFault(entry, require_values) = ErrorOf(SignatureRules[i], "signatures")
  <2>1. CASE i = 1
    BY <1>2, <1>3, <1>8, <1>9, <2>1
  <2>2. CASE i = 2
    BY <1>2, <1>3, <1>8, <1>9, <2>2
  <2>3. CASE i = 3
    BY <1>2, <1>3, <1>8, <1>9, <2>3
  <2>4. CASE i = 4
    BY <1>2, <1>3, <1>8, <1>9, <2>4
  <2>. QED BY <1>4, <2>1, <2>2, <2>3, <2>4
<1>. QED BY <1>6, <1>7, <1>8

\* A list is a list once the schema is in order.
LEMMA CleanSchema ==
    ASSUME ReceiptInv, SchemaClean
    PROVE  /\ Listed
           /\ ECount \in Nat /\ DOMAIN receipt.evidence_refs = 1..ECount
           /\ Count \in Nat /\ DOMAIN receipt.signatures = 1..Count
<1>1. /\ ~FailsSchema("NotAnObject", receipt, require_values)
      /\ ~FailsSchema("MissingField", receipt, require_values)
      /\ ~FailsSchema("NotStrictIJson", receipt, require_values)
      /\ ~FailsSchema("InvalidResult", receipt, require_values)
      /\ ~FailsSchema("NotArrays", receipt, require_values)
  BY DEF SchemaClean, SchemaRules
<1>2. /\ receipt # NotObject /\ assert_ijson(receipt)
      /\ \A key \in {"result", "evidence_refs", "signatures"} :
            receipt[key] \notin {Absent, Null, Malformed}
  BY <1>1 DEF FailsSchema, REQUIRED_KEYS, Mistyped
<1>. QED BY <1>2, ReceiptAssumption DEF Listed, ECount, Count, ReceiptInv, ReceiptTypeOK

\* One more entry: the rules find a fault exactly if the entry has one of its
\* own or does not come after all before it.
EvidenceOut(j) == \E i \in 1..(j - 1) : ~Precedes(EvidenceKeys[i], EvidenceKeys[j])
EvidenceBad(j) == EvidenceFault(receipt.evidence_refs[j]) # "none" \/ EvidenceOut(j)
EvidenceWhy(j) ==
    CASE EvidenceFault(receipt.evidence_refs[j]) # "none" ->
            EvidenceFault(receipt.evidence_refs[j])
      [] EvidenceFault(receipt.evidence_refs[j]) = "none"
         /\ \E i \in 1..(j - 1) : EvidenceKeys[i] = EvidenceKeys[j] -> "DuplicateEvidenceRef"
      [] OTHER -> "EvidenceRefsNotSorted"

LEMMA EvidenceStep ==
    ASSUME ECount \in Nat, at \in 1..ECount, EvidenceSound(at - 1), Noted(EvidenceKeys, at - 1)
    PROVE  LET entry == receipt.evidence_refs[at]
           IN  /\ (\A i \in DOMAIN EvidenceRules : ~FailsEvidence(EvidenceRules[i], entry))
                     => EvidenceSound(at)
               /\ \A i \in DOMAIN EvidenceRules :
                     (/\ ~\E k \in 1..(i - 1) : FailsEvidence(EvidenceRules[k], entry)
                      /\ FailsEvidence(EvidenceRules[i], entry))
                     => /\ EvidenceBad(at)
                        /\ ErrorOf(EvidenceRules[i], "evidence_refs") = EvidenceWhy(at)
<1>. DEFINE entry == receipt.evidence_refs[at]
            key == EvidenceKeys[at]
<1>1. /\ DOMAIN EvidenceRules = 1..5
      /\ EvidenceRules[4] = "DuplicateEvidenceRef" /\ EvidenceRules[5] = "EvidenceRefsNotSorted"
  BY DEF EvidenceRules
<1>2. /\ FailsEvidence(EvidenceRules[4], entry) <=> Repeated(key)
      /\ FailsEvidence(EvidenceRules[5], entry) <=> Misplaced(key)
  BY <1>1 DEF FailsEvidence, EvidenceKeys
<1>3. /\ ErrorOf(EvidenceRules[4], "evidence_refs") = "DuplicateEvidenceRef"
      /\ ErrorOf(EvidenceRules[5], "evidence_refs") = "EvidenceRefsNotSorted"
  BY <1>1 DEF ErrorOf
<1>4. \A i \in 1..(at - 1) : EvidenceKeys[i] \in Text \X Text
  BY EvidenceRulesAreFaults DEF EvidenceSound, EvidenceKeys
<1>5. ASSUME EvidenceFault(entry) = "none"
      PROVE  /\ Repeated(key) <=> \E i \in 1..(at - 1) : EvidenceKeys[i] = key
             /\ Repeated(key) \/ Misplaced(key) <=> EvidenceOut(at)
             /\ ~EvidenceOut(at) => EvidenceSound(at)
  <2>1. key \in Text \X Text
    BY <1>5, EvidenceRulesAreFaults DEF EvidenceKeys
  <2>2. \A i \in 1..((at - 1) + 1) : EvidenceKeys[i] \in Text \X Text
    <3>. SUFFICES ASSUME NEW i \in 1..((at - 1) + 1) PROVE EvidenceKeys[i] \in Text \X Text
      OBVIOUS
    <3>1. i = at \/ i \in 1..(at - 1)
      OBVIOUS
    <3>. QED BY <3>1, <1>4, <2>1
  <2>3. at - 1 \in Nat /\ (at - 1) + 1 = at /\ Ascending(EvidenceKeys, at - 1)
    BY DEF EvidenceSound
  <2> HIDE DEF key, entry
  <2>4. /\ Repeated(EvidenceKeys[at]) <=> \E i \in 1..(at - 1) : EvidenceKeys[i] = EvidenceKeys[at]
        /\ Repeated(EvidenceKeys[at]) \/ Misplaced(EvidenceKeys[at])
              <=> \E i \in 1..(at - 1) : ~Precedes(EvidenceKeys[i], EvidenceKeys[at])
        /\ (\A i \in 1..(at - 1) : Precedes(EvidenceKeys[i], EvidenceKeys[at]))
              => Ascending(EvidenceKeys, at)
    BY <2>2, <2>3, OneKeyOn
  <2>5. \A i \in 1..at : i = at \/ i \in 1..(at - 1)
    OBVIOUS
  <2>6. Ascending(EvidenceKeys, at) => EvidenceSound(at)
    BY <1>5, <2>5 DEF EvidenceSound, entry
  <2>. QED BY <2>4, <2>6 DEF EvidenceOut, key
<1>. HIDE DEF key, entry
<1>6. ASSUME \A i \in DOMAIN EvidenceRules : ~FailsEvidence(EvidenceRules[i], entry)
      PROVE  EvidenceSound(at)
  <2>1. EvidenceFault(entry) = "none"
    BY <1>1, <1>6, EvidenceRulesAreFaults
  <2>2. ~Repeated(key) /\ ~Misplaced(key)
    BY <1>1, <1>2, <1>6
  <2>. QED BY <1>5, <2>1, <2>2
<1>7. ASSUME NEW i \in DOMAIN EvidenceRules,
             ~\E k \in 1..(i - 1) : FailsEvidence(EvidenceRules[k], entry),
             FailsEvidence(EvidenceRules[i], entry)
      PROVE  /\ EvidenceBad(at)
             /\ ErrorOf(EvidenceRules[i], "evidence_refs") = EvidenceWhy(at)
  <2>1. CASE i \in 1..3
    <3>1. EvidenceFault(entry) = ErrorOf(EvidenceRules[i], "evidence_refs")
      BY <1>7, <2>1, EvidenceRulesAreFaults
    <3>2. EvidenceFault(entry) # "none"
      BY <1>7, <2>1, EvidenceRulesAreFaults
    <3>. QED BY <3>1, <3>2 DEF EvidenceBad, EvidenceWhy, entry
  <2>2. ASSUME i \in 4..5 PROVE EvidenceFault(entry) = "none"
    <3>1. \A k \in 1..3 : k \in 1..(i - 1)
      BY <2>2
    <3>. QED BY <1>7, <3>1, EvidenceRulesAreFaults
  <2>3. CASE i = 4
    <3>1. Repeated(key)
      BY <1>2, <1>7, <2>3
    <3>. QED BY <1>3, <1>5, <2>2, <2>3, <3>1 DEF EvidenceBad, EvidenceWhy, entry, key
  <2>4. CASE i = 5
    <3>1. Misplaced(key) /\ ~Repeated(key)
      BY <1>2, <1>7, <2>4
    <3>. QED BY <1>3, <1>5, <2>2, <2>4, <3>1 DEF EvidenceBad, EvidenceWhy, entry, key
  <2>. QED BY <1>1, <2>1, <2>3, <2>4
<1>. QED BY <1>6, <1>7 DEF entry

\* What the list as a whole is said to be at fault for.
LEMMA EvidenceListFaults ==
    ASSUME ECount \in Nat, DOMAIN receipt.evidence_refs = 1..ECount
    PROVE  /\ EvidenceSound(ECount) => EvidenceListFault(receipt) = "none"
           /\ \A j \in 1..ECount :
                 EvidenceSound(j - 1) /\ EvidenceBad(j)
                    => EvidenceListFault(receipt) = EvidenceWhy(j) /\ EvidenceWhy(j) # "none"
<1>. DEFINE entries == receipt.evidence_refs
            Out(j) == \E i \in 1..(j - 1) : ~Precedes(EvidenceKey(entries[i]), EvidenceKey(entries[j]))
            Bad(j) == EvidenceFault(entries[j]) # "none" \/ Out(j)
            Why(j) == CASE EvidenceFault(entries[j]) # "none" -> EvidenceFault(entries[j])
                        [] EvidenceFault(entries[j]) = "none"
                           /\ \E i \in 1..(j - 1) : EvidenceKey(entries[i]) = EvidenceKey(entries[j]) ->
                                "DuplicateEvidenceRef"
                        [] OTHER -> "EvidenceRefsNotSorted"
            places == {j \in DOMAIN entries : (\A i \in 1..(j - 1) : ~Bad(i)) /\ Bad(j)}
<1>1. EvidenceListFault(receipt) = IF places = {} THEN "none" ELSE Why(CHOOSE j \in places : TRUE)
  BY Zenon DEF EvidenceListFault, ListFault
<1>2. \A j \in 1..ECount : \A i \in 1..(j - 1) : i \in 1..ECount
  OBVIOUS
<1>3. \A j \in 1..ECount : (Bad(j) <=> EvidenceBad(j)) /\ Why(j) = EvidenceWhy(j)
  <2>1. \A i \in 1..ECount : EvidenceKeys[i] = EvidenceKey(entries[i])
    BY DEF EvidenceKeys
  <2>. SUFFICES ASSUME NEW j \in 1..ECount
                PROVE  (Bad(j) <=> EvidenceBad(j)) /\ Why(j) = EvidenceWhy(j)
    OBVIOUS
  <2>2. Out(j) <=> EvidenceOut(j)
    BY <1>2, <2>1 DEF EvidenceOut
  <2>3. (\E i \in 1..(j - 1) : EvidenceKey(entries[i]) = EvidenceKey(entries[j]))
            <=> (\E i \in 1..(j - 1) : EvidenceKeys[i] = EvidenceKeys[j])
    BY <1>2, <2>1
  <2>. HIDE DEF entries
  <2>4. Bad(j) <=> EvidenceBad(j)
    BY <2>2, Zenon DEF EvidenceBad, entries
  <2>5. Why(j) = EvidenceWhy(j)
    BY <2>3, SMT DEF EvidenceWhy, entries
  <2>. QED BY <2>4, <2>5
<1>4. \A j \in 1..ECount : EvidenceWhy(j) # "none"
  BY DEF EvidenceWhy
<1>. HIDE DEF Bad, Why, Out, entries
<1>5. ASSUME EvidenceSound(ECount) PROVE EvidenceListFault(receipt) = "none"
  <2>1. \A j \in 1..ECount : ~EvidenceBad(j)
    BY <1>2, <1>5 DEF EvidenceSound, EvidenceBad, EvidenceOut, Ascending
  <2>2. places = {}
    BY <1>3, <2>1 DEF entries
  <2>. QED BY <1>1, <2>2
<1>6. ASSUME NEW j \in 1..ECount, EvidenceSound(j - 1), EvidenceBad(j)
      PROVE  EvidenceListFault(receipt) = EvidenceWhy(j)
  <2>1. \A i \in 1..(j - 1) : ~EvidenceBad(i)
    <3>1. \A i \in 1..(j - 1) : \A k \in 1..(i - 1) : k \in 1..(j - 1) /\ k < i
      OBVIOUS
    <3>. QED BY <1>6, <3>1 DEF EvidenceSound, EvidenceBad, EvidenceOut, Ascending
  <2>2. places = {j}
    <3>1. j \in places
      BY <1>2, <1>3, <1>6, <2>1 DEF entries
    <3>2. ASSUME NEW i \in places PROVE i = j
      <4>1. i \in 1..ECount /\ Bad(i) /\ \A k \in 1..(i - 1) : ~Bad(k)
        BY DEF entries
      <4>2. ~(i \in 1..(j - 1))
        BY <1>3, <2>1, <4>1
      <4>3. ~(j \in 1..(i - 1))
        BY <1>3, <1>6, <4>1
      <4>. QED BY <4>1, <4>2, <4>3
    <3>. QED BY <3>1, <3>2
  <2>3. (CHOOSE i \in places : TRUE) = j
    BY <2>2
  <2>. QED BY <1>1, <1>3, <2>2, <2>3
<1>. QED BY <1>4, <1>5, <1>6
\* One more entry: the rules find a fault exactly if the entry has one of its
\* own or does not come after all before it.
SignatureOut(j) == \E i \in 1..(j - 1) : ~Precedes(SignatureKeys[i], SignatureKeys[j])
SignatureBad(j) ==
    SignatureFault(receipt.signatures[j], require_values) # "none" \/ SignatureOut(j)
SignatureWhy(j) ==
    CASE SignatureFault(receipt.signatures[j], require_values) # "none" ->
            SignatureFault(receipt.signatures[j], require_values)
      [] SignatureFault(receipt.signatures[j], require_values) = "none"
         /\ \E i \in 1..(j - 1) : SignatureKeys[i] = SignatureKeys[j] -> "DuplicateSignature"
      [] OTHER -> "SignaturesNotSorted"

LEMMA SignatureStep ==
    ASSUME Count \in Nat, at \in 1..Count, SignaturesSound(at - 1), Noted(SignatureKeys, at - 1)
    PROVE  LET entry == receipt.signatures[at]
           IN  /\ (\A i \in DOMAIN SignatureRules : ~FailsSignature(SignatureRules[i], entry))
                     => SignaturesSound(at)
               /\ \A i \in DOMAIN SignatureRules :
                     (/\ ~\E k \in 1..(i - 1) : FailsSignature(SignatureRules[k], entry)
                      /\ FailsSignature(SignatureRules[i], entry))
                     => /\ SignatureBad(at)
                        /\ ErrorOf(SignatureRules[i], "signatures") = SignatureWhy(at)
<1>. DEFINE entry == receipt.signatures[at]
            key == SignatureKeys[at]
<1>1. /\ DOMAIN SignatureRules = 1..6
      /\ SignatureRules[5] = "DuplicateSignature" /\ SignatureRules[6] = "SignaturesNotSorted"
  BY DEF SignatureRules
<1>2. /\ FailsSignature(SignatureRules[5], entry) <=> Repeated(key)
      /\ FailsSignature(SignatureRules[6], entry) <=> Misplaced(key)
  BY <1>1 DEF FailsSignature, SignatureKeys
<1>3. /\ ErrorOf(SignatureRules[5], "signatures") = "DuplicateSignature"
      /\ ErrorOf(SignatureRules[6], "signatures") = "SignaturesNotSorted"
  BY <1>1 DEF ErrorOf
<1>4. \A i \in 1..(at - 1) : SignatureKeys[i] \in Text \X Text
  BY SignatureRulesAreFaults DEF SignaturesSound, SignatureKeys
<1>5. ASSUME SignatureFault(entry, require_values) = "none"
      PROVE  /\ Repeated(key) <=> \E i \in 1..(at - 1) : SignatureKeys[i] = key
             /\ Repeated(key) \/ Misplaced(key) <=> SignatureOut(at)
             /\ ~SignatureOut(at) => SignaturesSound(at)
  <2>1. key \in Text \X Text
    BY <1>5, SignatureRulesAreFaults DEF SignatureKeys
  <2>2. \A i \in 1..((at - 1) + 1) : SignatureKeys[i] \in Text \X Text
    <3>. SUFFICES ASSUME NEW i \in 1..((at - 1) + 1) PROVE SignatureKeys[i] \in Text \X Text
      OBVIOUS
    <3>1. i = at \/ i \in 1..(at - 1)
      OBVIOUS
    <3>. QED BY <3>1, <1>4, <2>1
  <2>3. at - 1 \in Nat /\ (at - 1) + 1 = at /\ Ascending(SignatureKeys, at - 1)
    BY DEF SignaturesSound
  <2> HIDE DEF key, entry
  <2>4. /\ Repeated(SignatureKeys[at]) <=> \E i \in 1..(at - 1) : SignatureKeys[i] = SignatureKeys[at]
        /\ Repeated(SignatureKeys[at]) \/ Misplaced(SignatureKeys[at])
              <=> \E i \in 1..(at - 1) : ~Precedes(SignatureKeys[i], SignatureKeys[at])
        /\ (\A i \in 1..(at - 1) : Precedes(SignatureKeys[i], SignatureKeys[at]))
              => Ascending(SignatureKeys, at)
    BY <2>2, <2>3, OneKeyOn
  <2>5. \A i \in 1..at : i = at \/ i \in 1..(at - 1)
    OBVIOUS
  <2>6. Ascending(SignatureKeys, at) => SignaturesSound(at)
    BY <1>5, <2>5 DEF SignaturesSound, entry
  <2>. QED BY <2>4, <2>6 DEF SignatureOut, key
<1>. HIDE DEF key, entry
<1>6. ASSUME \A i \in DOMAIN SignatureRules : ~FailsSignature(SignatureRules[i], entry)
      PROVE  SignaturesSound(at)
  <2>1. SignatureFault(entry, require_values) = "none"
    BY <1>1, <1>6, SignatureRulesAreFaults
  <2>2. ~Repeated(key) /\ ~Misplaced(key)
    BY <1>1, <1>2, <1>6
  <2>. QED BY <1>5, <2>1, <2>2
<1>7. ASSUME NEW i \in DOMAIN SignatureRules,
             ~\E k \in 1..(i - 1) : FailsSignature(SignatureRules[k], entry),
             FailsSignature(SignatureRules[i], entry)
      PROVE  /\ SignatureBad(at)
             /\ ErrorOf(SignatureRules[i], "signatures") = SignatureWhy(at)
  <2>1. CASE i \in 1..4
    <3>1. SignatureFault(entry, require_values) = ErrorOf(SignatureRules[i], "signatures")
      BY <1>7, <2>1, SignatureRulesAreFaults
    <3>2. SignatureFault(entry, require_values) # "none"
      BY <1>7, <2>1, SignatureRulesAreFaults
    <3>. QED BY <3>1, <3>2 DEF SignatureBad, SignatureWhy, entry
  <2>2. ASSUME i \in 5..6 PROVE SignatureFault(entry, require_values) = "none"
    <3>1. \A k \in 1..4 : k \in 1..(i - 1)
      BY <2>2
    <3>. QED BY <1>7, <3>1, SignatureRulesAreFaults
  <2>3. CASE i = 5
    <3>1. Repeated(key)
      BY <1>2, <1>7, <2>3
    <3>. QED BY <1>3, <1>5, <2>2, <2>3, <3>1 DEF SignatureBad, SignatureWhy, entry, key
  <2>4. CASE i = 6
    <3>1. Misplaced(key) /\ ~Repeated(key)
      BY <1>2, <1>7, <2>4
    <3>. QED BY <1>3, <1>5, <2>2, <2>4, <3>1 DEF SignatureBad, SignatureWhy, entry, key
  <2>. QED BY <1>1, <2>1, <2>3, <2>4
<1>. QED BY <1>6, <1>7 DEF entry

\* What the list as a whole is said to be at fault for.
LEMMA SignatureListFaults ==
    ASSUME Count \in Nat, DOMAIN receipt.signatures = 1..Count
    PROVE  /\ SignaturesSound(Count) => SignatureListFault(receipt, require_values) = "none"
           /\ \A j \in 1..Count :
                 SignaturesSound(j - 1) /\ SignatureBad(j)
                    => SignatureListFault(receipt, require_values) = SignatureWhy(j) /\ SignatureWhy(j) # "none"
<1>. DEFINE entries == receipt.signatures
            Out(j) == \E i \in 1..(j - 1) : ~Precedes(SignatureKey(entries[i]), SignatureKey(entries[j]))
            Bad(j) == SignatureFault(entries[j], require_values) # "none" \/ Out(j)
            Why(j) == CASE SignatureFault(entries[j], require_values) # "none" -> SignatureFault(entries[j], require_values)
                        [] SignatureFault(entries[j], require_values) = "none"
                           /\ \E i \in 1..(j - 1) : SignatureKey(entries[i]) = SignatureKey(entries[j]) ->
                                "DuplicateSignature"
                        [] OTHER -> "SignaturesNotSorted"
            places == {j \in DOMAIN entries : (\A i \in 1..(j - 1) : ~Bad(i)) /\ Bad(j)}
<1>1. SignatureListFault(receipt, require_values) = IF places = {} THEN "none" ELSE Why(CHOOSE j \in places : TRUE)
  BY Zenon DEF SignatureListFault, ListFault
<1>2. \A j \in 1..Count : \A i \in 1..(j - 1) : i \in 1..Count
  OBVIOUS
<1>3. \A j \in 1..Count : (Bad(j) <=> SignatureBad(j)) /\ Why(j) = SignatureWhy(j)
  <2>1. \A i \in 1..Count : SignatureKeys[i] = SignatureKey(entries[i])
    BY DEF SignatureKeys
  <2>. SUFFICES ASSUME NEW j \in 1..Count
                PROVE  (Bad(j) <=> SignatureBad(j)) /\ Why(j) = SignatureWhy(j)
    OBVIOUS
  <2>2. Out(j) <=> SignatureOut(j)
    BY <1>2, <2>1 DEF SignatureOut
  <2>3. (\E i \in 1..(j - 1) : SignatureKey(entries[i]) = SignatureKey(entries[j]))
            <=> (\E i \in 1..(j - 1) : SignatureKeys[i] = SignatureKeys[j])
    BY <1>2, <2>1
  <2>. HIDE DEF entries
  <2>4. Bad(j) <=> SignatureBad(j)
    BY <2>2, Zenon DEF SignatureBad, entries
  <2>5. Why(j) = SignatureWhy(j)
    BY <2>3, SMT DEF SignatureWhy, entries
  <2>. QED BY <2>4, <2>5
<1>4. \A j \in 1..Count : SignatureWhy(j) # "none"
  BY DEF SignatureWhy
<1>. HIDE DEF Bad, Why, Out, entries
<1>5. ASSUME SignaturesSound(Count) PROVE SignatureListFault(receipt, require_values) = "none"
  <2>1. \A j \in 1..Count : ~SignatureBad(j)
    BY <1>2, <1>5 DEF SignaturesSound, SignatureBad, SignatureOut, Ascending
  <2>2. places = {}
    BY <1>3, <2>1 DEF entries
  <2>. QED BY <1>1, <2>2
<1>6. ASSUME NEW j \in 1..Count, SignaturesSound(j - 1), SignatureBad(j)
      PROVE  SignatureListFault(receipt, require_values) = SignatureWhy(j)
  <2>1. \A i \in 1..(j - 1) : ~SignatureBad(i)
    <3>1. \A i \in 1..(j - 1) : \A k \in 1..(i - 1) : k \in 1..(j - 1) /\ k < i
      OBVIOUS
    <3>. QED BY <1>6, <3>1 DEF SignaturesSound, SignatureBad, SignatureOut, Ascending
  <2>2. places = {j}
    <3>1. j \in places
      BY <1>2, <1>3, <1>6, <2>1 DEF entries
    <3>2. ASSUME NEW i \in places PROVE i = j
      <4>1. i \in 1..Count /\ Bad(i) /\ \A k \in 1..(i - 1) : ~Bad(k)
        BY DEF entries
      <4>2. ~(i \in 1..(j - 1))
        BY <1>3, <2>1, <4>1
      <4>3. ~(j \in 1..(i - 1))
        BY <1>3, <1>6, <4>1
      <4>. QED BY <4>1, <4>2, <4>3
    <3>. QED BY <3>1, <3>2
  <2>3. (CHOOSE i \in places : TRUE) = j
    BY <2>2
  <2>. QED BY <1>1, <1>3, <2>2, <2>3
<1>. QED BY <1>4, <1>5, <1>6

----------------------------------------------------------------------------
\* One of the first signatures names the issuer.
Issued(n) == \E i \in 1..n : receipt.signatures[i].signer = receipt.issuer

Sound ==
    /\ EvidenceSound(ECount) /\ SignaturesSound(Count)
    /\ require_values => Issued(Count)

\* What Conforms says of the members of the receipt itself.
SchemaConforms ==
    /\ receipt # NotObject /\ ~receipt.extra
    /\ receipt.profile = "aps-receipt-v1"
    /\ \A key \in Identifiers : receipt[key] \in Name
    /\ receipt.receipt_id \notin {Absent, Null, Malformed}
    /\ require_values => receipt.receipt_id.hex64
    /\ receipt.action_ref \in Hex64
    /\ {receipt.decision_ref, receipt.prev} \subseteq Hex64 \cup {Absent}
    /\ receipt.issued_at \in {t \in Text : Ms[t] # Err /\ Formatted(Ms[t]) = t}
    /\ {receipt.result, receipt.evidence_refs, receipt.signatures}
          \cap {Absent, Null, Malformed} = {}
    /\ receipt.result.number \notin Unsafe

LEMMA SchemaRulesAreConformity == SchemaClean <=> SchemaConforms
<1>1. SchemaClean <=>
        /\ ~FailsSchema("NotAnObject", receipt, require_values)
        /\ ~FailsSchema("UnknownField", receipt, require_values)
        /\ ~FailsSchema("MissingField", receipt, require_values)
        /\ ~FailsSchema("NotStrictIJson", receipt, require_values)
        /\ ~FailsSchema("WrongProfile", receipt, require_values)
        /\ ~FailsSchema("EmptyIdentifier", receipt, require_values)
        /\ ~FailsSchema("InvalidHex64", receipt, require_values)
        /\ ~FailsSchema("InvalidIssuedAt", receipt, require_values)
        /\ ~FailsSchema("InvalidResult", receipt, require_values)
        /\ ~FailsSchema("NotArrays", receipt, require_values)
  <2>1. DOMAIN SchemaRules = 1..10
    BY DEF SchemaRules
  <2>2. \A i \in 1..10 : \/ i = 1 \/ i = 2 \/ i = 3 \/ i = 4 \/ i = 5
                         \/ i = 6 \/ i = 7 \/ i = 8 \/ i = 9 \/ i = 10
    OBVIOUS
  <2>. HIDE DEF FailsSchema
  <2>. QED BY <2>1, <2>2 DEF SchemaClean, SchemaRules
<1>2. FailsSchema("MissingField", receipt, require_values)
        <=> \E key \in REQUIRED_KEYS : receipt[key] = Absent
  BY DEF FailsSchema
<1>3. ASSUME SchemaClean PROVE SchemaConforms
  <2>1. /\ receipt # NotObject /\ ~receipt.extra
        /\ receipt.profile = "aps-receipt-v1"
        /\ \A key \in Identifiers : receipt[key] \in Name
    BY <1>1, <1>3 DEF FailsSchema
  <2>2. /\ receipt.receipt_id \notin {Absent, Null, Malformed}
        /\ require_values => receipt.receipt_id.hex64
        /\ receipt.action_ref \in Hex64
        /\ {receipt.decision_ref, receipt.prev} \subseteq Hex64 \cup {Absent}
    BY <1>1, <1>2, <1>3 DEF FailsSchema, Mistyped, REQUIRED_KEYS
  <2>3. receipt.issued_at \in {t \in Text : Ms[t] # Err /\ Formatted(Ms[t]) = t}
    BY <1>1, <1>3 DEF FailsSchema, is_exact_utc_milliseconds, parse_ms
  <2>4. {receipt.result, receipt.evidence_refs, receipt.signatures}
            \cap {Absent, Null, Malformed} = {}
    BY <1>1, <1>2, <1>3 DEF FailsSchema, Mistyped, REQUIRED_KEYS
  <2>5. receipt.result.number \notin Unsafe
    BY <1>1, <1>3, <2>4 DEF FailsSchema, assert_ijson
  <2>. QED BY <2>1, <2>2, <2>3, <2>4, <2>5 DEF SchemaConforms
<1>4. ASSUME SchemaConforms PROVE SchemaClean
  <2>1. \A key \in REQUIRED_KEYS : receipt[key] # Absent
    BY <1>4, HexAssumption, ProfileAssumption, ShapeAssumption
       DEF SchemaConforms, REQUIRED_KEYS, Name
  <2>2. ~FailsSchema("InvalidHex64", receipt, require_values)
    BY <1>4 DEF SchemaConforms, FailsSchema, Mistyped
  <2>3. ~FailsSchema("InvalidIssuedAt", receipt, require_values)
    BY <1>4 DEF SchemaConforms, FailsSchema, is_exact_utc_milliseconds, parse_ms
  <2>4. /\ ~FailsSchema("NotAnObject", receipt, require_values)
        /\ ~FailsSchema("UnknownField", receipt, require_values)
        /\ ~FailsSchema("NotStrictIJson", receipt, require_values)
        /\ ~FailsSchema("WrongProfile", receipt, require_values)
        /\ ~FailsSchema("EmptyIdentifier", receipt, require_values)
        /\ ~FailsSchema("InvalidResult", receipt, require_values)
        /\ ~FailsSchema("NotArrays", receipt, require_values)
    BY <1>4 DEF SchemaConforms, FailsSchema, assert_ijson, Mistyped
  <2>. QED BY <1>1, <1>2, <2>1, <2>2, <2>3, <2>4
<1>. QED BY <1>3, <1>4

\* A receipt conforms if its schema is in order and both its lists are.
LEMMA ConformsIsSound ==
    ASSUME ReceiptInv
    PROVE  Conforms(<<receipt, call>>) <=> SchemaClean /\ Sound
<1>1. Conforms(<<receipt, call>>) <=>
        /\ SchemaConforms
        /\ \A i \in DOMAIN receipt.evidence_refs :
              EvidenceFault(receipt.evidence_refs[i]) = "none"
        /\ \A i, j \in DOMAIN receipt.evidence_refs : i < j =>
              Precedes(EvidenceKey(receipt.evidence_refs[i]), EvidenceKey(receipt.evidence_refs[j]))
        /\ \A i \in DOMAIN receipt.signatures :
              SignatureFault(receipt.signatures[i], require_values) = "none"
        /\ \A i, j \in DOMAIN receipt.signatures : i < j =>
              Precedes(SignatureKey(receipt.signatures[i]), SignatureKey(receipt.signatures[j]))
        /\ require_values =>
              \E i \in DOMAIN receipt.signatures : receipt.signatures[i].signer = receipt.issuer
  BY DEF Conforms, SchemaConforms, require_values
<1>2. ASSUME SchemaClean
      PROVE  /\ ECount \in Nat /\ DOMAIN receipt.evidence_refs = 1..ECount
             /\ Count \in Nat /\ DOMAIN receipt.signatures = 1..Count
  BY <1>2, CleanSchema
<1>3. ASSUME SchemaClean
      PROVE  /\ EvidenceSound(ECount) <=>
                  /\ \A i \in DOMAIN receipt.evidence_refs :
                        EvidenceFault(receipt.evidence_refs[i]) = "none"
                  /\ \A i, j \in DOMAIN receipt.evidence_refs : i < j =>
                        Precedes(EvidenceKey(receipt.evidence_refs[i]),
                                 EvidenceKey(receipt.evidence_refs[j]))
             /\ SignaturesSound(Count) <=>
                  /\ \A i \in DOMAIN receipt.signatures :
                        SignatureFault(receipt.signatures[i], require_values) = "none"
                  /\ \A i, j \in DOMAIN receipt.signatures : i < j =>
                        Precedes(SignatureKey(receipt.signatures[i]),
                                 SignatureKey(receipt.signatures[j]))
             /\ Issued(Count) <=>
                  \E i \in DOMAIN receipt.signatures :
                      receipt.signatures[i].signer = receipt.issuer
  <2>1. /\ \A i \in 1..ECount : EvidenceKeys[i] = EvidenceKey(receipt.evidence_refs[i])
        /\ \A i \in 1..Count : SignatureKeys[i] = SignatureKey(receipt.signatures[i])
    BY DEF EvidenceKeys, SignatureKeys
  <2>. QED BY <1>2, <1>3, <2>1 DEF EvidenceSound, SignaturesSound, Ascending, Issued
<1>. QED BY <1>1, <1>3, SchemaRulesAreConformity DEF Sound

\* What is wrong with the lists, or "Ok".
ListsVerdict ==
    CASE EvidenceListFault(receipt) # "none" -> EvidenceListFault(receipt)
      [] EvidenceListFault(receipt) = "none"
         /\ SignatureListFault(receipt, require_values) # "none" ->
            SignatureListFault(receipt, require_values)
      [] OTHER ->
            IF require_values /\ \A i \in DOMAIN receipt.signatures :
                    receipt.signatures[i].signer # receipt.issuer
            THEN "IssuerSignatureMissing" ELSE "Ok"

\* The answer that is right.
Rightly(answer) ==
    /\ answer = "Ok" <=> Conforms(<<receipt, call>>)
    /\ SchemaClean => answer = ListsVerdict

AnswerNamed == pc = "done" => Rightly(validation)

\* What the loops have seen to, entry by entry.
EvidenceWalked ==
    at <= ECount + 1 /\ EvidenceSound(at - 1) /\ Noted(EvidenceKeys, at - 1)
SignaturesWalked ==
    /\ EvidenceSound(ECount)
    /\ at <= Count + 1 /\ SignaturesSound(at - 1) /\ Noted(SignatureKeys, at - 1)
    /\ issuer_signed <=> Issued(at - 1)

ValidationInv ==
    /\ pc \notin {"schema", "done"} \/ validation = "Ok" => SchemaClean
    /\ pc \in {"schema", "evidence"} => ~issuer_signed
    /\ pc = "evidence" => EvidenceWalked
    /\ pc = "signatures" => SignaturesWalked
    /\ validation = "Ok" => Sound
    /\ AnswerNamed

\* Nothing is wrong with either list: the answer is "Ok".
LEMMA AcceptedRightly ==
    ASSUME ReceiptInv, SchemaClean, Sound
    PROVE  Rightly("Ok")
<1>1. /\ ECount \in Nat /\ DOMAIN receipt.evidence_refs = 1..ECount
      /\ Count \in Nat /\ DOMAIN receipt.signatures = 1..Count
  BY CleanSchema
<1>2. Conforms(<<receipt, call>>)
  BY ConformsIsSound
<1>3. /\ EvidenceListFault(receipt) = "none"
      /\ SignatureListFault(receipt, require_values) = "none"
  BY <1>1, EvidenceListFaults, SignatureListFaults DEF Sound
<1>4. require_values => ~\A i \in DOMAIN receipt.signatures :
                              receipt.signatures[i].signer # receipt.issuer
  BY <1>1 DEF Sound, Issued
<1>5. ListsVerdict = "Ok"
  BY <1>3, <1>4 DEF ListsVerdict
<1>. QED BY <1>2, <1>5 DEF Rightly

LEMMA SchemaRefusedRightly ==
    ASSUME ReceiptInv, ~SchemaClean, NEW answer, answer # "Ok"
    PROVE  Rightly(answer)
BY ConformsIsSound DEF Rightly

LEMMA EvidenceRefusedRightly ==
    ASSUME ReceiptInv, ValidationInv, RefuseEvidence
    PROVE  Rightly(validation') /\ validation' # "Ok"
<1>1. pc = "evidence" /\ SchemaClean /\ at \in 1..ECount /\ ECount \in Nat
      /\ DOMAIN receipt.evidence_refs = 1..ECount
  BY CleanSchema DEF RefuseEvidence, ValidationInv, ReceiptInv, ReceiptTypeOK, ECount
<1>2. PICK i \in DOMAIN EvidenceRules :
        /\ ~\E k \in 1..(i - 1) : FailsEvidence(EvidenceRules[k], receipt.evidence_refs[at])
        /\ FailsEvidence(EvidenceRules[i], receipt.evidence_refs[at])
        /\ validation' = ErrorOf(EvidenceRules[i], "evidence_refs")
  BY DEF RefuseEvidence, Refuse
<1>3. EvidenceSound(at - 1) /\ Noted(EvidenceKeys, at - 1)
  BY <1>1 DEF ValidationInv, EvidenceWalked
<1>4. EvidenceBad(at) /\ validation' = EvidenceWhy(at)
  BY <1>1, <1>2, <1>3, EvidenceStep
<1>5. EvidenceListFault(receipt) = validation' /\ EvidenceListFault(receipt) # "none"
  BY <1>1, <1>3, <1>4, EvidenceListFaults
<1>6. ~EvidenceSound(ECount)
  BY <1>1, <1>5, EvidenceListFaults
<1>7. ~Conforms(<<receipt, call>>)
  BY <1>6, ConformsIsSound DEF Sound
<1>8. validation' # "Ok"
  BY <1>2 DEF ErrorOf, EvidenceRules
<1>. QED BY <1>5, <1>7, <1>8 DEF Rightly, ListsVerdict

LEMMA SignatureRefusedRightly ==
    ASSUME ReceiptInv, ValidationInv, RefuseSignature
    PROVE  Rightly(validation') /\ validation' # "Ok"
<1>1. /\ pc = "signatures" /\ SchemaClean /\ at \in 1..Count /\ Count \in Nat
      /\ DOMAIN receipt.signatures = 1..Count
      /\ ECount \in Nat /\ DOMAIN receipt.evidence_refs = 1..ECount
  BY CleanSchema DEF RefuseSignature, ValidationInv, ReceiptInv, ReceiptTypeOK, Count
<1>2. PICK i \in DOMAIN SignatureRules :
        /\ ~\E k \in 1..(i - 1) : FailsSignature(SignatureRules[k], receipt.signatures[at])
        /\ FailsSignature(SignatureRules[i], receipt.signatures[at])
        /\ validation' = ErrorOf(SignatureRules[i], "signatures")
  BY DEF RefuseSignature, Refuse
<1>3. SignaturesSound(at - 1) /\ Noted(SignatureKeys, at - 1) /\ EvidenceSound(ECount)
  BY <1>1 DEF ValidationInv, SignaturesWalked
<1>4. SignatureBad(at) /\ validation' = SignatureWhy(at)
  BY <1>1, <1>2, <1>3, SignatureStep
<1>5. /\ SignatureListFault(receipt, require_values) = validation'
      /\ SignatureListFault(receipt, require_values) # "none"
  BY <1>1, <1>3, <1>4, SignatureListFaults
<1>6. ~SignaturesSound(Count) /\ EvidenceListFault(receipt) = "none"
  BY <1>1, <1>3, <1>5, SignatureListFaults, EvidenceListFaults
<1>7. ~Conforms(<<receipt, call>>)
  BY <1>6, ConformsIsSound DEF Sound
<1>8. validation' # "Ok"
  BY <1>2 DEF ErrorOf, SignatureRules
<1>. QED BY <1>5, <1>6, <1>7, <1>8 DEF Rightly, ListsVerdict

\* The end of the signatures.
LEMMA ListsRead ==
    ASSUME ReceiptInv, ValidationInv, pc = "signatures", at > Len(receipt.signatures)
    PROVE  /\ SchemaClean /\ EvidenceSound(ECount) /\ SignaturesSound(Count)
           /\ issuer_signed <=> Issued(Count)
<1>1. SchemaClean /\ Count \in Nat /\ at \in Nat
  BY CleanSchema DEF ValidationInv, ReceiptInv, ReceiptTypeOK
<1>2. at - 1 = Count
  BY <1>1 DEF ValidationInv, SignaturesWalked, Count
<1>. QED BY <1>1, <1>2 DEF ValidationInv, SignaturesWalked

LEMMA IssuerRefusedRightly ==
    ASSUME ReceiptInv, ValidationInv, RefuseIssuer
    PROVE  Rightly(validation') /\ validation' # "Ok"
<1>1. /\ SchemaClean /\ EvidenceSound(ECount) /\ SignaturesSound(Count)
      /\ ~Issued(Count) /\ require_values
  BY ListsRead DEF RefuseIssuer
<1>2. /\ ECount \in Nat /\ DOMAIN receipt.evidence_refs = 1..ECount
      /\ Count \in Nat /\ DOMAIN receipt.signatures = 1..Count
  BY <1>1, CleanSchema
<1>3. /\ EvidenceListFault(receipt) = "none"
      /\ SignatureListFault(receipt, require_values) = "none"
  BY <1>1, <1>2, EvidenceListFaults, SignatureListFaults
<1>4. ~Conforms(<<receipt, call>>)
  BY <1>1, ConformsIsSound DEF Sound
<1>5. validation' = "IssuerSignatureMissing"
  BY DEF RefuseIssuer, Refuse
<1>6. \A i \in DOMAIN receipt.signatures : receipt.signatures[i].signer # receipt.issuer
  BY <1>1, <1>2 DEF Issued
<1>7. ListsVerdict = "IssuerSignatureMissing"
  BY <1>1, <1>3, <1>6 DEF ListsVerdict
<1>. QED BY <1>4, <1>5, <1>7 DEF Rightly

\* What is said of the receipt alone stays true while the receipt stays.
LEMMA ReceiptFactsKept ==
    ASSUME UNCHANGED <<receipt, call>>
    PROVE  /\ SchemaClean' <=> SchemaClean
           /\ ECount' = ECount /\ Count' = Count
           /\ EvidenceKeys' = EvidenceKeys /\ SignatureKeys' = SignatureKeys
           /\ \A n : EvidenceSound(n)' <=> EvidenceSound(n)
           /\ \A n : SignaturesSound(n)' <=> SignaturesSound(n)
           /\ \A n : Issued(n)' <=> Issued(n)
           /\ \A a : Rightly(a)' <=> Rightly(a)
           /\ Sound' <=> Sound
<1>1. require_values' = require_values
  BY DEF require_values
<1>2. /\ ECount' = ECount /\ Count' = Count
      /\ EvidenceKeys' = EvidenceKeys /\ SignatureKeys' = SignatureKeys
      /\ SchemaClean' <=> SchemaClean
  BY <1>1 DEF ECount, Count, EvidenceKeys, SignatureKeys, SchemaClean
<1>3. /\ \A n : EvidenceSound(n)' <=> EvidenceSound(n)
      /\ \A n : SignaturesSound(n)' <=> SignaturesSound(n)
      /\ \A n : Issued(n)' <=> Issued(n)
  BY <1>1, <1>2 DEF EvidenceSound, SignaturesSound, Issued
<1>4. Sound' <=> Sound
  BY <1>1, <1>2 DEF Sound, EvidenceSound, SignaturesSound, Issued
<1>5. ListsVerdict' = ListsVerdict
  BY <1>1 DEF ListsVerdict
<1>6. \A a : Rightly(a)' <=> Rightly(a)
  BY <1>2, <1>5 DEF Rightly
<1>. QED BY <1>2, <1>3, <1>4, <1>6

LEMMA ValidationInit == ReceiptInit => ValidationInv
BY DEF ReceiptInit, ValidationInv, AnswerNamed

LEMMA ReceiptArgumentsKept == [ReceiptNext]_receiptVars => UNCHANGED <<receipt, call>>
BY DEF ReceiptNext, receiptVars, RefuseSchema, PassSchema, ReadEvidence, RefuseEvidence,
       EndEvidence, ReadSignature, RefuseSignature, RefuseIssuer, PassValidation,
       CheckIdentity, AskResolver, ConcludeReceipt, Refuse, BeginList, Remember

\* A refusal that is right keeps the invariant.
LEMMA RightRefusalKeeps ==
    ASSUME ReceiptInv, ValidationInv, NEW error, Refuse(error),
           Rightly(error), error # "Ok"
    PROVE  ValidationInv'
<1>1. UNCHANGED <<receipt, call>> /\ pc' = "done" /\ validation' = error
  BY DEF Refuse
<1>2. Rightly(error)'
  BY <1>1, ReceiptFactsKept
<1>. HIDE DEF Rightly
<1>3. AnswerNamed'
  <2>1. (Rightly(validation))' <=> Rightly(error)'
    BY <1>1 DEF Rightly
  <2>. QED BY <1>2, <2>1 DEF AnswerNamed
<1>. QED BY <1>1, <1>3 DEF ValidationInv

LEMMA ValidationRefusalsKeep ==
    ASSUME ReceiptInv, ValidationInv,
           RefuseSchema \/ RefuseEvidence \/ RefuseSignature \/ RefuseIssuer
    PROVE  ValidationInv'
<1>1. CASE RefuseSchema
  <2>1. PICK i \in DOMAIN SchemaRules :
          FailsSchema(SchemaRules[i], receipt, require_values) /\ Refuse(SchemaRules[i])
    BY <1>1 DEF RefuseSchema
  <2>2. ~SchemaClean
    BY <2>1 DEF SchemaClean
  <2>3. SchemaRules[i] # "Ok"
    BY <2>1 DEF SchemaRules
  <2>. QED BY <2>1, <2>2, <2>3, SchemaRefusedRightly, RightRefusalKeeps
<1>2. CASE RefuseEvidence
  <2>1. Rightly(validation') /\ validation' # "Ok"
    BY <1>2, EvidenceRefusedRightly
  <2>2. PICK error : Refuse(error)
    BY <1>2 DEF RefuseEvidence
  <2>3. validation' = error
    BY <2>2 DEF Refuse
  <2>. QED BY <2>1, <2>2, <2>3, RightRefusalKeeps
<1>3. CASE RefuseSignature
  <2>1. Rightly(validation') /\ validation' # "Ok"
    BY <1>3, SignatureRefusedRightly
  <2>2. PICK error : Refuse(error)
    BY <1>3 DEF RefuseSignature
  <2>3. validation' = error
    BY <2>2 DEF Refuse
  <2>. QED BY <2>1, <2>2, <2>3, RightRefusalKeeps
<1>4. CASE RefuseIssuer
  <2>1. Rightly(validation') /\ validation' # "Ok"
    BY <1>4, IssuerRefusedRightly
  <2>2. PICK error : Refuse(error)
    BY <1>4 DEF RefuseIssuer
  <2>3. validation' = error
    BY <2>2 DEF Refuse
  <2>. QED BY <2>1, <2>2, <2>3, RightRefusalKeeps
<1>. QED BY <1>1, <1>2, <1>3, <1>4

\* The first n keys and one more.
LEMMA NotedOn ==
    ASSUME NEW K, NEW n \in Nat \ {0}
    PROVE  {K[i] : i \in 1..n} = {K[i] : i \in 1..(n - 1)} \cup {K[n]}
<1>1. 1..n = (1..(n - 1)) \cup {n}
  OBVIOUS
<1>. QED BY <1>1

LEMMA NothingYet ==
    /\ \A K : {K[i] : i \in 1..0} = {} /\ Ascending(K, 0)
    /\ EvidenceSound(0) /\ SignaturesSound(0) /\ ~Issued(0)
BY DEF Ascending, EvidenceSound, SignaturesSound, Issued

LEMMA PassSchemaKeeps ==
    ASSUME ReceiptInv, ValidationInv, PassSchema PROVE ValidationInv'
<1>1. /\ UNCHANGED <<receipt, call, issuer_signed, validation>>
      /\ pc = "schema" /\ pc' = "evidence" /\ at' = 1 /\ seen' = {} /\ previous' = None
  BY DEF PassSchema, BeginList
<1>2. SchemaClean /\ validation = "pending" /\ ~issuer_signed
  BY <1>1 DEF PassSchema, SchemaClean, ReceiptInv, ValidationInv
<1>3. ECount \in Nat
  BY <1>2, CleanSchema
<1>4. EvidenceWalked'
  <2>1. at' - 1 = 0 /\ ECount' \in Nat /\ at' <= ECount' + 1
    BY <1>1, <1>3, ReceiptFactsKept
  <2>2. EvidenceSound(0)'
    BY <1>1, NothingYet, ReceiptFactsKept
  <2>3. EvidenceSound(at - 1)'
    BY <2>1, <2>2 DEF EvidenceSound
  <2>4. Noted(EvidenceKeys, at - 1)'
    BY <1>1, <2>1, NothingYet DEF Noted
  <2>. QED BY <1>1, <2>1, <2>3, <2>4 DEF EvidenceWalked
<1>5. SchemaClean'
  BY <1>1, <1>2, ReceiptFactsKept
<1>. QED BY <1>1, <1>2, <1>4, <1>5 DEF ValidationInv, AnswerNamed

LEMMA ReadEvidenceKeeps ==
    ASSUME ReceiptInv, ValidationInv, ReadEvidence PROVE ValidationInv'
<1>1. /\ UNCHANGED <<receipt, call, pc, validation>> /\ pc = "evidence"
      /\ at' = at + 1 /\ previous' = EvidenceKey(receipt.evidence_refs[at])
      /\ seen' = seen \cup {EvidenceKey(receipt.evidence_refs[at])}
      /\ issuer_signed' = (issuer_signed \/ FALSE)
  BY DEF ReadEvidence, Remember
<1>2. SchemaClean /\ validation = "pending" /\ ~issuer_signed
  BY <1>1 DEF ReceiptInv, ValidationInv
<1>3. /\ ECount \in Nat /\ at \in 1..ECount /\ EvidenceSound(at - 1)
      /\ Noted(EvidenceKeys, at - 1)
  BY <1>1, <1>2, CleanSchema
     DEF ReadEvidence, ValidationInv, EvidenceWalked, ReceiptInv, ReceiptTypeOK, ECount
<1>4. EvidenceSound(at)
  BY <1>3, EvidenceStep DEF ReadEvidence
<1>5. EvidenceWalked'
  <2>1. at' - 1 = at /\ at' <= ECount' + 1 /\ EvidenceKeys' = EvidenceKeys
    BY <1>1, <1>3, ReceiptFactsKept
  <2>2. EvidenceKeys[at] = EvidenceKey(receipt.evidence_refs[at])
    BY <1>3 DEF EvidenceKeys
  <2>3. EvidenceSound(at - 1)'
    BY <1>1, <1>4, <2>1 DEF EvidenceSound
  <2>4. seen' = {EvidenceKeys[i] : i \in 1..at} /\ previous' = EvidenceKeys[at]
    BY <1>1, <1>3, <2>2, NotedOn DEF Noted
  <2>5. Noted(EvidenceKeys, at - 1)'
    BY <1>3, <2>1, <2>4 DEF Noted
  <2>. QED BY <2>1, <2>3, <2>5 DEF EvidenceWalked
<1>6. SchemaClean'
  BY <1>1, <1>2, ReceiptFactsKept
<1>7. ~issuer_signed'
  BY <1>1, <1>2
<1>. QED BY <1>1, <1>2, <1>5, <1>6, <1>7 DEF ValidationInv, AnswerNamed

LEMMA EndEvidenceKeeps ==
    ASSUME ReceiptInv, ValidationInv, EndEvidence PROVE ValidationInv'
<1>1. /\ UNCHANGED <<receipt, call, issuer_signed, validation>> /\ pc = "evidence"
      /\ pc' = "signatures" /\ at' = 1 /\ seen' = {} /\ previous' = None
  BY DEF EndEvidence, BeginList
<1>2. SchemaClean /\ validation = "pending" /\ ~issuer_signed
  BY <1>1 DEF ReceiptInv, ValidationInv
<1>3. ECount \in Nat /\ Count \in Nat /\ at \in Nat
  BY <1>2, CleanSchema DEF ReceiptInv, ReceiptTypeOK
<1>4. at - 1 = ECount
  BY <1>1, <1>3 DEF EndEvidence, ValidationInv, EvidenceWalked, ECount
<1>5. EvidenceSound(ECount)
  BY <1>1, <1>4 DEF ValidationInv, EvidenceWalked
<1>6. SignaturesWalked'
  <2>1. /\ at' - 1 = 0 /\ Count' \in Nat /\ at' <= Count' + 1
        /\ ECount' = ECount /\ EvidenceKeys' = EvidenceKeys
    BY <1>1, <1>3, ReceiptFactsKept
  <2>2. EvidenceSound(ECount)'
    BY <1>1, <1>5, <2>1 DEF EvidenceSound
  <2>3. SignaturesSound(0)' /\ ~Issued(0)'
    BY <1>1, NothingYet, ReceiptFactsKept
  <2>4. SignaturesSound(at - 1)' /\ ~Issued(at - 1)'
    BY <2>1, <2>3 DEF SignaturesSound, Issued
  <2>5. Noted(SignatureKeys, at - 1)'
    BY <1>1, <2>1, NothingYet DEF Noted
  <2>6. issuer_signed' <=> Issued(at - 1)'
    BY <1>1, <1>2, <2>4
  <2>. QED BY <1>1, <2>1, <2>2, <2>4, <2>5, <2>6 DEF SignaturesWalked
<1>7. SchemaClean'
  BY <1>1, <1>2, ReceiptFactsKept
<1>. QED BY <1>1, <1>2, <1>6, <1>7 DEF ValidationInv, AnswerNamed

LEMMA ReadSignatureKeeps ==
    ASSUME ReceiptInv, ValidationInv, ReadSignature PROVE ValidationInv'
<1>1. /\ UNCHANGED <<receipt, call, pc, validation>> /\ pc = "signatures"
      /\ at' = at + 1 /\ previous' = SignatureKey(receipt.signatures[at])
      /\ seen' = seen \cup {SignatureKey(receipt.signatures[at])}
      /\ issuer_signed'
            = (issuer_signed \/ receipt.signatures[at].signer = receipt.issuer)
  BY DEF ReadSignature, Remember
<1>2. SchemaClean /\ validation = "pending" /\ EvidenceSound(ECount)
  BY <1>1 DEF ReceiptInv, ValidationInv, SignaturesWalked
<1>3. /\ Count \in Nat /\ at \in 1..Count /\ SignaturesSound(at - 1)
      /\ Noted(SignatureKeys, at - 1)
      /\ issuer_signed <=> Issued(at - 1)
  BY <1>1, <1>2, CleanSchema
     DEF ReadSignature, ValidationInv, SignaturesWalked, ReceiptInv, ReceiptTypeOK, Count
<1>4. SignaturesSound(at)
  BY <1>3, SignatureStep DEF ReadSignature
<1>5. SignaturesWalked'
  <2>1. /\ at' - 1 = at /\ at' <= Count' + 1 /\ SignatureKeys' = SignatureKeys
        /\ ECount' = ECount /\ EvidenceKeys' = EvidenceKeys
    BY <1>1, <1>3, ReceiptFactsKept
  <2>2. SignatureKeys[at] = SignatureKey(receipt.signatures[at])
    BY <1>3 DEF SignatureKeys
  <2>3. SignaturesSound(at - 1)'
    BY <1>1, <1>4, <2>1 DEF SignaturesSound, require_values
  <2>4. seen' = {SignatureKeys[i] : i \in 1..at} /\ previous' = SignatureKeys[at]
    BY <1>1, <1>3, <2>2, NotedOn DEF Noted
  <2>5. Noted(SignatureKeys, at - 1)'
    BY <1>3, <2>1, <2>4 DEF Noted
  <2>6. EvidenceSound(ECount)'
    BY <1>1, <1>2, <2>1 DEF EvidenceSound
  <2>7. Issued(at) <=> Issued(at - 1) \/ receipt.signatures[at].signer = receipt.issuer
    BY <1>3 DEF Issued
  <2>8. Issued(at - 1)' <=> Issued(at)
    BY <1>1, <2>1 DEF Issued
  <2>9. issuer_signed' <=> Issued(at - 1)'
    BY <1>1, <1>3, <2>7, <2>8
  <2>. QED BY <2>1, <2>3, <2>5, <2>6, <2>9 DEF SignaturesWalked
<1>6. SchemaClean'
  BY <1>1, <1>2, ReceiptFactsKept
<1>. QED BY <1>1, <1>2, <1>5, <1>6 DEF ValidationInv, AnswerNamed

LEMMA PassValidationKeeps ==
    ASSUME ReceiptInv, ValidationInv, PassValidation PROVE ValidationInv'
<1>1. /\ UNCHANGED <<receipt, call>> /\ validation' = "Ok" /\ pc' \in {"identity", "done"}
  BY DEF PassValidation
<1>2. SchemaClean /\ Sound
  BY ListsRead DEF PassValidation, Sound
<1>3. Rightly("Ok")
  BY <1>2, AcceptedRightly
<1>4. SchemaClean' /\ Sound' /\ Rightly("Ok")'
  BY <1>1, <1>2, <1>3, ReceiptFactsKept
<1>5. AnswerNamed'
  BY <1>1, <1>4 DEF AnswerNamed, Rightly
<1>. QED BY <1>1, <1>4, <1>5 DEF ValidationInv

\* Verification leaves the answer of validation alone.
LEMMA VerificationKeeps ==
    ASSUME ReceiptInv, ValidationInv,
           CheckIdentity \/ AskResolver \/ ConcludeReceipt
    PROVE  ValidationInv'
<1>1. /\ UNCHANGED <<receipt, call, validation>> /\ pc \in {"identity", "keys"}
      /\ pc' \in {"keys", "done"}
  BY DEF CheckIdentity, AskResolver, ConcludeReceipt
<1>2. validation = "Ok" /\ SchemaClean /\ Sound
  BY <1>1 DEF ReceiptInv, ReceiptTypeOK, ValidationInv
<1>3. Rightly("Ok")
  BY <1>2, AcceptedRightly
<1>4. SchemaClean' /\ Sound' /\ Rightly("Ok")'
  BY <1>1, <1>2, <1>3, ReceiptFactsKept
<1>5. AnswerNamed'
  BY <1>1, <1>2, <1>4 DEF AnswerNamed, Rightly
<1>. QED BY <1>1, <1>4, <1>5 DEF ValidationInv

LEMMA ValidationStutters ==
    ASSUME ValidationInv, UNCHANGED receiptVars PROVE ValidationInv'
<1>1. UNCHANGED <<receipt, call, pc, at, seen, previous, issuer_signed, validation>>
  BY DEF receiptVars
<1>2. /\ SchemaClean' <=> SchemaClean
      /\ Sound' <=> Sound
  BY <1>1, ReceiptFactsKept
<1>3. EvidenceWalked' <=> EvidenceWalked
  BY <1>1, ReceiptFactsKept DEF EvidenceWalked, EvidenceSound, Noted
<1>4. SignaturesWalked' <=> SignaturesWalked
  BY <1>1, ReceiptFactsKept
     DEF SignaturesWalked, EvidenceSound, SignaturesSound, Issued, Noted, require_values
<1>5. AnswerNamed' <=> AnswerNamed
  <2>1. ListsVerdict' = ListsVerdict
    BY <1>1 DEF ListsVerdict, require_values
  <2>. QED BY <1>1, <1>2, <2>1 DEF AnswerNamed, Rightly
<1>. QED BY <1>1, <1>2, <1>3, <1>4, <1>5 DEF ValidationInv

LEMMA ValidationInvHolds == ReceiptSpec => []ValidationInv
<1>1. ReceiptInv /\ ValidationInv /\ [ReceiptNext]_receiptVars => ValidationInv'
  BY ValidationRefusalsKeep, PassSchemaKeeps, ReadEvidenceKeeps, EndEvidenceKeeps,
     ReadSignatureKeeps, PassValidationKeeps, VerificationKeeps, ValidationStutters
     DEF ReceiptNext
<1>. QED BY <1>1, ValidationInit, ReceiptInvHolds, PTL DEF ReceiptSpec

\* The offence that is reported is the first one of the lists as wholes, for
\* lists of every length.
THEOREM FirstOffenceNamed == ReceiptSpec => []ValidationNamesFirstOffence
<1>1. ValidationInv => ValidationNamesFirstOffence
  BY DEF ValidationInv, AnswerNamed, Rightly, ListsVerdict, SchemaClean,
         ValidationNamesFirstOffence
<1>. QED BY <1>1, ValidationInvHolds, PTL

\* The call is an execution of the abstract Decision: it starts undecided and
\* each step decides rightly or leaves the decision alone, whatever the
\* resolver answers.
THEOREM ReceiptsDecided ==
    ReceiptSpec => ReceiptPromise!Init /\ [][ReceiptPromise!Decide]_(ReceiptPromise!vars)
<1>1. ReceiptInit => ReceiptPromise!Init
  BY DEF ReceiptInit, ReceiptPromise!Init, IsReceiptCall
<1>2. ReceiptInv /\ ValidationInv' /\ [ReceiptNext]_receiptVars
         => [ReceiptPromise!Decide]_(ReceiptPromise!vars)
  <2> SUFFICES ASSUME ReceiptInv, ValidationInv', [ReceiptNext]_receiptVars
               PROVE  [ReceiptPromise!Decide]_(ReceiptPromise!vars)
    OBVIOUS
  <2>1. UNCHANGED <<receipt, call>>
    BY ReceiptArgumentsKept
  <2>2. CASE pc' # "done"
    <3>1. pc # "done"
      BY <2>2 DEF ReceiptNext, receiptVars, RefuseSchema, PassSchema, ReadEvidence,
                  RefuseEvidence, EndEvidence, ReadSignature, RefuseSignature,
                  RefuseIssuer, PassValidation, CheckIdentity, AskResolver, ConcludeReceipt
    <3>. QED BY <2>1, <2>2, <3>1 DEF ReceiptPromise!vars
  <2>3. CASE pc = "done"
    <3>1. UNCHANGED receiptVars
      BY <2>3 DEF ReceiptNext, RefuseSchema, PassSchema, ReadEvidence,
                  RefuseEvidence, EndEvidence, ReadSignature, RefuseSignature,
                  RefuseIssuer, PassValidation, CheckIdentity, AskResolver, ConcludeReceipt
    <3>. QED BY <2>1, <3>1 DEF ReceiptPromise!vars, receiptVars
  <2>4. CASE pc # "done" /\ pc' = "done"
    <3>1. (validation = "Ok" <=> Conforms(<<receipt, call>>))'
      BY <2>4 DEF ValidationInv, AnswerNamed, Rightly
    <3>2. Conforms(<<receipt, call>>)' <=> Conforms(<<receipt, call>>)
      BY <2>1
    <3>. QED BY <2>1, <2>4, <3>1, <3>2 DEF ReceiptPromise!Decide
  <2>. QED BY <2>2, <2>3, <2>4
<1>. QED BY <1>1, <1>2, ReceiptInvHolds, ValidationInvHolds, PTL DEF ReceiptSpec
=============================================================================
