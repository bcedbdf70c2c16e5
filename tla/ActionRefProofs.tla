--------------------------- MODULE ActionRefProofs ---------------------------
(***************************************************************************)
(* Proofs about ActionRef, for requests with any number of scopes, any     *)
(* normalization and any reading of times.                                 *)
(*                                                                         *)
(* The set of scopes seen is the normalized scopes before the one to look  *)
(* at, which RefTypeOK says, and these are different from each other,      *)
(* which is what the loop has established (Distinct).  Together they make  *)
(* one look into the set as good as a comparison with every scope before.  *)
(*                                                                         *)
(* That references match for the same requests only, and for all of them,  *)
(* is a fact about their preimages (PreimagesTell): a list without         *)
(* duplicates can be sorted, in one way, and a quotient is a second.       *)
(***************************************************************************)
EXTENDS ActionRef, FiniteSetTheorems, WellFoundedInduction, TLAPS

\* The scopes looked at differ, in a request whose time could be read.
Distinct ==
    pc = "scopes" =>
        /\ Parsed[request.created_at] # Err
        /\ at <= Len(request.scope_required) + 1
        /\ \A i, j \in 1..(at - 1) : i # j => scopes[i] # scopes[j]

Listed == \E S : refs \in Seq(S)

RefInv == RefTypeOK /\ Distinct /\ Listed /\ DuplicatesNeverIdentified

\* The scopes of the request at hand are as many as were given.
LEMMA ScopesListed ==
    ASSUME requests \in Requests, nth \in 1..2
    PROVE  /\ Len(request.scope_required) \in Nat
           /\ DOMAIN request.scope_required = 1..Len(request.scope_required)
           /\ Len(scopes) = Len(request.scope_required)
           /\ request.created_at \in Text
           /\ \A i \in 1..Len(request.scope_required) :
                 scopes[i] = Nfc[request.scope_required[i]]
<1>1. request.scope_required \in Seq(Text) /\ request.created_at \in Text
  BY RequestAssumption DEF request
<1> DEFINE given == request.scope_required
<1>2. Len(given) \in Nat /\ DOMAIN given = 1..Len(given)
  BY <1>1
<1>3. scopes \in Seq(Text) /\ Len(scopes) = Len(given)
  BY <1>1, <1>2, NfcAssumption DEF scopes
<1>. QED BY <1>1, <1>2, <1>3 DEF scopes

\* An answer is put behind those that are there.
LEMMA AnswerIsLast ==
    ASSUME Listed, NEW error, NEW hex, Answer(error, hex)
    PROVE  /\ Listed' /\ Len(refs') = Len(refs) + 1 /\ Len(refs) \in Nat
           /\ DOMAIN refs' = 1..(Len(refs) + 1) /\ DOMAIN refs = 1..Len(refs)
           /\ \A i \in 1..Len(refs) : refs'[i] = refs[i]
           /\ refs'[Len(refs) + 1].error = error
           /\ refs'[Len(refs) + 1].hex = hex
<1>1. PICK S : refs \in Seq(S)
  BY DEF Listed
<1> DEFINE entry == [error |-> error, hex |-> hex]
           T == S \cup {entry}
<1>2. refs \in Seq(T) /\ entry \in T
  BY <1>1
<1>3. refs' = Append(refs, entry)
  BY DEF Answer
<1>4. refs' \in Seq(T)
  BY <1>2, <1>3
<1>5. entry.error = error /\ entry.hex = hex
  OBVIOUS
<1> HIDE DEF entry, T
<1>. QED BY <1>2, <1>3, <1>4, <1>5 DEF Listed

\* What a request is to be answered.
RightAnswer(r) ==
    CASE Parsed[r.created_at] = Err -> "InvalidTimestamp"
      [] Parsed[r.created_at] # Err /\ Ambiguous(r) -> "DuplicateScopeRequired"
      [] OTHER -> "none"

\* A right answer keeps everything right.
LEMMA AnswerKept ==
    ASSUME RefInv, pc \in {"timestamp", "scopes"}, NEW hex,
           NEW error \in {"none"} \cup ActionRefErrors,
           Answer(error, hex), error = RightAnswer(request)
    PROVE  RefInv'
<1>1. /\ Listed' /\ Len(refs') = nth
      /\ DOMAIN refs' = 1..nth /\ DOMAIN refs = 1..(nth - 1)
      /\ \A i \in 1..(nth - 1) : refs'[i] = refs[i]
      /\ refs'[nth].error = error /\ nth \in 1..2
  BY AnswerIsLast DEF RefInv, RefTypeOK
<1>2. /\ requests' = requests /\ at' = at /\ matched' = matched /\ nth' = 2
      /\ pc' = IF nth = 1 THEN "timestamp" ELSE "match"
  BY DEF Answer
<1>3. ASSUME NEW n \in DOMAIN refs'
      PROVE  /\ refs'[n].error \in {"none"} \cup ActionRefErrors
             /\ refs'[n].error = RightAnswer(requests[n])
  <2>1. CASE n = nth
    BY <1>1, <2>1 DEF request
  <2>2. CASE n # nth
    <3>1. n \in 1..(nth - 1) /\ n \in DOMAIN refs
      BY <1>1, <1>3, <2>2
    <3>. QED BY <1>1, <3>1 DEF RefInv, RefTypeOK, DuplicatesNeverIdentified, RightAnswer
  <2>. QED BY <2>1, <2>2
<1>4. RefTypeOK'
  BY <1>1, <1>2, <1>3 DEF RefInv, RefTypeOK
<1>5. DuplicatesNeverIdentified'
  BY <1>2, <1>3 DEF DuplicatesNeverIdentified, RightAnswer
<1>6. Distinct'
  BY <1>2 DEF Distinct
<1>. QED BY <1>1, <1>4, <1>5, <1>6 DEF RefInv

\* The steps of the loop over the scopes.
LEMMA InsertKept == ASSUME RefInv, InsertScope PROVE RefInv'
<1>1. /\ pc = "scopes" /\ pc' = pc /\ at \in Nat \ {0} /\ at' = at + 1 /\ at <= Len(scopes)
      /\ requests' = requests /\ nth' = nth /\ refs' = refs /\ matched' = matched
      /\ seen' = seen \cup {scopes[at]} /\ scopes[at] \notin seen
      /\ seen = {scopes[i] : i \in 1..(at - 1)}
      /\ Parsed[request.created_at] # Err
      /\ \A i, j \in 1..(at - 1) : i # j => scopes[i] # scopes[j]
  BY DEF InsertScope, Repeated, RefInv, RefTypeOK, Distinct
<1>2. scopes' = scopes /\ request' = request
  BY <1>1 DEF scopes, request
<1>3. 1..at = 1..(at - 1) \cup {at}
  BY <1>1
<1>4. seen' = {scopes[i] : i \in 1..at}
  BY <1>1, <1>3
<1>5. \A i, j \in 1..at : i # j => scopes[i] # scopes[j]
  BY <1>1, <1>3
<1>6. at' - 1 = at /\ at' \in Nat \ {0} /\ at' <= Len(request.scope_required) + 1
  BY <1>1, ScopesListed DEF RefInv, RefTypeOK
<1>7. RefTypeOK'
  BY <1>1, <1>2, <1>4, <1>6 DEF RefInv, RefTypeOK
<1>8. Distinct'
  BY <1>1, <1>2, <1>5, <1>6 DEF Distinct
<1>9. Listed' /\ DuplicatesNeverIdentified'
  BY <1>1 DEF RefInv, Listed, DuplicatesNeverIdentified
<1>. QED BY <1>7, <1>8, <1>9 DEF RefInv

LEMMA DuplicateKept == ASSUME RefInv, RefuseDuplicate PROVE RefInv'
<1>1. /\ pc = "scopes" /\ at \in Nat \ {0} /\ at <= Len(scopes)
      /\ \E i \in 1..(at - 1) : scopes[at] = scopes[i]
      /\ Parsed[request.created_at] # Err
      /\ Answer("DuplicateScopeRequired", << >>)
  BY DEF RefuseDuplicate, Repeated, RefInv, RefTypeOK, Distinct
<1>2. PICK i \in 1..(at - 1) : scopes[at] = scopes[i]
  BY <1>1
<1>3. /\ at \in DOMAIN request.scope_required /\ i \in DOMAIN request.scope_required /\ i # at
      /\ Nfc[request.scope_required[at]] = Nfc[request.scope_required[i]]
  BY <1>1, <1>2, ScopesListed DEF RefInv, RefTypeOK
<1>4. RightAnswer(request) = "DuplicateScopeRequired"
  BY <1>1, <1>3 DEF RightAnswer, Ambiguous
<1>. QED BY <1>1, <1>4, AnswerKept DEF ActionRefErrors

LEMMA ComputeKept == ASSUME RefInv, Compute PROVE RefInv'
<1>1. /\ pc = "scopes" /\ at \in Nat \ {0} /\ at > Len(scopes)
      /\ \A i, j \in 1..(at - 1) : i # j => scopes[i] # scopes[j]
      /\ Parsed[request.created_at] # Err
      /\ Answer("none", canonical_hash(preimage))
  BY DEF Compute, RefInv, RefTypeOK, Distinct
<1>2. ~Ambiguous(request)
  <2> SUFFICES ASSUME NEW i \in DOMAIN request.scope_required,
                      NEW j \in DOMAIN request.scope_required, i # j,
                      Nfc[request.scope_required[i]] = Nfc[request.scope_required[j]]
               PROVE  FALSE
    BY DEF Ambiguous
  <2>1. i \in 1..(at - 1) /\ j \in 1..(at - 1) /\ scopes[i] = scopes[j]
    BY <1>1, ScopesListed DEF RefInv, RefTypeOK
  <2>. QED BY <1>1, <2>1
<1>3. RightAnswer(request) = "none"
  BY <1>1, <1>2, Zenon DEF RightAnswer
<1>. QED BY <1>1, <1>3, AnswerKept

\* The other steps.
LEMMA TimestampKept == ASSUME RefInv, RefuseTimestamp \/ PassTimestamp PROVE RefInv'
<1>1. pc = "timestamp" /\ request.created_at \in Text /\ Parsed \in [Text -> Int \cup {Err}]
  BY InstantAssumption, ScopesListed DEF RefuseTimestamp, PassTimestamp, RefInv, RefTypeOK
<1>2. normalize_timestamp(request.created_at) = Err <=> Parsed[request.created_at] = Err
  BY <1>1, InstantAssumption DEF normalize_timestamp
<1>3. CASE RefuseTimestamp
  <2>1. RightAnswer(request) = "InvalidTimestamp"
    BY <1>2, <1>3 DEF RefuseTimestamp, RightAnswer
  <2>. QED BY <1>3, <2>1, AnswerKept DEF RefuseTimestamp, ActionRefErrors
<1>4. CASE PassTimestamp
  <2>1. /\ pc' = "scopes" /\ at' = 1 /\ seen' = {} /\ requests' = requests /\ nth' = nth
        /\ refs' = refs /\ matched' = matched /\ Parsed[request.created_at] # Err
    BY <1>2, <1>4 DEF PassTimestamp
  <2>2. request' = request /\ Len(request.scope_required) \in Nat
    BY <2>1, ScopesListed DEF request, RefInv, RefTypeOK
  <2>3. RefTypeOK'
    BY <1>1, <2>1 DEF RefInv, RefTypeOK
  <2>4. Distinct'
    BY <2>1, <2>2 DEF Distinct
  <2>. QED BY <2>1, <2>3, <2>4 DEF RefInv, Listed, DuplicatesNeverIdentified
<1>. QED BY <1>3, <1>4

LEMMA MatchKept == ASSUME RefInv, Match PROVE RefInv'
<1>1. /\ pc = "match" /\ pc' = "done" /\ matched' \in {"yes", "no"}
      /\ requests' = requests /\ nth' = nth /\ at' = at /\ refs' = refs
  BY DEF Match
<1>. QED BY <1>1 DEF RefInv, RefTypeOK, Distinct, Listed, DuplicatesNeverIdentified

LEMMA RefInvariance == RefSpec => []RefInv
<1>1. RefInit => RefInv
  <2> SUFFICES ASSUME RefInit PROVE RefInv
    OBVIOUS
  <2>1. refs = << >> /\ pc = "timestamp" /\ refs \in Seq({})
    BY DEF RefInit
  <2>. QED BY <2>1 DEF RefInit, RefInv, RefTypeOK, Distinct, Listed, DuplicatesNeverIdentified
<1>2. RefInv /\ [RefNext]_refVars => RefInv'
  <2> SUFFICES ASSUME RefInv, [RefNext]_refVars PROVE RefInv'
    OBVIOUS
  <2>1. CASE UNCHANGED refVars
    <3>1. /\ requests' = requests /\ nth' = nth /\ pc' = pc /\ at' = at /\ seen' = seen
          /\ refs' = refs /\ matched' = matched
      BY <2>1 DEF refVars
    <3>2. request' = request /\ scopes' = scopes
      BY <3>1 DEF request, scopes
    <3>3. RefTypeOK'
      BY <3>1, <3>2 DEF RefInv, RefTypeOK
    <3>4. Distinct'
      BY <3>1, <3>2 DEF RefInv, Distinct
    <3>. QED BY <3>1, <3>3, <3>4 DEF RefInv, Listed, DuplicatesNeverIdentified
  <2>. QED
    BY <2>1, TimestampKept, InsertKept, DuplicateKept, ComputeKept, MatchKept DEF RefNext
<1>. QED BY <1>1, <1>2, PTL DEF RefSpec

----------------------------------------------------------------------------
(* Sorting *)

\* No two entries of a list are one text.
Different(list) == \A i, j \in DOMAIN list : i # j => list[i] # list[j]

\* Every entry of a list comes after the one before it.
Ascending(list) == \A i, j \in DOMAIN list : i < j => Rank[list[i]] < Rank[list[j]]

\* A list can be put in order: an entry goes where the number of entries that
\* come before it says.
LEMMA OrderExists ==
    ASSUME NEW n \in Nat, NEW list \in [1..n -> Text], Different(list)
    PROVE  \E p \in Bijection(1..n, 1..n) :
              \A i, j \in 1..n : i < j => Rank[list[p[i]]] <= Rank[list[p[j]]]
<1> DEFINE D == 1..n
           before(i) == {j \in D : Rank[list[j]] < Rank[list[i]]}
           place == [i \in D |-> Cardinality(before(i)) + 1]
<1>1. IsFiniteSet(D) /\ Cardinality(D) = n
  BY FS_Interval
<1>2. \A i \in D : Rank[list[i]] \in Nat
  BY CodePointAssumption
<1>3. \A i, j \in D : i # j => Rank[list[i]] # Rank[list[j]]
  BY CodePointAssumption DEF Different
<1>4. \A i \in D : Cardinality(before(i)) \in Nat /\ Cardinality(before(i)) < n
  <2> TAKE i \in D
  <2>1. before(i) \subseteq D /\ i \notin before(i)
    BY <1>2
  <2>. HIDE DEF before
  <2>2. IsFiniteSet(before(i)) /\ Cardinality(before(i)) <= n /\ Cardinality(before(i)) # n
    BY <1>1, <2>1, FS_Subset
  <2>. QED BY <2>2, FS_CardinalityType
<1>5. \A i, j \in D : Rank[list[i]] < Rank[list[j]] => place[i] < place[j]
  <2> SUFFICES ASSUME NEW i \in D, NEW j \in D, Rank[list[i]] < Rank[list[j]]
               PROVE  place[i] < place[j]
    OBVIOUS
  <2>1. before(i) \subseteq before(j) /\ i \in before(j) /\ i \notin before(i) /\ before(j) \subseteq D
    BY <1>2
  <2>. HIDE DEF before, D
  <2>2. IsFiniteSet(before(j))
    BY <1>1, <2>1, FS_Subset
  <2>3. Cardinality(before(i)) <= Cardinality(before(j))
        /\ Cardinality(before(i)) # Cardinality(before(j))
    BY <2>1, <2>2, FS_Subset
  <2>4. place[i] = Cardinality(before(i)) + 1 /\ place[j] = Cardinality(before(j)) + 1
    OBVIOUS
  <2>5. Cardinality(before(i)) \in Nat /\ Cardinality(before(j)) \in Nat
    BY <1>4
  <2>. HIDE DEF place
  <2>. QED BY <2>3, <2>4, <2>5
<1>. HIDE DEF before
<1>6. place \in [D -> D]
  BY <1>4
<1>. HIDE DEF place
<1>7. place \in Injection(D, D)
  <2>1. \A i, j \in D : i # j => place[i] # place[j]
    <3> SUFFICES ASSUME NEW i \in D, NEW j \in D, i # j PROVE place[i] # place[j]
      OBVIOUS
    <3>1. Rank[list[i]] < Rank[list[j]] \/ Rank[list[j]] < Rank[list[i]]
      BY <1>2, <1>3
    <3>2. place[i] \in Int /\ place[j] \in Int
      BY <1>6
    <3>. QED BY <1>5, <3>1, <3>2
  <2>. QED BY <1>6, <2>1 DEF Injection, IsInjective
<1>8. place \in Surjection(D, D)
  BY <1>1, <1>7, FS_Injection
<1> DEFINE p == [k \in D |-> CHOOSE i \in D : place[i] = k]
<1>9. \A k \in D : p[k] \in D /\ place[p[k]] = k
  BY <1>8 DEF Surjection
<1>10. p \in [D -> D]
  BY <1>9
<1>. HIDE DEF p
<1>11. p \in Bijection(D, D)
  <2>1. \A a, b \in D : p[a] = p[b] => a = b
    BY <1>9
  <2>2. \A i \in D : p[place[i]] = i
    <3> TAKE i \in D
    <3>1. place[i] \in D
      BY <1>6
    <3>2. p[place[i]] \in D /\ place[p[place[i]]] = place[i]
      BY <1>9, <3>1
    <3>. QED BY <1>7, <3>2 DEF Injection, IsInjective
  <2>. QED BY <1>6, <1>10, <2>1, <2>2 DEF Bijection, Injection, IsInjective, Surjection
<1>12. ASSUME NEW i \in D, NEW j \in D, i < j
       PROVE  Rank[list[p[i]]] <= Rank[list[p[j]]]
  <2>1. p[i] \in D /\ p[j] \in D /\ place[p[i]] = i /\ place[p[j]] = j
    BY <1>9
  <2>2. ~(Rank[list[p[j]]] < Rank[list[p[i]]])
    BY <1>5, <1>12, <2>1
  <2>3. Rank[list[p[i]]] \in Nat /\ Rank[list[p[j]]] \in Nat
    BY <1>2, <2>1
  <2>. QED BY <2>2, <2>3
<1>. QED BY <1>11, <1>12

\* What sort makes of a list without duplicates.
LEMMA SortFacts ==
    ASSUME NEW n \in Nat, NEW list \in [1..n -> Text], Different(list)
    PROVE  /\ sort(list) \in [1..n -> Text]
           /\ Range(sort(list)) = Range(list)
           /\ Ascending(sort(list))
<1> DEFINE InOrder(p) == \A i, j \in 1..n : i < j => Rank[list[p[i]]] <= Rank[list[p[j]]]
           from == CHOOSE p \in Bijection(1..n, 1..n) : InOrder(p)
<1>1. DOMAIN list = 1..n
  OBVIOUS
<1>2. sort(list) = [i \in 1..n |-> list[from[i]]]
  BY <1>1 DEF sort
<1>3. from \in Bijection(1..n, 1..n) /\ InOrder(from)
  BY OrderExists
<1>. HIDE DEF from
<1>4. /\ from \in [1..n -> 1..n]
      /\ \A i, j \in 1..n : from[i] = from[j] => i = j
      /\ \A k \in 1..n : \E i \in 1..n : from[i] = k
  BY <1>3 DEF Bijection, Injection, IsInjective, Surjection
<1>5. sort(list) \in [1..n -> Text] /\ \A i \in 1..n : sort(list)[i] = list[from[i]]
  BY <1>2, <1>4
<1>6. Range(sort(list)) = Range(list)
  <2>1. DOMAIN sort(list) = 1..n
    BY <1>5
  <2>2. ASSUME NEW i \in 1..n PROVE sort(list)[i] \in Range(list)
    BY <1>1, <1>4, <1>5 DEF Range
  <2>3. ASSUME NEW k \in 1..n PROVE list[k] \in Range(sort(list))
    <3>1. PICK i \in 1..n : from[i] = k
      BY <1>4
    <3>. QED BY <1>5, <2>1, <3>1 DEF Range
  <2>. QED BY <1>1, <2>1, <2>2, <2>3 DEF Range
<1>7. ASSUME NEW i \in 1..n, NEW j \in 1..n, i < j
      PROVE  Rank[sort(list)[i]] < Rank[sort(list)[j]]
  <2>1. from[i] \in 1..n /\ from[j] \in 1..n /\ from[i] # from[j]
    BY <1>4, <1>7
  <2>2. list[from[i]] # list[from[j]] /\ list[from[i]] \in Text /\ list[from[j]] \in Text
    BY <1>1, <2>1 DEF Different
  <2>3. Rank[list[from[i]]] <= Rank[list[from[j]]]
    BY <1>3, <1>7
  <2>4. /\ Rank[list[from[i]]] # Rank[list[from[j]]]
        /\ Rank[list[from[i]]] \in Nat /\ Rank[list[from[j]]] \in Nat
    BY <2>2, CodePointAssumption
  <2>. QED BY <1>5, <2>3, <2>4
<1>8. Ascending(sort(list))
  BY <1>5, <1>7 DEF Ascending
<1>. QED BY <1>5, <1>6, <1>8

\* A list in order is as long as it has entries.
LEMMA LengthOfRange ==
    ASSUME NEW n \in Nat, NEW list \in [1..n -> Text], Ascending(list)
    PROVE  Cardinality(Range(list)) = n
<1>1. \A i, j \in 1..n : list[i] = list[j] => i = j
  <2> SUFFICES ASSUME NEW i \in 1..n, NEW j \in 1..n, i # j PROVE list[i] # list[j]
    OBVIOUS
  <2>1. i < j \/ j < i
    OBVIOUS
  <2>2. Rank[list[i]] < Rank[list[j]] \/ Rank[list[j]] < Rank[list[i]]
    BY <2>1 DEF Ascending
  <2>3. Rank[list[i]] \in Nat
    BY CodePointAssumption
  <2>. QED BY <2>2, <2>3
<1>2. list \in Bijection(1..n, Range(list))
  BY <1>1 DEF Bijection, Injection, IsInjective, Surjection, Range
<1>. QED BY <1>2, FS_CountingElements DEF ExistsBijection

\* Two lists in order with the same entries are one.
LEMMA OrderIsUnique ==
    ASSUME NEW n \in Nat, NEW r \in [1..n -> Text], Ascending(r),
           NEW m \in Nat, NEW s \in [1..m -> Text], Ascending(s),
           Range(r) = Range(s)
    PROVE  r = s
<1>1. n = m
  BY LengthOfRange
<1> SUFFICES ASSUME r # s PROVE FALSE
  OBVIOUS
<1> DEFINE Apart == {k \in 1..n : r[k] # s[k]}
           R == {pair \in Nat \X Nat : pair[1] < pair[2]}
<1>2. Apart # {} /\ Apart \subseteq Nat
  BY <1>1
<1>3. IsWellFoundedOn(R, Nat)
  BY NatLessThanWellFounded DEF OpToRel
<1>4. PICK k \in Apart : \A j \in Apart : <<j, k>> \notin R
  BY <1>2, <1>3, WFMin
<1>5. k \in 1..n /\ r[k] # s[k] /\ \A j \in 1..n : j < k => r[j] = s[j]
  <2>1. ASSUME NEW j \in 1..n, j < k, r[j] # s[j] PROVE FALSE
    <3>1. j \in Apart /\ <<j, k>> \in R
      BY <1>2, <2>1
    <3>. QED BY <1>4, <3>1
  <2>. QED BY <2>1
<1>6. \A j \in 1..n : Rank[r[j]] \in Nat /\ Rank[s[j]] \in Nat
  BY <1>1, CodePointAssumption
<1>7. \E j \in 1..n : r[k] = s[j]
  BY <1>1, <1>5 DEF Range
<1>8. \E j \in 1..n : s[k] = r[j]
  BY <1>1, <1>5 DEF Range
<1>. HIDE DEF Apart, R
<1>9. Rank[s[k]] < Rank[r[k]]
  <2>1. PICK j \in 1..n : r[k] = s[j]
    BY <1>7
  <2>2. ~(j < k)
    <3> SUFFICES ASSUME j < k PROVE FALSE
      OBVIOUS
    <3>1. r[j] = s[j] /\ Rank[r[j]] < Rank[r[k]]
      BY <1>5 DEF Ascending
    <3>. QED BY <1>6, <2>1, <3>1
  <2>3. k < j
    BY <1>5, <2>1, <2>2
  <2>. QED BY <1>1, <1>5, <2>1, <2>3 DEF Ascending
<1>10. Rank[r[k]] < Rank[s[k]]
  <2>1. PICK j \in 1..n : s[k] = r[j]
    BY <1>8
  <2>2. ~(j < k)
    <3> SUFFICES ASSUME j < k PROVE FALSE
      OBVIOUS
    <3>1. r[j] = s[j] /\ Rank[s[j]] < Rank[s[k]]
      BY <1>1, <1>5 DEF Ascending
    <3>. QED BY <1>6, <2>1, <3>1
  <2>3. k < j
    BY <1>5, <2>1, <2>2
  <2>. QED BY <1>5, <2>1, <2>3 DEF Ascending
<1>. QED BY <1>5, <1>6, <1>9, <1>10

----------------------------------------------------------------------------
(* Seconds *)

LEMMA Division ==
    ASSUME NEW a \in Int, NEW n \in Nat \ {0}
    PROVE  a \div n \in Int /\ a % n \in 0..(n - 1) /\ a = n * (a \div n) + (a % n)
OBVIOUS

LEMMA NextMultiple ==
    ASSUME NEW k \in Int, NEW l \in Int, NEW n \in Nat \ {0}, k > l
    PROVE  n * k >= n * l + n
OBVIOUS

\* Two instants are in one second if the second is less than a second after
\* the beginning of that of the first.
LEMMA SameSecond ==
    ASSUME NEW a \in Int, NEW b \in Int, NEW n \in Nat \ {0}
    PROVE  b - (a - (a % n)) \in 0..(n - 1) <=> a \div n = b \div n
<1> DEFINE p == a \div n
           r == a % n
           q == b \div n
           s == b % n
<1>1. p \in Int /\ r \in 0..(n - 1) /\ a = n * p + r /\ q \in Int /\ s \in 0..(n - 1) /\ b = n * q + s
  BY Division
<1>2. n * p \in Int /\ n * q \in Int /\ (q > p => n * q >= n * p + n) /\ (p > q => n * p >= n * q + n)
  BY <1>1, NextMultiple
<1>. HIDE DEF p, q, r, s
<1>3. b - (a - r) \in 0..(n - 1) <=> p = q
  BY <1>1, <1>2
<1>. QED BY <1>3 DEF p, q, r

----------------------------------------------------------------------------
(* What two requests have in common *)

Normalized(r) == [i \in DOMAIN r.scope_required |-> Nfc[r.scope_required[i]]]

PreimageOf(r) ==
    [agentId |-> r.agent_id, actionType |-> r.action_type,
     scopeRequired |-> sort(Normalized(r)),
     timestamp |-> normalize_timestamp(r.created_at)]

\* Two requests that get references get one reference exactly if they are the
\* same.
LEMMA PreimagesTell ==
    ASSUME NEW pair \in Requests,
           \A n \in 1..2 : Parsed[pair[n].created_at] # Err /\ ~Ambiguous(pair[n])
    PROVE  PreimageOf(pair[1]) = PreimageOf(pair[2]) <=> SameRequest(pair)
<1> DEFINE a == pair[1]
           b == pair[2]
           Sc(r) == {Nfc[r.scope_required[i]] : i \in DOMAIN r.scope_required}
           within == Parsed[a.created_at] % Parts
<1>1. /\ a.scope_required \in Seq(Text) /\ b.scope_required \in Seq(Text)
      /\ a.created_at \in Text /\ b.created_at \in Text
      /\ ~Ambiguous(a) /\ ~Ambiguous(b)
      /\ Parsed[a.created_at] # Err /\ Parsed[b.created_at] # Err
  BY RequestAssumption
<1>2. Parsed[a.created_at] \in Int /\ Parsed[b.created_at] \in Int
  BY <1>1, InstantAssumption
<1>3. SameRequest(pair) <=>
        /\ a.agent_id = b.agent_id /\ a.action_type = b.action_type
        /\ Sc(a) = Sc(b)
        /\ Parsed[b.created_at] - (Parsed[a.created_at] - within) \in 0..(Parts - 1)
  BY <1>1, Zenon DEF SameRequest
<1>. HIDE DEF a, b
<1>4. normalize_timestamp(a.created_at) = normalize_timestamp(b.created_at)
        <=> Parsed[b.created_at] - (Parsed[a.created_at] - within) \in 0..(Parts - 1)
  <2>1. /\ normalize_timestamp(a.created_at) = Parsed[a.created_at] \div Parts
        /\ normalize_timestamp(b.created_at) = Parsed[b.created_at] \div Parts
    BY <1>1 DEF normalize_timestamp
  <2>. QED BY <1>2, <2>1, SameSecond, InstantAssumption
<1>5. ASSUME NEW r, r.scope_required \in Seq(Text), ~Ambiguous(r)
      PROVE  /\ \E n \in Nat : sort(Normalized(r)) \in [1..n -> Text]
             /\ Range(sort(Normalized(r))) = Sc(r)
             /\ Ascending(sort(Normalized(r)))
  <2> DEFINE n == Len(r.scope_required)
  <2>1. n \in Nat /\ DOMAIN r.scope_required = 1..n /\ \A i \in 1..n : r.scope_required[i] \in Text
    BY <1>5
  <2>2. Normalized(r) \in [1..n -> Text]
    BY <2>1, NfcAssumption DEF Normalized
  <2>3. Different(Normalized(r))
    BY <1>5, <2>1, <2>2 DEF Different, Normalized, Ambiguous
  <2>4. Range(Normalized(r)) = Sc(r)
    BY <2>1 DEF Range, Normalized
  <2>. HIDE DEF n
  <2>. QED BY <2>1, <2>2, <2>3, <2>4, SortFacts
<1>6. sort(Normalized(a)) = sort(Normalized(b)) <=> Sc(a) = Sc(b)
  <2>1. PICK n \in Nat : sort(Normalized(a)) \in [1..n -> Text]
    BY <1>1, <1>5
  <2>2. PICK m \in Nat : sort(Normalized(b)) \in [1..m -> Text]
    BY <1>1, <1>5
  <2>3. /\ Range(sort(Normalized(a))) = Sc(a) /\ Ascending(sort(Normalized(a)))
        /\ Range(sort(Normalized(b))) = Sc(b) /\ Ascending(sort(Normalized(b)))
    BY <1>1, <1>5
  <2>. HIDE DEF Sc
  <2>4. Sc(a) = Sc(b) => sort(Normalized(a)) = sort(Normalized(b))
    BY <2>1, <2>2, <2>3, OrderIsUnique
  <2>. QED BY <2>3, <2>4
<1>7. PreimageOf(a) = PreimageOf(b) <=>
        /\ a.agent_id = b.agent_id /\ a.action_type = b.action_type
        /\ sort(Normalized(a)) = sort(Normalized(b))
        /\ normalize_timestamp(a.created_at) = normalize_timestamp(b.created_at)
  BY DEF PreimageOf
<1>8. PreimageOf(a) = PreimageOf(b) <=> SameRequest(pair)
  BY <1>3, <1>4, <1>6, <1>7, Zenon
<1>. QED BY <1>8 DEF a, b

----------------------------------------------------------------------------
(* What comes of the comparison *)

\* Each answer is a reference to its request, or none, and nothing is compared
\* before both are there.
Referring ==
    /\ pc # "done" => matched = "pending"
    /\ \A n \in DOMAIN refs :
          refs[n].hex = IF refs[n].error = "none" THEN <<PreimageOf(requests[n])>> ELSE << >>

LEMMA AnswerRefers ==
    ASSUME RefInv, Referring, pc \in {"timestamp", "scopes"}, NEW error, NEW hex,
           Answer(error, hex),
           hex = IF error = "none" THEN <<PreimageOf(request)>> ELSE << >>
    PROVE  Referring'
<1>1. /\ DOMAIN refs' = 1..nth /\ DOMAIN refs = 1..(nth - 1) /\ nth \in 1..2
      /\ \A i \in 1..(nth - 1) : refs'[i] = refs[i]
      /\ refs'[nth].error = error /\ refs'[nth].hex = hex
  <2>1. Listed /\ Len(refs) = nth - 1 /\ nth \in 1..2
    BY DEF RefInv, RefTypeOK
  <2>2. Len(refs) + 1 = nth
    BY <2>1
  <2>. QED BY <2>1, <2>2, AnswerIsLast
<1>2. /\ requests' = requests /\ matched' = "pending"
  BY DEF Answer, Referring
<1>3. ASSUME NEW n \in DOMAIN refs'
      PROVE  refs'[n].hex = IF refs'[n].error = "none" THEN <<PreimageOf(requests[n])>> ELSE << >>
  <2>1. CASE n = nth
    BY <1>1, <2>1 DEF request
  <2>2. CASE n # nth
    <3>1. n \in DOMAIN refs /\ refs'[n] = refs[n]
      BY <1>1, <2>2
    <3>. QED BY <3>1 DEF Referring
  <2>. QED BY <2>1, <2>2
<1>. QED BY <1>2, <1>3 DEF Referring

\* The comparison says whether the two requests are the same.
LEMMA MatchDecides ==
    ASSUME RefInv, Referring, Match
    PROVE  /\ matched' \in {"yes", "no"}
           /\ matched' = "yes" <=> SameRequest(requests)
<1>1. /\ DOMAIN refs = 1..2 /\ requests \in Requests
      /\ matched' = IF refs[1].hex # << >> /\ refs[1].hex = refs[2].hex THEN "yes" ELSE "no"
  <2>1. pc = "match" /\ Len(refs) = 2 /\ requests \in Requests
    BY DEF Match, RefInv, RefTypeOK
  <2>2. PICK S : refs \in Seq(S)
    BY DEF RefInv, Listed
  <2>3. DOMAIN refs = 1..2
    BY <2>1, <2>2
  <2>. QED BY <2>1, <2>3 DEF Match, action_refs_match
<1>2. \A n \in 1..2 :
        /\ refs[n].error = RightAnswer(requests[n])
        /\ refs[n].hex = IF refs[n].error = "none" THEN <<PreimageOf(requests[n])>> ELSE << >>
  BY <1>1 DEF RefInv, DuplicatesNeverIdentified, RightAnswer, Referring
<1>3. \A r : RightAnswer(r) = "none" <=> Parsed[r.created_at] # Err /\ ~Ambiguous(r)
  BY DEF RightAnswer
<1>4. CASE \A n \in 1..2 : RightAnswer(requests[n]) = "none"
  <2>1. refs[1].hex = <<PreimageOf(requests[1])>> /\ refs[2].hex = <<PreimageOf(requests[2])>>
    BY <1>2, <1>4
  <2>2. PreimageOf(requests[1]) = PreimageOf(requests[2]) <=> SameRequest(requests)
    BY <1>1, <1>3, <1>4, PreimagesTell
  <2>. QED BY <1>1, <2>1, <2>2
<1>5. CASE \E n \in 1..2 : RightAnswer(requests[n]) # "none"
  <2>1. refs[1].hex = << >> \/ refs[2].hex = << >>
    BY <1>2, <1>5
  <2>2. ~SameRequest(requests)
    BY <1>3, <1>5 DEF SameRequest
  <2>. QED BY <1>1, <2>1, <2>2
<1>. QED BY <1>4, <1>5

LEMMA ReferringKept == RefInv /\ Referring /\ [RefNext]_refVars => Referring'
<1> SUFFICES ASSUME RefInv, Referring, [RefNext]_refVars PROVE Referring'
  OBVIOUS
<1>1. CASE UNCHANGED refVars
  BY <1>1 DEF refVars, Referring
<1>2. CASE RefuseTimestamp
  BY <1>2, AnswerRefers DEF RefuseTimestamp
<1>3. CASE RefuseDuplicate
  BY <1>3, AnswerRefers DEF RefuseDuplicate
<1>4. CASE Compute
  <2>1. preimage = PreimageOf(request)
    BY DEF preimage, PreimageOf, Normalized, scopes
  <2>. QED BY <1>4, <2>1, AnswerRefers DEF Compute, canonical_hash
<1>5. CASE PassTimestamp \/ InsertScope
  <2>1. pc # "done" /\ requests' = requests /\ refs' = refs /\ matched' = matched
    BY <1>5 DEF PassTimestamp, InsertScope
  <2>. QED BY <2>1 DEF Referring
<1>6. CASE Match
  <2>1. pc' = "done" /\ requests' = requests /\ refs' = refs
    BY <1>6 DEF Match
  <2>. QED BY <2>1 DEF Referring
<1>. QED BY <1>1, <1>2, <1>3, <1>4, <1>5, <1>6 DEF RefNext

----------------------------------------------------------------------------
(* The results *)

\* Every state of the two calls is well typed, and the set of scopes seen is
\* that of this call.
THEOREM RefTypeCorrect == RefSpec => []RefTypeOK
BY RefInvariance, PTL DEF RefInv

\* However long a list of scopes is, it gets a reference exactly when its time
\* can be read and no two of its scopes are one text after normalization.
THEOREM DuplicatesAreRefused == RefSpec => []DuplicatesNeverIdentified
BY RefInvariance, PTL DEF RefInv

\* The comparison implements the abstract Decision, for lists of any length and
\* any instants: it is undecided until both references are there, and is then
\* decided as the two requests are the same or not.
THEOREM RefDecides ==
    RefSpec => RefPromise!Init /\ [][RefPromise!Decide]_(RefPromise!vars)
<1>1. RefInit => RefPromise!Init
  BY DEF RefInit, RefPromise!Init, IsPair
<1>2. RefInit => Referring
  <2> SUFFICES ASSUME RefInit PROVE Referring
    OBVIOUS
  <2>1. refs = << >> /\ matched = "pending" /\ DOMAIN refs = {}
    BY DEF RefInit
  <2>. QED BY <2>1 DEF Referring
<1>3. RefInv /\ Referring /\ [RefNext]_refVars => [RefPromise!Decide]_(RefPromise!vars)
  <2> SUFFICES ASSUME RefInv, Referring, [RefNext]_refVars
               PROVE  [RefPromise!Decide]_(RefPromise!vars)
    OBVIOUS
  <2>1. CASE Match
    <3>1. matched = "pending" /\ requests' = requests
      BY <2>1 DEF Match, Referring
    <3>2. /\ matched' \in {"yes", "no"}
          /\ matched' = "yes" <=> SameRequest(requests)
      BY <2>1, MatchDecides
    <3>. QED BY <3>1, <3>2 DEF RefPromise!Decide
  <2>2. CASE ~Match
    <3>1. requests' = requests /\ matched' = matched
      BY <2>2 DEF RefNext, refVars, RefuseTimestamp, PassTimestamp, InsertScope,
         RefuseDuplicate, Compute, Answer
    <3>. QED BY <3>1 DEF RefPromise!vars
  <2>. QED BY <2>1, <2>2
<1>. QED BY <1>1, <1>2, <1>3, RefInvariance, ReferringKept, PTL DEF RefSpec
=============================================================================
