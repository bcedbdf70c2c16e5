------------------------ MODULE MCChainAuthorization ------------------------
(***************************************************************************)
(* Small instances of ChainAuthorization: chains of up to two links, each  *)
(* of which departs in at most one way from a link that is signed, live    *)
(* and attenuating.                                                        *)
(***************************************************************************)
EXTENDS ChainAuthorization, MCDelegationLink

MCTimes == {"noon", "dusk", "garbled"}

\* The empty root is trusted, but no delegator is.
MCRoots == {{"anna", "lowly", ""}, {"ben"}}

\* The link, signed by this key as it stands.
SignedBy(link, key) ==
    [link EXCEPT !.signature =
        Signature(key, delegation_signature_preimage(link))]

\* The i-th link of the chain from anna to ben to anna, before it is signed.
Draft(i) ==
    [PlainLink(i) EXCEPT !.delegatedBy = IF i = 1 THEN "anna" ELSE "ben",
                         !.delegatedTo = IF i = 1 THEN "ben" ELSE "anna",
                         !.expiresAt = "dusk"]

Key(i) == IF i = 1 THEN "A" ELSE "B"

\* Drafts with one member changed before they are signed.
Drafts(i) ==
    LET With(key, values) == {[Draft(i) EXCEPT ![key] = v] : v \in values}
    IN  With("expiresAt", {absent, "noon", "dusk", "garbled"})
        \cup With("notBefore", {null, "", "noon", "dusk"})
        \cup With("maxDepth", {"0", "1", "1.5"})
        \cup {[Draft(i) EXCEPT !.currentDepth = "2", !.maxDepth = "0"]}

\* Whose signature does not go with what they say.
Unsigned(i) ==
    LET other == IF i = 1 THEN "B" ELSE "A"
        earlier == [Draft(i) EXCEPT !.expiresAt = "noon"]
    IN  {[Draft(i) EXCEPT !.signature = s] :
            s \in {absent, malformed,
                   Signature(Key(i), delegation_signature_preimage(earlier)),
                   [Signature(Key(i), delegation_signature_preimage(Draft(i)))
                        EXCEPT !.chars = 130]}}
        \cup {SignedBy(Draft(i), other)}

\* Signed as a draft, and presented with nulls and numbers that the signature
\* does not tell from it: -0 for 0, and a depth or a limit, in and out of i64,
\* for another of its double.
Respelled(i) ==
    LET Carried(draft, link) ==
            [link EXCEPT !.signature =
                Signature(Key(i), delegation_signature_preimage(draft))]
        Swap(key, stated, shown) ==
            {SignedBy([Draft(i) EXCEPT ![key] = stated], Key(i)),
             Carried([Draft(i) EXCEPT ![key] = stated],
                     [Draft(i) EXCEPT ![key] = shown])}
    IN  Swap("maxDepth", "1", "2") \cup Swap("maxDepth", "3", "2")
        \cup Swap("maxDepth", absent, null) \cup Swap("spendLimit", "3", "2.0")
        \cup (IF i = 1 THEN Swap("currentDepth", "0", "-0")
                        ELSE Swap("currentDepth", "2", "1"))

\* Halves as MCJsonValue has them, but coarse enough that two depths within
\* i64 share a double, "1" and "2", as 2^53 and 2^53 + 1 do.
CoarseAsF64 == [TheAsF64 EXCEPT !["1"] = 4, !["1.5"] = 4]
MCCoarseAsF64 == CoarseAsF64

AuthLinks ==
    [i \in 1..2 |->
        {SignedBy(draft, Key(i)) : draft \in Drafts(i)} \cup Unsigned(i)
        \cup Respelled(i)
        \cup {SignedBy([Draft(i) EXCEPT !.delegatedBy = null], Key(i)),
              SignedBy([Draft(i) EXCEPT !.delegatedBy = "ANNA"], "A"),
              SignedBy([Draft(i) EXCEPT !.delegatedBy = "lowly"], "anyone")}]

AllLinks == Members(AuthLinks)
AllChains == ChainsOver(AuthLinks)

MCLinks == AllLinks
MCChains == AllChains
=============================================================================
