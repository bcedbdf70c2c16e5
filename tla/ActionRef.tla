----------------------------- MODULE ActionRef -----------------------------
(***************************************************************************)
(* compute_action_ref_scopes, with canonicalize_scopes and                 *)
(* normalize_timestamp, for two requests one after the other, and          *)
(* action_refs_match on what came of them.                                 *)
(*                                                                         *)
(*   timestamp   created_at is brought to a UTC second                     *)
(*   scopes      the scopes are looked at, one by one                      *)
(*   match       both requests have had their answer                       *)
(*   done        the answers were compared                                 *)
(*                                                                         *)
(* The text of a reference is <<p>>, the digest of the preimage p; the     *)
(* digest is external and one-to-one.  A caller that got an error instead  *)
(* compares the empty text, << >>.                                         *)
(***************************************************************************)
EXTENDS Integers, Sequences, Functions

CONSTANTS
    Requests,       \* pairs of requests
    Text,
    Err,            \* what does not parse
    Parsed,         \* the instant a text is, in parts of a second since 1970
    Parts,          \* how many of them make a second
    Nfc,            \* the NFC form of a text
    Rank            \* the place of a text in code point order

ASSUME InstantAssumption ==
    Err \notin Int /\ Parsed \in [Text -> Int \cup {Err}] /\ Parts \in Nat \ {0}
ASSUME NfcAssumption ==
    Nfc \in [Text -> Text] /\ \A t \in Text : Nfc[Nfc[t]] = Nfc[t]
ASSUME CodePointAssumption ==
    Rank \in [Text -> Nat] /\ \A s, t \in Text : Rank[s] = Rank[t] => s = t
ASSUME RequestAssumption ==
    \A pair \in Requests : \A n \in 1..2 :
        /\ {pair[n].agent_id, pair[n].action_type, pair[n].created_at} \subseteq Text
        /\ pair[n].scope_required \in Seq(Text)

VARIABLES
    requests,       \* the arguments of the two calls
    nth,            \* which of them is running
    pc, at, seen,   \* see above; the scope to look at, and those before it
    refs,           \* what the calls have answered: an error or a reference
    matched         \* "pending", "yes" or "no"

refVars == <<requests, nth, pc, at, seen, refs, matched>>

ActionRefErrors == {"InvalidTimestamp", "DuplicateScopeRequired"}

\* In Rust, dividing integers rounds towards zero.
normalize_timestamp_m(ts) ==
    IF Parsed[ts] = Err THEN Err
    ELSE IF Parsed[ts] >= 0 THEN Parsed[ts] \div Parts ELSE -((-Parsed[ts]) \div Parts)

\* The second the instant falls in; its text in UTC says no more than that.
normalize_timestamp(ts) ==
    IF Parsed[ts] = Err THEN Err ELSE Parsed[ts] \div Parts

request == requests[nth]
scopes == [i \in DOMAIN request.scope_required |-> Nfc[request.scope_required[i]]]

\* HashSet::insert has had it before.  A list in order needs no set: the bug
\* is that this one is not sorted yet.
Repeated_m(i) == i > 1 /\ scopes[i] = scopes[i - 1]
Repeated(i) == scopes[i] \in seen

\* sort rearranges a list in code point order.
sort(list) ==
    LET from == CHOOSE p \in Bijection(DOMAIN list, DOMAIN list) :
                    \A i, j \in DOMAIN list : i < j => Rank[list[p[i]]] <= Rank[list[p[j]]]
    IN  [i \in DOMAIN list |-> list[from[i]]]

preimage ==
    [agentId |-> request.agent_id, actionType |-> request.action_type,
     scopeRequired |-> sort(scopes),
     timestamp |-> normalize_timestamp(request.created_at)]

canonical_hash(value) == <<value>>

action_refs_match(a, b) == a # << >> /\ a = b

----------------------------------------------------------------------------
RefInit ==
    /\ requests \in Requests
    /\ nth = 1 /\ pc = "timestamp" /\ at = 1
    /\ seen = {} /\ refs = << >>
    /\ matched = "pending"

Answer(error, hex) ==
    /\ refs' = Append(refs, [error |-> error, hex |-> hex])
    /\ nth' = 2
    /\ pc' = IF nth = 1 THEN "timestamp" ELSE "match"
    /\ UNCHANGED <<requests, at, seen, matched>>

RefuseTimestamp ==
    /\ pc = "timestamp" /\ normalize_timestamp(request.created_at) = Err
    /\ Answer("InvalidTimestamp", << >>)

\* The set outlives the call it belongs to.
PassTimestamp_m ==
    /\ pc = "timestamp" /\ normalize_timestamp(request.created_at) # Err
    /\ pc' = "scopes" /\ at' = 1
    /\ UNCHANGED <<requests, nth, seen, refs, matched>>

PassTimestamp ==
    /\ pc = "timestamp" /\ normalize_timestamp(request.created_at) # Err
    /\ pc' = "scopes" /\ at' = 1 /\ seen' = {}
    /\ UNCHANGED <<requests, nth, refs, matched>>

InsertScope ==
    /\ pc = "scopes" /\ at <= Len(scopes) /\ ~Repeated(at)
    /\ seen' = seen \cup {scopes[at]}
    /\ at' = at + 1
    /\ UNCHANGED <<requests, nth, pc, refs, matched>>

RefuseDuplicate ==
    /\ pc = "scopes" /\ at <= Len(scopes) /\ Repeated(at)
    /\ Answer("DuplicateScopeRequired", << >>)

Compute ==
    /\ pc = "scopes" /\ at > Len(scopes)
    /\ Answer("none", canonical_hash(preimage))

Match ==
    /\ pc = "match"
    /\ matched' = IF action_refs_match(refs[1].hex, refs[2].hex) THEN "yes" ELSE "no"
    /\ pc' = "done"
    /\ UNCHANGED <<requests, nth, at, seen, refs>>

RefNext ==
    \/ RefuseTimestamp \/ PassTimestamp
    \/ InsertScope \/ RefuseDuplicate \/ Compute
    \/ Match

\* The calls are plain sequential code: a step that can be taken is taken.
RefSpec == RefInit /\ [][RefNext]_refVars /\ WF_refVars(RefNext)

----------------------------------------------------------------------------
(* Properties *)

\* The type invariant.  What was seen is what was looked at in this call.
RefTypeOK ==
    /\ requests \in Requests /\ nth \in 1..2
    /\ pc \in {"timestamp", "scopes", "match", "done"}
    /\ at \in Nat \ {0}
    /\ pc = "scopes" => seen = {scopes[i] : i \in 1..(at - 1)}
    /\ \A i \in DOMAIN refs : refs[i].error \in {"none"} \cup ActionRefErrors
    /\ Len(refs) = IF pc \in {"timestamp", "scopes"} THEN nth - 1 ELSE 2
    /\ matched \in {"pending", "yes", "no"}

\* Two scopes of the request are one, after normalization.
Ambiguous(r) ==
    \E i, j \in DOMAIN r.scope_required :
        i # j /\ Nfc[r.scope_required[i]] = Nfc[r.scope_required[j]]

\* A list with a duplicate, adjacent or not and in whatever forms, never gets
\* a reference, and only such a list is called one; a time that cannot be read
\* is said to be that, whatever the scopes are.
DuplicatesNeverIdentified ==
    \A n \in DOMAIN refs :
        refs[n].error =
            CASE Parsed[requests[n].created_at] = Err -> "InvalidTimestamp"
              [] Parsed[requests[n].created_at] # Err /\ Ambiguous(requests[n]) ->
                    "DuplicateScopeRequired"
              [] OTHER -> "none"

\* Two requests are the same: agent and action to the letter, the scopes as a
\* set of normalized texts, the times within one UTC second.
SameRequest(pair) ==
    LET a == pair[1]
        b == pair[2]
        Scopes(r) == {Nfc[r.scope_required[i]] : i \in DOMAIN r.scope_required}
    IN  /\ Err \notin {Parsed[a.created_at], Parsed[b.created_at]}
        /\ ~Ambiguous(a) /\ ~Ambiguous(b)
        /\ a.agent_id = b.agent_id /\ a.action_type = b.action_type
        /\ Scopes(a) = Scopes(b)
        /\ LET within == Parsed[a.created_at] % Parts
           IN  Parsed[b.created_at] - (Parsed[a.created_at] - within) \in 0..(Parts - 1)

IsPair(pair) == pair \in Requests

RefPromise == INSTANCE Decision WITH
    IsArgument <- IsPair, Good <- SameRequest,
    argument <- requests, answer <- matched

\* Both calls return, and references match exactly for one and the same
\* request: neither order nor form of the scopes, nor the offset or fraction of
\* the time, tells apart, everything else does, and two errors never match.
ImplementsRefPromise == RefPromise!Spec
=============================================================================
