# Agent Passport verifiers in TLA+

This directory holds a verification project for the `agent-passport` crate:
TLA+ modules translated from `src/src/*.rs`, TLC configurations that check them
on small instances, and proofs checked by TLAPS for every instance. Paths such as
`delegation.rs:620` are relative to `src/src/`.

The crate is a library of *verifiers*. Nothing in it is persisted, spawned or
sent: every entry point is a call that is given a JSON value and the caller's
trust inputs and returns a verdict. What is hard about it is not concurrency
inside a call but

- long chains of links, in which a bound stated at one link must survive links
  that say nothing about it;
- the order of some thirty checks, of which the first to fail is reported;
- partial information: members that are absent, null, of a wrong type, or numbers
  with two readings (`i64` and `f64`);
- the environment: the caller's revocation resolver is asked link by link while
  links are being revoked, and may have no answer; the caller's key resolver may
  answer every question about one receipt differently;
- a recursive parser whose depth, duplicate and surrogate checks have to hold at
  every level of a document.

## Inventory

| Component | State it keeps | Operations | Correct when | Status |
|---|---|---|---|---|
| Scopes (`delegation.rs`) | none | `scope_covers`, `scope_authorizes` | coverage from link to link confines a scope to every ancestor's | modelled: `Scope` |
| Delegation links (`delegation.rs`) | none | `text_of`, `depth_of`, `spend_limit_of`, `stated_unit`, `scopes_of`, the signed preimage | a member that cannot be read is told apart from one that is not there | modelled: `JsonValue`, `DelegationLink` |
| Chain structure (`delegation.rs`) | the effective bound, the hop | `verify_chain_structure`, `EffectiveBound::narrow`, `check_depth_floor` | it accepts exactly the chains in which no link is wider than any link above, and a refusal names the first link that is wrong | modelled: `Attenuation`, `DelegationChain` |
| Chain authorization (`delegation.rs`) | the hop; the caller's revocations outside | `verify_chain_authorization`, `..._with_revocation`, `verify_delegation`, `verify_delegation_signature` | a token implies a trusted root, an unbroken line of signatures, live windows, and the resolver's word on every link | modelled: `ChainAuthorization` |
| Ed25519 (`crypto.rs`) | none | `verify_ed25519` | lengths and encodings are checked before the curve; small-order points are refused | modelled: `Crypto`; the curve is external |
| Passports (`passport.rs`) | the errors and warnings so far | `verify_passport`, `verify_issuer_signature` | valid means signed by the agent, vouched for by a trusted issuer or opted in, in its window; every failure is reported; both functions agree on countersignatures | modelled: `Passport` |
| Legacy canonical form (`legacy_canonical.rs`) | none | `canonicalize_legacy`, `normalize_timestamp` | what shares a canonical form, and so a signature: values that differ in nulls get one verdict, numbers of one double need not (`maxDepth` 1 and 1.0); one second, one text | modelled: `canonicalize` in `JsonValue` (which values it makes one), `normalize_timestamp` in `ActionRef` |
| Receipts (`receipt_core.rs`) | the keys seen in a list, the results and problems so far | `validate_receipt_v1`, `verify_receipt_v1` | the first offence is named; every signature is tried, each against its own descriptor; a resolver that fails is kept apart from an unknown key | modelled: `Receipt` |
| Strict I-JSON parser (`jcs.rs`) | the position, the objects and arrays being read | `parse_strict_ijson`, `has_lone_surrogate_escape` | duplicate members, lone surrogates, unsafe numbers and too much depth are caught wherever they are, and the first of them is named | modelled: `JsonString`, `JsonText`, `StrictJson` |
| JCS canonical form (`jcs.rs`) | none | `canonicalize`, `canonical_hash` | values with one canonical form get one digest | in part: `to_double_view` in `JsonValue`, with what it makes equal; serialization is external |
| Action references (`action_ref.rs`) | the scopes seen | `canonicalize_scopes`, `compute_action_ref`, `action_refs_match` | the reference depends on the set of scopes and the second only, and a duplicate has none | modelled: `ActionRef` |
| Baseline probe (`src/probes/phase0`) | none | prints answers of another version | | not modelled: see below |
| Crate facade (`lib.rs`) | none | re-exports | | no behaviour |

Interactions are calls. `verify_chain_authorization` reads the root delegator,
calls `verify_chain_structure` on the whole chain, then
`verify_delegation_signature` and `verify_delegation` (which verifies the
signature again) on each link; `verify_chain_authorization_with_revocation` calls
it and goes on only when its answer is `RevocationIndeterminate`, asking the
caller's closure about each link. `verify_receipt_v1` validates first and asks the
caller's key resolver only about what passed. Passports, links and receipts all hand
bytes to `verify_ed25519`, passports and links through the legacy canonical form,
receipts through JCS.

## Modules

    JsonValue          JSON members, the two readings of a number, what is signed
    Scope              scope coverage
    Crypto             verify_ed25519
    Decision           abstract: one argument, one answer, which does come
    DelegationLink     one link          EXTENDS JsonValue, Scope
    Attenuation        a whole chain     EXTENDS DelegationLink
    DelegationChain    the structural call, loop iteration by loop iteration
                                         EXTENDS Attenuation; implements Decision
    ChainAuthorization both authorization calls and their environment
                                         EXTENDS DelegationChain, Crypto
    Passport           the passport call EXTENDS JsonValue, Crypto; implements Decision
    Receipt            validation and verification of receipts, and the resolver
                                         EXTENDS JsonValue, Crypto; implements Decision
    JsonString         strings and their escapes, decoded and scanned
    JsonText           token sequences, and what is wrong with one, without a parser
                                         EXTENDS JsonString
    StrictJson         the parser        EXTENDS JsonText; implements Decision
    ActionRef          two requests, their references, and whether they match
                                         implements Decision

    DelegationChainProofs      EXTENDS DelegationChain
    ChainAcceptanceProofs      of chains and scopes, EXTENDS DelegationChainProofs
    ChainAuthorizationProofs   EXTENDS ChainAuthorization, ChainAcceptanceProofs
    JsonTextProofs             EXTENDS JsonText
    StrictJsonProofs           EXTENDS StrictJson, JsonTextProofs
    PassportProofs, ReceiptProofs, ActionRefProofs
                               EXTENDS the module each is named after

    MCJsonValue, MCDelegationLink                  values and links the instances share
    MCDelegationChain, MCChainAuthorization, MCPassport,
    MCReceipt, MCStrictJson, MCActionRef           the instances

**Links.** A link is a record of the members the verifier reads. A member is
`Absent`, `Null`, `Malformed` (there, of another JSON type), or a value. Texts are
opaque but for equality and for what they parse to as a timestamp (`Ms`).
A number is opaque but for `AsI64` and `AsF64`, the two readings the code takes
with `as_i64` and `as_f64`; the only assumption that ties them is that
rounding an integer to a double keeps order. A scope string is the sequence
of its colon-separated segments, under which `starts_with(t + ":")` is the strict
prefix relation.

**What is signed.** `canonicalize` is the legacy form by the values it makes one. Null members
are left out (`without_nulls`, `legacy_canonical.rs:49-54`), and every leaf goes through
`jcs::canonicalize` (line 71), so a number is the double it is (`to_double_view`, `jcs.rs:103-127`):
2 and 2.0, 0 and -0, and integers above 2^53 that round to one double have one form and one
signature. `depth_of` reads the number itself, so a depth can be changed within its double under a
signature that holds, and the walk will read what was put there. `AuthorityTracesToRoot` says what is left
of a signature's word then: whichever link the key signed has the same texts, scopes and
limit as the one presented, and states the same depths, equal as doubles (`GrantsAlike`). Nulls are
another matter: they change no verdict (`NullMembersDoNotMatter`, `NullNeverHelps`).

**The structural call.** `pc` is the loop `verify_chain_structure` is in: `gate`
(`delegation.rs:620-642`), `seed` (644-658), `walk` (660-715), `done`. `bound` is the
`EffectiveBound`. An action is an iteration of a loop that passes (`GateLink`, `SeedRoot`,
`WalkHop`) or ends the call (`RefuseAtGate`, `RefuseRoot`, `RefuseHop`, `RefuseEmpty`,
`Accept`). The checks within an iteration are the rule lists `GateRules`, `SeedRules`
and `HopRules`, in the order of the code; a refusal takes the first that fails.
`EffectiveBound::narrow` returns at its first failing check and an iteration that
fails ends the call, so its partly updated bound is never seen: it is split into
`FailsNarrow`, its checks, and `narrow`, its effect when none fails.

**The authorization calls.** `stage` is the gate the call has reached; the
structural call runs inside the stage `structure`, one `StructureNext` step at a
time. `revoked` is the environment's: `Revoke` adds links of the chain at any time, also
between the resolver's answers. `AskResolver` records each answer in `answers`; the
resolver says what is so at that moment, or cannot answer.

**The passport call.** `verify_passport` has one action per check; once the envelope
is open no check ends the call. Errors and warnings are sets. `verify_issuer_signature`,
which is public and answers for one issuer by itself, is an operator; its agreement
with the check inside `verify_passport` is a property.

**The receipt calls.** `call` is one of validation of a receipt, validation of a draft
(without `require_values`), and verification. `pc` is `schema`, then the list the
call walks, `evidence` or `signatures`, one action per entry, with `seen` and
`previous` as the code's set and last key; verification goes on to `identity` (the id
is recomputed) and `keys`, where `AskResolver` chooses *any* answer for each descriptor:
a key, none, or a failure. The resolver is a closure with state of its own, so no answer
is tied to an earlier one. `heard` is what it was asked and said.

**The parser.** The recursion of `parse_value` is the explicit `stack`; an action reads one
token. `pc` is the place in the grammar: `value`, `first_item` (after `[`), `first_name`
(after `{`), `name`, `colon`, `separator`, `end`. A frame has the names of the object so far.
Whitespace, which the code skips between any two tokens, is left out, and a number is
one token of which only its safety is known. Strings are symbol by symbol, because
the pairing of surrogate escapes is: `parse_string` decodes one, while
`has_lone_surrogate_escape` scans the whole text, quotes and all, with no idea of where strings
begin. `JsonText` says without a parser what each place of a text is for and what is
wrong there (`Role`, offences), from counts of brackets alone.

**Action references.** Two requests run one after the other, so that a run can compare
their answers: what matters about a reference is what it is equal to. The text of a
reference is the sequence of its preimage, the digest being one-to-one; a caller that got
an error compares the empty text.

A definition whose name ends in `_m` is the definition after it with a plausible bug:
a dropped guard, a swapped order, a missing reset. No specification uses one. For
each property of each passing run there is one that, put in place of
the right definition, makes the property fail.

Where the code has an `if ... else if ...`, the arms of a `CASE` here are kept disjoint:
TLA+'s `CASE` takes any arm that is true, not the first.

## What is checked

| Run | Instance | Question |
|---|---|---|
| `chain_structure` | chains of up to 3 links (4 for depths, 2 for types) of five families: depths and positions; limits and units; windows; scopes; JSON types | Does one pass with a running ceiling decide what the whole chain states? Is the ceiling the exact minimum, maximum and common unit, does it only tighten, is pairwise containment of expiry and scope enough, is the length bounded by every `maxDepth`, can no extraction fail after the gate, is a null member worth as much as none, and does a refusal name the first link that is wrong? |
| `authorization_calls` | up to 2 links, each off in at most one way from a good one, or signed as one and carried on with a null, a depth or a limit that the signature does not tell apart; 3 times, 2 root lists, both entry points, any revocations | What does a token rest on, what does each refusal mean, and does each call return? |
| `passport_calls` | passports off in one member, in envelopes off in one more; all options | When is a passport valid, what do its flags say, is each failure reported, is the skew exact, do the two issuer checks agree? |
| `receipt_calls` | receipts off in one or two members; lists of up to 3 entries in every order, some bad; all answers of the resolver | What does a valid receipt rest on, is each descriptor asked about once and in order, do failures stay apart, which offence is named? |
| `strict_json` | documents of up to three levels, each text one token away from one, strings of up to 6 pieces of escapes; depth limits 0 to 3, size limits 0, 5 and 100 | Are exactly the documents accepted, is the first offence the one named, is the stack never deeper than the limit and the brackets, do the scan and the parser agree on surrogates? |
| `action_ref` | pairs of requests with up to 3 scopes in every order and form, times half a second around 1970 | Do references match exactly for one and the same request, and has no duplicate one? |

Six more runs expect a violation: see "Where code and documentation differ".

Five of the calls are shown to implement `Decision`: the call answers "yes" exactly on
what a statement without loops, order or running state calls good, and it does
answer. The statements are `Attenuates` for chains, `Deserves` for passports, `Conforms` for
receipts, `Acceptable` documents for the parser and `SameRequest` for action references.
`Attenuates` quantifies over *all pairs* of links and `Conforms` over all pairs of entries;
that the code's single pass with a running bound, or with a set and a last key, decides
them is the heart of the matter.

### Bounds, and why they are enough

- Chains: three links are the shortest chain in which a bound can be laundered (stated,
  omitted, exceeded; the case the doc of `verify_chain_structure` names), in which
  coverage can fail to be transitive, and in which an unreadable parent expiry is
  reported one hop up from the second hop. Depth gets a fourth link so that -1, 0, 1, 2
  can be positions of one chain. For the properties listed under the theorems, the
  proofs lift this bound.
- `MaxI64` is 2 for chains, so that a chain reaches the position that has no
  successor, and 31 for passports, where an instant of 20 plus a skew of 15 or 40
  exceeds it.
- `MCNumber` has a fraction, a negative zero, an integer out of range, and two numbers
  that share a double. In the authorization runs doubles are coarser, so that two depths within i64,
  one of which passes where the other is signed, share one too, as 2^53 and 2^53 + 1 do.
- `MCText` has two instants, `noon` and `dusk`, one of them in a second spelling, and
  unreadable texts: an instant before, at and after another all occur.
- A family varies one or two members and keeps the rest at values that pass. The checks on
  different members share no state but the order in which they are made, and
  `RefusalNamesFirstOffender` compares that with the first link that is wrong.
- In `authorization_calls` two links suffice for a signature to be by the wrong
  neighbour, for a revocation between two answers, and for silence after consent.
- In `receipt_calls` three entries are the fewest in which a repeated entry is not next to
  the first one, so that "duplicate" and "not sorted" are both true of it; two
  signatures are enough for one failure to stand next to a good one on either side.
- In `strict_json` three levels let a member come after a nested object has been
  closed, and a document be one level too deep in an array and in an object; six pieces make
  two whole `\u` escapes with something between or around them.
- In `action_ref` a second has two parts: half a second before 1970 is where
  rounding towards zero and rounding down differ.

Deadlock is not checked: a call that has returned takes no further step. That each call
does return is checked as liveness (`CallReturns` and the refinements).

### Fairness

The calls are sequential code with no lock or wait, so weak fairness is assumed of the
call's own next-state relation and of nothing else: `Revoke` is not fair. The two
resolvers are the caller's closures, which the code calls synchronously; that a call
ends assumes that they return.

## Where code and documentation differ

Each is a run of its own, in which TLC shows an execution that contradicts the text.

1. `chain_root_expiry`: `ExpiryUnparseable` says that a chain with an expiry that does
   not parse fails closed (`delegation.rs:350`). A chain of one link does not: expiries are
   read in the loop that starts at the second. The authorization call closes the gap,
   since `verify_delegation` reads every link's expiry (`RevocationIsTheLastGate`).
2. `chain_omitted_scope`: the README (68-69) says that scope containment rejects an
   omitting child outright. A child without scopes is accepted. It is granted nothing, so it
   widens nothing, but it is not rejected.
3. `chain_root_scope`: the README (69) calls the result transitively the same as a
   ceiling from the root. `pay:*:*` covers `pay:*`, which covers `pay:card`, which
   `pay:*:*` does not cover. `AcceptedScopeWithinAncestors` shows that doubled wildcards are
   the only exception.
4. `authorization_plain_token`: the README (56-57) says `verify_chain_authorization` returns a
   token. It never does; only the call with a resolver can.
5. `authorization_low_order`: the README (76-81) says that low-order public keys are
   accepted. `verify_strict` refuses them, as the crate's own tests say.
6. `passport_absent_expiry`: the README (84-91) says that the absence of `expiresAt` leaves
   that edge of a passport's window open. It is reported as `InvalidExpiry`.

## What is proved

TLAPS checks these for chains, receipts, passports, texts and requests of every size and
every value of the other constants. The constants are assumed to be what the
named `ASSUME`s say, which TLC evaluates in the runs: the option markers are not
values, the readings of numbers and texts have the types serde_json gives them
(`OptionAssumption`, `ShapeAssumption`, `ReadingAssumption`, `RoundingAssumption`,
`IntegerAssumption`), members have the shapes of JSON (`LinkAssumption`, `MemberAssumption`,
`EnvelopeAssumption`, `ReceiptAssumption`), the empty text is no key (`EmptyKeyAssumption`),
byte order is total and one-to-one (`RankAssumption`, `CodePointAssumption`), a normal form is
its own (`NfcAssumption`), and the rest are types of the arguments or keep a marker apart from
data (`ProfileAssumption`, `PairAssumption`). A text is cut into tokens the way the parser cuts it:
a string token that can be read ends where `parse_string` stops (`StringAssumption`).

`DelegationChainProofs`, about `StructureSpec`:

- `TypeCorrect` (`TypeOK`): in particular no unreadable value ever enters the bound.
- `GateIsTotal` (`GateMakesReadingTotal`): past the gate no extraction fails.
- `CeilingsAreEffective` (`EffectiveCeilings`): the bound is the exact minimum, maximum or
  common unit of what the links walked state.
- `CeilingTightens` (`CeilingOnlyTightens`): no step loosens it.
- `NeverWidens` (`AcceptedNeverWidens`) and `LengthIsBounded` (`DepthCeilingBoundsLength`).

None of these is inductive. The inductive invariant `IInv` is the conjunction of

- `TypeOK` and `Control`: what `hop` and `verdict` are in each loop. `TypeOK` alone does not
  keep the bound in its type, since the extractions can return `Err`;
- `Gated`: the links before `hop` in the gate, and all links after it, are well typed. This
  is why `narrow` has values to work with;
- `EffectiveCeilings`: what the bound is. Needed because the checks compare a
  link with the bound, and the theorem compares it with every ancestor;
- `NarrowedSoFar`: the links walked pairwise do not widen. A new link is within the bound, the bound is
  within each ancestor's statement, by `EffectiveCeilings`;
- `Positioned`: the link at i has the root's position plus i - 1, the root's is not negative, and
  each position is within the bound. With `EffectiveCeilings` this gives the length.

The order of the checks matters to none of these, only that all of them were passed.

`ChainAcceptanceProofs`, about scopes and `StructureSpec`:

- `CoverageIsTransitive`: a scope covers what is covered by a scope it covers, unless it ends
  in two wildcards.
- `DecidesAttenuation`: the call, if it is done, has accepted exactly the chains that `Attenuates`;
  `DecidesAsPromised`: it starts undecided and each step decides as `Decision` does or
  leaves the decision alone, which is the safety half of `ImplementsPromise`.
- `ExpiryIsContained` and `ScopeIsContained`: of what is compared with the parent only.
- `RefusesFirstOffender` (`RefusalNamesFirstOffender`): a refusal names the first link at which
  the chain stops attenuating.
- `NullsDecideNothing` (`NullMembersDoNotMatter`).

`Walkable` adds to `IInv` what each link walked was held to that the ceiling says nothing of:
linkage, scope, expiry, floor and position. Acceptance rests on it; each refusal shows
the link, or the pair of links, on which `Attenuates` fails. Both are lemmas about the stretch of
the chain down to a link (`PrefixAttenuates`, `PrefixRefused`), which is what tells where it fails.

`ChainAuthorizationProofs`, about `Spec`, with links being revoked throughout:

- `NoTokenIfRevoked`: `RevocationInv` says that while the resolver is asked there is a
  "not_revoked" on record for each link passed, and that none of these was revoked at the
  start, because links are never taken off `revoked`.
- `TokenNeverWidens`: the structural call within the authorization call
  takes the same steps, so its invariant holds here, and a token implies that it accepted.
- `RevocationComesLast`, `HopsRefuseRightly`, `DepthNeverDecides`, `TokenTracesToRoot`, from
  `GrantInv`: what each stage has seen to, and that an outcome is the one the chain
  deserves, in both directions. `TokenTracesToRoot` rests on `OnePreimageGrantsAlike` besides: two
  links with one preimage have, member by member, the same text, scopes and limit, and depths of one
  double (`OnePreimage`, `SignedAsDouble`).
- `AuthTypeCorrect`, `RevocationNamesRightly`, from `FullInv`: a hop that is named is there.

`PassportProofs`, about `PassportSpec`:

- `PassportTypeCorrect`, `NoFailureHidden` (`EveryFailureReported`), `ValidIsVouchedFor`
  (`ValidHasAuthority`) and `CountersignaturesAgree` (`IssuerChecksAgree`), from `PassportInv`: at
  each check, the errors are the union of what the checks before it find.
- `SkewMovesBothEdges` (`SkewIsExact`), from `EdgesInv`: past the options both edges
  are sums within i64.
- `PassportDecides`, the safety half of `ImplementsPassportPromise`, and `NullsNeverHelp`
  (`NullNeverHelps`).

`ReceiptProofs`, about `ReceiptSpec`, with resolvers that answer anything:

- `ReceiptTypeCorrect`, `AskedInOrder` (`ResolverAskedInOrder`), `ValidIsSigned`
  (`ValidMeansSigned`), from `ReceiptInv`. Its heart is `Recorded`: the i-th question was
  about the i-th descriptor, and the i-th result is what the code makes of that
  descriptor and the answer.
- `JudgedApart` (`FailuresKeptApart`), from `ShapedInv`: what validation has passed does not fail
  later for its form.
- `FirstOffenceNamed` (`ValidationNamesFirstOffence`) and `ReceiptsDecided`, the safety half of
  `ImplementsReceiptPromise`, from `ValidationInv`: the entries walked are without fault and in strictly
  increasing order, and `seen` and `previous` are their keys. A key that is not before the
  last is not after some earlier one, and one that is after the last is after all.

`StrictJsonProofs`, about `StrictSpec`, for texts of every length. The first three do not depend on
what a single string says, so they hold however strings are decoded; `ScanAgrees` is about just that.

- `StrictTypeCorrect` and `DescentIsBounded` (`RecursionBounded`), from `DescentInv`: the stack is as
  deep as the brackets left open, and no deeper than the limit.
- `FirstOffenceIsNamed` (`VerdictNamesFirstOffence`), from `OffenceInv`. What it adds is `Located`: the
  parser reads a place for what it is for by `Role`, nothing is wrong before it, and the stack is what
  `JsonText` reads off the text at that place (`Tied`): level n has the kind of the bracket that opened
  it, and its names are those that were read at places with that opener. A name that is awaiting its
  value is kept apart from the others on the stack and not in the text, which is why `Tied` has a case
  for it.
- `ScanAgrees` (`ScanAgreesWithParser`), from `ScanInv`. What it adds is `Scanned`: the strings before the
  parser's place could all be read, and a surrogate it refused is in the string at that place. The rest
  is `TextScanned`, about a text only: `parse_string` reads a string by itself, as
  `has_lone_surrogate_escape` walks the symbols of the whole text, skips what it does not understand and
  tracks quotes as it goes. `StringScanned` says that the two go through one string in step, from its
  last symbol back to its first (`Agree`): they end it at one place, or the scan finds the surrogate that
  the parser stumbles over. What makes it hold where an escape is cut off by the closing quote
  is that no token begins with a backslash or a `u` (`StandsIn`). `TokenScanned` carries this over
  a token, and induction over the tokens over the text.

- `ParserDecides`, the safety half of `ImplementsParserPromise`, from `PromiseInv`, which adds to
  `OffenceInv` what there is still to be read (`Left`). The grammar in `JsonText` says of two places
  whether the tokens between them are one value: `Levels`, by levels, of `Around`, by `Lists` of
  `Elements`. The parser is at one place, inside of levels of which it has seen only the beginning. `Rest`
  is the grammar as seen from there: each level on the stack has a place where it could end, the value
  inside it ends before that, and what is behind each end goes on in the level around it. Every token that is
  read keeps the truth value of `Rest` (`RestOpen` and `RestClose` put an end to the others and take it
  away, the other lemmas leave all of them where they are), a refusal of a token means that it is false
  (`RestNothing`), and at the end of an accepted text it is true. That no name is repeated is not part of
  it: it follows from nothing being wrong anywhere (`NamesAreUnique`), which is why `OffenceInv` is needed.

`JsonTextProofs` has the lemmas about texts that these need: what one more token does to the
nesting, the opener, the names and the role of the place after it; how a string and a text are
read (`Reader`, `Scanner`); what the grammar says (`Lister`, `Leveler`, `ValuesAre`); and `Rest`.
The prover cannot apply an induction theorem that takes a predicate, but it can apply one that
takes a set: `Least` and `Induction`. A recursive function is to it some function that satisfies an equation, if there is one:
`Reader`, `Scanner` and `Lister` show that there is, by induction, since each place asks for later places
only, and `Leveler`, since each level asks for the one below it.
For their sake the first two are functions of one argument with the recursion in the last arm of a `CASE`; the
scan's yields a function of `in_string`.

`ActionRefProofs`, about `RefSpec`:

- `RefTypeCorrect` and `DuplicatesAreRefused` (`DuplicatesNeverIdentified`), from the scopes seen being
  those before the one at hand, all different.
- `RefDecides`, the safety half of `ImplementsRefPromise`. A list without duplicates can be sorted
  (`OrderExists`: an entry goes where the number of smaller ones says) in one way only
  (`OrderIsUnique`), so that two sorted lists are one exactly if they have the same entries; and two
  instants have one quotient exactly if they are in one second (`SameSecond`), before 1970 too.

Only model-checked:

- everything under fairness: `CallReturns` and the liveness half of each refinement. The prover has
  no rule for `ENABLED` and weak fairness here.

## Not modelled

- Text: wording, sorting of members, the text of a double or a string. Both canonical forms
  are modelled by which values they identify.
- The order of a link's scopes, which is signed but which no verdict depends on; a scope list
  is a set here, so two orders have one preimage. All malformed values of a member are
  one value, `Malformed`.
- What two limits of one double differ by: the code reads limits as doubles only, and so do the
  properties that compare them.
- Which control character a string has: `JsonString` has one symbol for all of them.
- Numbers of a receipt outside `result`: `assert_ijson` looks at the one in `result`.
- JCS serialization: key order, escapes and the formatting of numbers are the work of
  `serde_json_canonicalizer`, an external crate. What `canonicalize` adds, that numbers are the
  same if their doubles are, is `to_double_view` in `JsonValue`; beyond that equal values,
  and only these, are taken to have equal bytes. `action_ref.rs:84` maps a failure of it to
  `InvalidTimestamp`; given the texts and lists it is given there it cannot fail, so the model has
  no such step.
- The curve: a signature is who made it and over what, plus the two ways in which
  `verify_strict` differs from the equation.
- Timestamp syntax, leap seconds and the range of years: they are the external `time` crate's.
  `Ms` and `Parsed` are any functions.
- How a number's text is read: a token is safe or not.
- `src/probes/phase0/rust/wave11_baseline_probe.rs`: a program that prints what another version
  of the crate answers to fixed inputs. It keeps no state and is not part of the library.
- `lib.rs`: re-exports, and `canonical_hash` of the legacy form, a digest of what is modelled.
- Threads: the crate has none, and its calls share nothing.

## Plan

Done, in this order: links and chains with their proofs; authorization and its proofs; passports
and theirs; receipts, the parser and action references; the promises of the chain, the passport, the
receipt and the comparison of references as theorems; the first offence of the parser, its
agreement with the scan, and its promise. Every invariant that a run checks, every action property and the
safety half of every refinement is proved.

What is left to TLC is that calls return, which needs `ENABLED`.
