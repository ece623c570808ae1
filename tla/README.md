# A2A delegation governance: TLA+ verification

A user approves a *mandate*; an agent presents it, possibly after delegating it
to other agents, to a *verifier* that is about to serve an A2A call; the verifier
decides Pass, Deny or Challenge and records a receipt. This directory models that
path of the repository, and the formats it rests on, checks them with TLC on
small instances and proves the main safety properties with TLAPS for every value
of the constants.

## Inventory

| Component | State it keeps | Operations | Interacts with |
|---|---|---|---|
| Decision engine, `a2a-gov-pdp/src/lib.rs` | none of its own | `decide`, `Decision::receipt` | chain verification, constraints, three stores behind traits |
| Stores, `a2a-gov-pdp/src/memory.rs` | issued nonces, revoked ids, use counts (a mutex each), trusted keys | `issue`, `consume`, `revoke`, `is_revoked`, `try_consume`, `count`, `key_for` | called by every thread that decides |
| Constraints, `a2a-gov-pdp/src/constraints.rs` | none | `evaluate` | the engine |
| Mandate chains, `a2a-gov-mandate/src` (`chain`, `jws`, `jwk`, `sdjwt`, `issue`) | none | `issue_open`, `present`, `join`; `verify_chain` | surface, agents; the engine |
| Receipts, `a2a-gov-receipt/src/lib.rs` | none | `for_chain`, `sign`, `verify`, `matches` | the engine's decisions |
| Receipt log, `a2a-gov-receipt/src/log.rs` | the entries, and the rows a store keeps of them | `append`, `head`, `verify` | receipts' `prev` |
| Extension errors, `a2a-gov-extension/src/errors.rs` | none | `to_json_rpc_error`, `ErrorProfile::parse` | gateways and clients, with services between them |
| Binding, `a2a-gov-binding` | none | statuses, messages and artifacts, written and read | peers that keep messages as protobuf |
| Agent cards, `a2a-gov-card` | the card and its signatures | `canonicalize`, `sign`, `verify`, `fingerprint` | whoever serves or edits a card; verifiers that pin one |
| Python package, `bindings/python` | the copy of a task an agent holds | `hello`, `auth_state`, `continuation`, `receipt_meta`, `parse_error` | a verifier, over an unreliable network |

What is hard here: many threads decide at once over stores that are locked one
call at a time; a decision touches three stores in sequence and any of them may
fail; revocation and time run alongside; and the presenter chooses the bytes of
the chain, the disclosures it forwards and the form of the ECDSA signatures. What
must hold: a nonce buys one call; no mandate is used more often than was signed;
a revoked mandate no longer passes; a storage failure never passes; a delegation
never widens; what was signed cannot be left out; and the log shows tampering.
Around the engine, messages are lost, late and repeated and agents retry; peers
turn integers into doubles, add error details and edit cards; and a signature is
over a text that must stand for one value.
`PROJECT.json` lists each hazard at its line with the properties that cover it.

## Modules

| Module | Models |
|---|---|
| `Constraints` | `evaluate` and its helpers as quantified definitions over a verified chain |
| `Narrowing`, `MCNarrowing`, `NarrowingProofs` | a chain growing by delegations; the literal loop of `evaluate` as a second definition; the proofs about it |
| `MandateChain` | `verify_chain` with split, keys, signatures, disclosures, times, binding and roles |
| `TimeChecks` | one closing hop's time checks while the clock runs |
| `Engine`, `MCEngine` | `decide` by concurrent threads over the stores, with revocation, poisoned locks, failing stores and time |
| `EngineProofs` | the theorems about `Engine` |
| `Authorizer` | what the engine promises: a call passes in one indivisible step |
| `EngineRefinement`, `MCEngineRefinement` | the refinement mapping from `Engine` to `Authorizer` |
| `RefinementProofs` | the proof that `Engine` implements `Authorizer` |
| `TaskFlow`, `MCTaskFlow`, `TaskFlowProofs` | agents and a verifier working on tasks over an unreliable network; the proofs about it |
| `Binding` | extension metadata on its way through peers that know only doubles |
| `Extension` | errors raised by a gateway, decorated on their way, parsed by a client |
| `MessageProofs` | the proofs about `Binding` and `Extension` |
| `Disclosure`, `MCDisclosure` | the `Builder` and the recursive `Resolver` of selective disclosure, with a holder in between |
| `Jcs` | canonical JSON as operators: numbers, strings, key order, errors |
| `JcsText`, `MCJcsText` | pairs of values under `Jcs`: one text, one value |
| `JcsTie` | `even_on_tie` and `increment` over a small binary floating-point format |
| `CanonicalForm` | `canonical.rs`: what a card's two forms leave out, by the schema's presence, shape and kind; as operators |
| `Cards`, `CardProofs` | signing, editing, verifying and pinning a card; the proofs about it |
| `MCCards` | `Cards` with the texts of `CanonicalForm`, and instances of `JcsText` and `JcsTie`, in one run |
| `ChainText` | the wire text: `join`, `split`, and the receipt's `closing_segment` |
| `ChainProofs` | the proofs about `TimeChecks` and `ChainText` |
| `Receipts`, `MCReceipts` | a receipt from the builder over its payload to the reader, and `matches` |
| `ReceiptLog` | the log, its stored rows, changes to them, heads kept outside |
| `ReceiptProofs` | the proofs about `Receipts` and `ReceiptLog` |
| `MCReceiptLog` | extends `ReceiptLog` and `MCReceipts`: one run of both, in which one moves while the other rests |
| `MCChain` | instances of `TimeChecks`, `ChainText` and `MCDisclosure` in one run |
| `MCMessages` | instances of `Binding` and `Extension` in one run |

`MandateChain` extends `Constraints`; `Engine` extends `MandateChain`; `TimeChecks`
extends `MandateChain`; `EngineRefinement` extends `Engine` and instantiates
`Authorizer`; `CanonicalForm` and `JcsText` extend `Jcs`. `Cards` takes the canonical text of
a content as the constant `CanonicalText`, so that it can be proved about; `MCCards` gives the
constant the value that `CanonicalForm` computes. `TaskFlow` composes binding, agent
and engine; it takes `decide` as one step, which is what the refinement shows it
amounts to, with every outcome that the engine's checks and stores allow. `MandateChain`
takes disclosures one level deep and a segment as a record, so a text
without a JWT or with an empty disclosure is not one of its chains; `Disclosure` is the
recursive algorithm and `ChainText` the text. A run over several modules that share no state lets a
behaviour exercise one of them while the others stay in their initial states, so it
reaches the sum of their states and checks each as if it were alone. Operators whose comment begins with "Mutant" are
plausible bugs of the definition that follows them; they are used by no
specification and show that each property can fail.

### Correspondence with the code

*Chains.* Cryptography is symbolic: a digest is the value it is taken of, and a
signature verifies exactly under its key. `signed[id]` is what a signing input
contains; the name `id` plays the part of `hop_id`, which leaves the signature
out. A segment's signature has a `form`, because ECDSA's `s` and `n - s` both
verify. The set `disclosable` holds the places of a payload that are digests, and
`shown` the disclosures a segment carries. `verify_chain` gives the error of the first
failing check of the first failing hop, in the code's order; `a ?? b` is Rust's
`?`.

*JSON.* An absent member is `None`, one of the wrong type is `Bad`, arrays whose
order does not matter are sets, objects are functions. The order of constraints
does not matter to `evaluate`'s result, which is what `LoopAgrees` says; the loop itself
is `EvaluateLoop`, with a recursive function where the code has a `for`.

*The engine.* `issued`, `revoked`, `counts` are the stores; `pc`, `req`, `now`,
`hop`, `decision` are the locals of a thread in `decide`. Each store call is
one step, because each takes and releases a mutex; the pure work between two
calls is part of a step. A poisoned lock makes `is_revoked`, `consume` and
`try_consume` fail, and makes `issue` and `revoke` do nothing, as in memory.rs.
`BackendFails` is for other stores behind the traits (lib.rs:13): a call on one may
fail before or after it took effect, and the engine denies either way. The
remaining variables are history for the properties only: what had been revoked
or poisoned when a call began, and the calls granted and charged per mandate and
nonce.

*The authorizer.* An abstract engine with outstanding nonces, limits and
revocations, and one step `Grant` that finds the nonce outstanding, every mandate
unspent and none of them revoked or the storage broken before the call began, and
spends them all. A refusal may cost the nonce, never a use. Under the mapping the
step that grants is the charge of the use counter (`TryConsume`); a nonce that a call
has removed from the store and not yet used counts as outstanding.

*Tasks.* `task` is what the verifier keeps, `held` the agent's copy, `sent` all
messages ever sent: any of them may be handled at any time, again or never. The
verifier is the one the package's tests build (`pytest_oracle.rs`) with stores that
outlive a call; it may answer a refusal with a JSON-RPC error alone or with an artifact
too, without a next nonce, and may leave out the next nonce of a served call; it keeps
its answers as artifacts in their order.
`decide` is the set of decisions that are possible at the moment. `NothingTaken` is always
one of them: the times of a hop, a revocation, a constraint or a store may refuse a call
before its nonce is looked at, and what is refused now may be served later. For the rest it
keeps the order of the engine's checks: description of the call, nonce, uses. Once the
nonce was there, the nonce store or the use counter may fail after it has applied the
update, which costs the nonce and perhaps a use (`BackendFails` in `Engine`), and a nonce
that is handed out may be lost by its store (memory.rs:67). `failed` remembers the
mandates to which that happened.

*Numbers on the way.* `Binding` counts doubles in halves; `Limit` is 2^53. Below twice
the limit a double is a multiple of 1 or 2, which is where an integer can first turn
into its neighbour. The status of a pending task stands for all objects with
metadata: the others take the same way and have fewer checks.

*Errors.* Details are records of the google.rpc type; `Bad` is a member that is
absent or mistyped. `AddBehind`, `AddInFront` and `Foreign` are other services.

*Disclosures.* A digest is the disclosure it is taken of. A JSON value is a tree of
tagged records; `value`, `object` and `array` thread the resolver through it as the
`&mut self` methods do. Salts are numbers in the order they were drawn. All errors are
`Error::Disclosure`, so the order of the checks in `resolve` cannot be seen.

*Canonical JSON.* A text is a sequence of characters, where a control character
or one beyond ASCII has a name and its UTF-16 units. A double is its shortest
digits and exponent. `SafeBits` replaces 53. Choosing the digits is in `JcsTie`, where every double
and decimal is a whole number of units of 10^-Places, `Shortest` is the set of
what Rust's `{:e}` may print, and `Nearest` is `str::parse`.

*Cards.* A content gives each place of a card one of the variants absent,
empty, hollow (an object with nothing but an empty string), set or huge (an integer
without canonical form); `Written`, in `MCCards`, makes the JSON of it, and `MCMESSAGES` has
rows of `schema.rs` of every presence, shape and kind it uses. A signature is the key and the text
it covers.

*The log.* An entry's hash is the triple hashed. The string that is hashed,
`seq:prev:receipt`, is injective in these three, because `seq` is decimal and
`verify` compares `prev` with a real hash first.

## Runs

Bounds are named constants of the cfg files; each run takes at most about two
minutes.

| Run | Bounds | Shows |
|---|---|---|
| `engine_limits` | 2 threads, 3 nonces, 4 calls, 7 presentations | `NonceBuysOneCall`, `WithinLimits`, `UsesAreGrants`, `NothingWithheld` |
| `engine_faults` | 2 threads, 2 nonces, 2 direct or delegated calls, root and delegation revocable, failing stores, poisoned revocations | `NonceBuysOneCall` again, `RevokedNeverPasses`, `FailsClosed`; `AuthorizesAtomically`: every behaviour is one of `Authorizer` |
| `engine_answers` | 1 thread, 2 calls, all outcomes, all failures, clock 0..1 | `EveryCallIsAnswered` |
| `narrowing` | up to 2 delegations, up to 2 constraints in the root and 1 in a delegation, of 14; 16 calls | `DelegationNarrows`: a longer chain covers less, for the same purpose, and charges every limit it charged before. `LoopAgrees`: the quantified `evaluate` is the loop, duplicates included |
| `chain` | integers -4..3, all claims, skews 0, 1, 3, ages 0, 2 | `ExactTimes`, `WindowNeverReopens` |
| | texts of up to 13 characters over two; up to 4 segments of up to 2 disclosures; MAX_TEXT_HOPS 3 | `SplitInvertsJoin`, `JoinInvertsSplit`, `ReceiptNamesVerifiedHops` |
| | flat, hidden and nested mandates, malformed segments of other issuers, 3 changes by the holder | `ResolvesToTheMandate`, `PresentedInFullResolves` |
| `receipts` | 4 presentations, both outcomes, up to 2 released fields, 2160 foreign payloads | `RoundTrip`, `MatchesItsPresentation` |
| | 3 entries, 2 interchangeable receipts, 3 changes | `DamageIsLocated`, `KeptHeadProtects` |
| `task_flow` | 2 tasks, 2 uses each, 3 nonces, right and wrong calls, stores that fail at any call, an artifact for at most one refused call of a task | `RetriesAreNotServedAgain`; `UsesHaveReceipts`: the receipts that say so are as many as the uses counted; `SomeNonceIsLeft`: no sequence of refused calls strands an approved agent, unless a store's failure costs its nonce; `ApprovedIsServed`: with the same exception, approval leads to service |
| `messages` | integers -11..11 around a limit of 8, 5 doubles, 2 places, 3 peers | `NoOtherInteger`, `DraftIsReadAsSent` |
| | all reasons, up to 4 details in any order, 2 domains, 2 ids, 3 links | `RaisedIsRead`, `ReadIsStable`, `OthersDoNotCount` |
| `cards` | 4 varying places, 3 keys, 2 signings, 2 edits | `AcceptedWasSigned`, `PinMeansContent`, `MoreSignaturesDoNoHarm` |
| | all pairs of 188 values: integers -10..10 (exact up to 7), exponents -8..-6, -1..2, 20 and 21, strings with every escape of `ShortEscape` and `OtherControl`, nested containers | `OneTextOneValue`; `NumberReadsBack`: the same number, in ECMAScript's layout for its size |
| | all doubles of 5 bits and exponents -4..1 | `ECMAScript` |

Three more runs show disagreements with the documentation, below.

Why they are enough: a race needs two threads; a second use of a nonce or a use
beyond a limit of one or two needs three or four calls; a delegation needs three
hops; the searches for "~~" differ only inside runs of tildes, all of which up to
13 occur; recomputing a hash, relinking and hiding it takes three changes. A retry
that races its own answer needs two messages with one nonce, a stranded agent a
refused and a right call, a nonce used across tasks two tasks. Doubles lose
integers first just above the limit, so a limit of 8 shows what 2^53 shows; the
layouts of numbers change at exponents 21, 0 and -6, all of them among those taken; a tie needs
a 5 behind the last digit, which a five-bit significand has for many values.
No run checks for deadlock: calls, changes and messages
are bounded, and agents, holders and peers may stop.

The instance `MCEngine` has an open mandate `m` (two uses, one delegation, answers
only, two of its constraints separately disclosable), its delegation `d` (one use),
a mandate `u` with an unknown constraint and `w` that states its limit twice, and
the closing hops of two agents for three nonces: direct, delegated, over the
second form of `m`'s signature, with a disclosure left out, for another audience,
for another call, for another release.

*Fairness.* `EveryCallIsAnswered` assumes weak fairness of a thread's next step.
`decide` has no loop but the one over at most MAX_HOPS hops and waits only for
mutexes that are held for a few instructions, so a running thread goes on. Nothing
is assumed of agents, of revocation, of nonces or of the clock.

`ApprovedIsServed` assumes that an agent with an approved task goes on polling and
calling `continuation` for the right call, which is the flow a2a.py:3-14 prescribes, and
that a message that stays sent is handled at last at a moment when decide gets as far as
taking its nonce (`Handled`): the agent sends it again and again, the network does not
lose every copy, and neither is the mandate revoked or expired nor is every copy met by
wrong clocks or by a store that fails before the nonce is taken. A store that fails
afterwards costs the nonce, and with it the service (`failed`). Nobody has to approve, no other
message has to arrive, and the agent may describe other calls as often as it likes.

### Disagreements between code and documentation

Shown by runs:

* `engine_twice`: a hop that states `access.max_uses` twice is charged once per
  statement, so its uses run out before either limit is reached. The limits
  themselves are never exceeded (`WithinLimits` is proved for this case too).
* `task_flow_next`: `receipt_meta` returns the first artifact's receipt; once a second
  call was served in the task, the next nonce in it is consumed (a2a.py:64).
* `disclosure_reveals`: every withheld disclosure is refused, as sdjwt.rs:215 and
  docs/security.md say; docs/wire-format.md:34-35 says an agent reveals only the
  constraints that apply.

Met while modelling, without a run of their own:

* A use counter that fails after the nonce was consumed (lib.rs:266, then 272) leaves an approved
  agent with uses and without a nonce: the call is denied, and the status still names the old
  nonce, unless the verifier sends a new one with the denial, which the model's does not.
  `SomeNonceIsLeft` and `ApprovedIsServed` except exactly this.
* Where a verifier attaches its refusals too, the first artifact, which `receipt_meta` reads,
  may be the receipt of a refusal although the same presentation was served later.
* A storage failure answers a presented mandate with `Denied` (lib.rs:216), which
  errors.rs:22 documents as "no mandate was involved".
* A decision about a text that is not a chain has no receipt (lib.rs:135); lib.rs:114
  says only a decision without a chain has none.
* `ErrorProfile::parse` recognizes an error by its number first, which errors.rs:6-7
  calls a hint.
* A card with a field the schema does not know has two different payloads
  (canonical.rs:44); docs/agent-cards.md:43 says a card without empty values has one.
* If an issuer names an array twice in `array_elements`, a segment with the inner
  disclosures left out resolves with digests in the place of constraints
  (sdjwt.rs:305), although sdjwt.rs:215 requires every digest to be disclosed. The
  instances of `Disclosure` have no such issuer.

## Proofs

Thirty theorems, for any threads, requests, chains, nonces, signing inputs, keys,
messages, texts and bounds, under named assumptions on the constants that the runs
evaluate: parameters are of their types (`EngineAssumption`, `TaskFlowAssumption`,
`BindingAssumption`, `ExtensionAssumption`, `MandateChainAssumption`,
`NarrowingAssumption`, `ChainTextAssumption`, `CardsAssumption`, `ReceiptLogAssumption`),
JSON arrays are finite and a u64 is a natural (`SignedAssumption`,
`MandatesAssumption`), `None` and `Bad` are no value of the data they stand beside
(`HashAssumption`, `AnswerAssumption`, `NoneAssumption`, `ClaimsAssumption`,
`ReceiptsAssumption`, and parts of `MandatesAssumption`), the verifier's tolerances are in range
(`TolerancesAssumption`), and two contents with one canonical text say the same as far as
their forms cover them (`TextsTell`). The last is what the canonical form is for; TLC
evaluates it over all pairs of contents of `MCCards`, where `CanonicalForm` and `Jcs` make
the texts.

Each proof of an invariant is an induction over the steps. Where a proof is about data of any
length, a text or a list of constraints, it takes the least place at which the claim
would fail; `LeastNatural`, from the library's `WFMin`, is the one fact this needs.

### The engine

* `TypeCorrect` (`TypeOK`), by induction together with `Underway`: a call past
  `decide` has a chain that verified, a revocation loop within its hops, and,
  past `Evaluate`, constraints that cover the call. `TypeOK` alone is not inductive:
  counts stay naturals only because the chains in flight have finitely many
  limits.
* `NonceSingleUse` (`NonceBuysOneCall`), through `NonceInv`: a nonce that is
  still issued, or never was, has been charged to nobody, and two threads past
  `Consume` hold different nonces. The second part is what `remove()` under one
  lock gives.
* `LimitsHold` (`WithinLimits`), through `LimitInv`: what was granted on a limited
  hop is at most what the counter says, and at most every signed limit. It needs
  that a verified chain is charged for every limit that was signed into it
  (`LimitsCharged`), hence that nothing was withheld (`ChainVerified`), and that
  the counters are keyed by `hop_id`.
* `UsesAreGrantsHolds` (`UsesAreGrants`) is the converse: with stores that do not
  fail no use is lost. A charge adds to a hop's count the number of its `max_uses`,
  once, if the hop stands in the chain once. That is the lemma `HopsDiffer`: of two
  places with one JWT take the first; if it is the root, the `typ` of the other is wrong,
  and otherwise both name the hop before them by the same hash, so that an earlier
  hop stands twice too.
* `NothingWithheldHolds` (`NothingWithheld`), through `PassedCovered`: a passed call
  was covered by the hops of a chain that verified; and `NothingLeftOut`: in such a
  chain every digest is disclosed, so `evaluate` reads what was signed.
* `RevocationHolds` (`RevokedNeverPasses`) and `FailsClosedHolds` (`FailsClosed`),
  through `RevocationInv`: a call has looked up, since it began, every hop before
  `hop`; a hop whose revocation was done by then is either in the list, or the
  lock was already poisoned and the call cannot get past the lookup.
* `EngineImplementsAuthorizer` (`AuthorizesAtomically`), from the conjunction of the
  invariants above and `IdleClear`: an idle thread has no request. Every action of
  the engine maps to one of the authorizer or to a stutter: the revocation
  look-ups, the evaluation and the consumption of the nonce stutter (or refuse);
  `TryConsume` grants. That the nonce is outstanding then is `NonceInv`, that nothing it
  stands on was revoked before is `RevocationInv`, that all limits allow one more is
  `LimitInv`.

### Constraints

* `DelegationNarrowsHolds` (`DelegationNarrows`) in `NarrowingProofs`. `HopsInv` says that
  no hop a holder has closes, and `ExtensionNarrows` that appending an authorizing hop keeps
  every constraint at its place (`PositionsKept`)
  and puts new ones behind, so that each of `evaluate`'s questions is asked of more
  constraints. For chains of any length and constraints of any kind.
* `LoopAgreesHolds` (`LoopAgrees`): the quantified `evaluate`, which all other proofs use, returns
  what the loop of constraints.rs returns. `Agrees` says what the loop's locals mean
  after some hops and some constraints: the early return was taken if and only if one of
  the constraints seen is refused by itself or two purposes disagree; the purpose is the
  one asked for so far; and the list of limits has one entry for each use limit seen
  (`Lists`, a bijection). `StepAgrees` keeps it through each arm of the `match`,
  `HopAgrees` and `ChainAgrees` through the two loops. `HopLoop` and `ChainLoop` show that
  the recursive functions exist, which TLA+ does not take for granted.

### Chains

* `TimesAreExact`, `WindowCloses` in `ChainProofs`: for every width of integer, any
  skew of at least 0 and any age below the largest integer (both are set from
  a u32, so they qualify), saturation changes no verdict.
* `JoinInvertsSplitHolds` (`JoinInvertsSplit`), `SplitInvertsJoinHolds` (`SplitInvertsJoin`) and
  `ReceiptNamesHold` (`ReceiptNamesVerifiedHops`), through `TextInv`: the segments of an
  agent are well formed and what travels is a text. `str::split` takes separators from
  the left, two tildes at a time; `Separators` says which, and `EveryOther` and `RunBegins`
  that in a run of tildes it is every other place from the first. The separators cut a text
  into pieces (`CutsInOrder`), and joining puts back what was cut off (`SplitIsJoined`).
  The other way round, the places where `join` put its separators are those that the scan
  finds (`JoinedSeparators`): a segment has no two tildes next to each other and ends in one, so a run
  of tildes is never longer than two and begins where a segment ends.
  The receipt searches from the right instead; in a text that splits, the last run of
  tildes has no piece behind it that begins with a tilde, so both searches stop at one place
  (`NamesVerifiedHops`).

### Tasks and messages on the way

* `FlowTyped` and `RetriesRefused` in `TaskFlowProofs`, through
  `FlowInv`: no nonce anywhere is one still to be drawn (so a consumed nonce is never
  issued again), and what was served has lost its nonce. Without the first part a
  repeated message could be served after its nonce came back.
* `UsesHaveReceiptsHolds` (`UsesHaveReceipts`), through `CountInv`: a success is the receipt
  of a call that was served and whose nonce is gone, so the receipt of the next one is a
  new element of the set (`AnswersAddReceipts`), and one more is counted with it
  (`CountsStay`, `AnswersKeepCounts`).
* `SomeNonceIsLeftHolds` (`SomeNonceIsLeft`), through `NonceInv`. On its own the property
  is not inductive: a call under another mandate could take the nonce. `OneOwner` says
  that a nonce is borne by one mandate, in a status, a receipt or a presentation, whoever
  uses it in whatever task; `ApprovedFirst`, that nothing is presented before its user
  approved, so the nonce of a pending task is still there to be kept. Then a step
  that takes the mandate's own nonce either serves the call, and its receipt
  brings another, or finds no use left, or is a store's failure, which `failed` records.
* `IntegersAreKept`, `DraftsAreKept` in `MessageProofs`, through `Carried`: on the way every
  number is the one that was sent or the double it became first, because turning
  it into a double again changes nothing. For any limit, places, peers and
  integers up to twice the limit.
* `RaisedIsReadHolds` (`RaisedIsRead`), `ReadIsStableHolds` (`ReadIsStable`),
  `OthersDoNotCountHolds` (`OthersDoNotCount`) in `MessageProofs`, through `ErrorInv`: the
  details that the gateway wrote stay in the error, next to each other, and what stands before
  them was put there by a service in front. The client takes the first detail of each
  type that it knows (`FirstIsLeast`), so details behind and details of other domains do
  not count; and of what it read the wire form reads back (`ReasonsReadBack`, `ReadsBack`). For any
  number of details and of errors that other software made.

### Agent cards

* `AcceptedWasSignedHolds` (`AcceptedWasSigned`) and `MoreSignaturesHold`
  (`MoreSignaturesDoNoHarm`) in `CardProofs`, through `CardInv`: every signature on the card
  was made by a signing and covers the text of that signing's content and form. A verification that
  accepts reports the first signature that verifies (`AcceptedReports`); with the same text
  `TextsTell` gives the same covered content. For any keys, contents, edits and signatures.

### Receipts and their log

* `RoundTripHolds` (`RoundTrip`) and `MatchesItsPresentationHolds`
  (`MatchesItsPresentation`) in `ReceiptProofs`. `Readable` is what a receipt must be
  for nothing to be lost in its payload (`ReadBack`); the builder keeps its receipt so
  (`BuildInv`), and so is anything that `from_payload` accepts (`ReadIsReadable`), with
  no condition on payloads of other implementations. They rest on
  `ReceiptsAssumption`: `None` and `Bad` are the value of no member, and a closing
  segment has three parts.
* `KeptHeadHolds` (`KeptHeadProtects`) and `DamageIsLocatedHolds` (`DamageIsLocated`)
  in `ReceiptProofs`, through `LogInv`: entries are chained as `append` chains them,
  a kept head is the hash of an entry, and as long as no hash was recomputed a
  row's hash is one that `append` made, or garbage. A hash fixes everything before it
  (`HashFixesEntry`), by the least entry that would differ. For logs of any
  length and any number of changes.

### Only model-checked

* `EveryCallIsAnswered` and `ApprovedIsServed`: liveness under fairness, and `ENABLED`, are
  beyond these provers.
* `ResolvesToTheMandate` and `PresentedInFullResolves`: the resolver is recursive through JSON
  values of any depth. Its operators are RECURSIVE, about which nothing can be proved here, and a claim
  about every value is an induction over trees.
* `OneTextOneValue`, `NumberReadsBack` and `ECMAScript`: the writer of canonical JSON is recursive in the
  same way, and the digits of numbers are a recursion on quotients and powers of ten.
* `PinMeansContent`: one direction is `TextsTell`; the other, that contents that differ
  in nothing a form covers have one text, is a fact about `CanonicalForm` and not an
  assumption worth making, since it would be the property itself.

## Not modelled

Elliptic curves, SHA-256, base64 and the JSON parser (`keys`, `b64`, `strict_json`) are
symbolic. `Declaration` and `is_activated` of the extension are a record and a search in
a header. `MemoryNonces` keeps what was issued and never presented for ever; there is
no eviction to check. The Python wrappers that convert arguments and call the
library (`verify_receipt`, `generate_key`) add no step. `is_default` for numbers and
enumerations is used by no field of the schema. Wording of details and errors is
left out. The generated card schema, interop tests, scripts and the vector generators
carry no logic of the library.

## Plan

1. Holders: agents that hold keys and segments and build chains step by step,
   with splicing of each other's segments, under `verify_chain`.
2. Receipts of the engine's decisions, in the order they reach the log.
