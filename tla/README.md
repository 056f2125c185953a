# Verification of the commerce protocol

TLA+ models of the code of this repository, the runs that model-check them with
TLC, and theorems about them that TLAPS checks. Paths below are relative to the
repository; modules and configurations are in this directory.

    tlc -workers 2 -config MCHostedFlow.cfg MCHostedFlow.tla     # check a run
    tlapm HostedFlowProofs.tla                                   # check proofs

`PROJECT.json` maps every definition to the lines it is translated from, lists
the runs, the altered definitions each property is known to notice, the hazards
of the code with the properties that cover them, and the theorems.

## 1. The system

| Part | Source | State | Operations | Model |
|---|---|---|---|---|
| Transition registry | `spec/commerce.json`, `reference/transition-registry.mjs` | none: edge tables by machine, delivery mode and authorization profile | look up an edge, or throw `ILLEGAL_STATE_TRANSITION` | `TransitionRegistry` |
| Hosted reference flow | `reference/index.mjs`, `proof-binding.mjs`, `validation.mjs`, `constants.mjs` | listing, invocation (commercial projection), payment intent (funding projection), content escrow, effect counters, idempotency records, journal, observations | eight request types, run in a loop: replay, refuse, time out or commit | `HostedFlow` |
| Conformance runner, acceptance | `tools/conformance/runner.mjs` | none: a verdict on a final state | accept or reject what an adapter reports | `ConformanceRunner` |
| Conformance runner, adapter process | `tools/conformance/runner.mjs` | promise settled or not, buffers, timer, report | spawn, timer, error, data, close, next vector | `ConformanceSuite` |
| Cross-language runner, adapter process | `tools/conformance/cross-runner.mjs` | notes (timed out, oversized, not started), temporary directory, report | make directory, spawn, timer, error, data, close, remove directory, next vector | `CrossConformance` |
| Trust snapshot, consumer | `reference/issuer/trust-snapshot.mjs` | last accepted coordinate (version, digest), handed back by the caller | judge a snapshot in a fixed order of stages | `TrustSnapshot` |
| Trust snapshot, publisher | same | none | answer an HTTP request | not modelled |
| Cross-language runner, coordinates | `cross-runner.mjs`, `cross-manifest.mjs`, `cross-cli.mjs` | digests, expected projections, the extracted tree | look at a file, take its digest, extract, reproduce, load, compare, invoke, print | `CrossInputs`, `SourceBundle` |
| Vectors of the hosted flow | `vectors/hosted-phase0.mjs` | none: 53 scenarios with expectations computed by rules of their own | replay a vector | `HostedVectors` |
| Generator | `codegen/src/*.mjs` | the directory of generated files; per process what it has read | generate, check: read, validate, render, write, list, compare | `GeneratedTree`, `ContractSource`, `ConditionalTypes` |
| Protocol package | `packages/protocol/src/index.ts` | none | digest a statement, sign it, build a transfer authorization and its envelope | `DetachedProof`, `WalletProof` |
| Rust verifier | `packages/verifier/src/lib.rs` | registry of historical keys, built once | build the registry, verify a detached JWS or a wallet proof by the clock | `HistoricalKeys`, `LiveClock`, `DetachedProof`, `WalletProof` |
| Release verification | `tools/release/verify-release-assets.mjs` | none | one pass over a directory | not modelled |
| Command lines | `tools/conformance/cli.mjs`, `reference/adapter-cli.mjs` | none | read arguments, read stdin once | not modelled |
| Schemas, fixtures, generated artefacts | `schemas/`, `codegen/generated/` | none | declarative; the hosted vectors are a module | not modelled |

How they meet. The flow asks the registry before every change of every machine.
A runner starts an adapter process for a vector, sends it the scenario, and
judges what comes back; the reference adapter is the flow behind a pipe. The
runner's acceptance checks relate the two projections, the journal and the
observations. Consumers of trust snapshots meet the publisher through a network
that may delay, repeat, reorder and replace, and each other not at all. The
protocol package signs and the verifier judges, in another language, at another
time, after a network that recombines; they share claims and canonical bytes
only. The generator reads the contract the flow and the schemas are written
after, and shares its output directory with other runs of itself. The vectors
are what both runners put to implementations; the cross-language runner reads
them out of an archive.

What is hard in it, and what makes each part correct:

- *Hosted flow.* Requests come in any order, are retried under the same key or
  another, lose their response after the commit or time out before it, carry
  evidence of another boundary, and race a revocation. A macro makes up to five
  changes and must make all or none. Correct means: the two projections never
  disagree about money; money moves once, for staged output only, never after a
  revocation; an effect is counted once per request that has it; a proof is the
  evidence of its own boundary only; what is terminal stays; the journal is the
  complete history.
- *Runners.* Timer, error, output and close race for one result; the operating
  system reports an exit before the last output; helpers of an adapter hold its
  pipes or outlive it. Correct means: what is judged is complete, a report
  stands, adapters do not run into each other, blame is just, the run ends.
- *Snapshots.* No two consumers see the same sequence, the clock passes between
  fetching and using, and validity windows are half open. Correct means: a
  consumer walks one unbroken chain, consumers led apart never meet again, dead
  keys do not vouch, refusals that speak of the past stand.
- *Signer and verifier.* Time is in milliseconds for keys, in seconds for
  statements and for the observation; keys rotate, are revoked and may be
  registered under several names; ECDSA signatures have a second form; the
  network joins parts of different messages. Correct means: what is verified was
  signed, for this audience, role and statement, by a key inside its window; one
  signing is one proof; and everything the package builds is accepted.
- *Generator.* No lock, no transaction: runs overlap, are killed between two
  writes, and read the contract twice. Names are looked up with no check behind
  the validator, and what is undefined vanishes from JSON. Correct means: files
  come from the pinned source, a mixture never passes, a clean verdict means
  current, and the types of conditional schemas are exact.
- *Files of the cross-language runner.* Each is looked at, digested and opened
  again by path. Correct means: rows name what was used.

## 2. Modules

    TransitionRegistry <- HostedFlow <- ConformanceRunner <- MCHostedFlow
                              |   \ <- HostedExpectations  <-/
                              |
                     INSTANCE HostedPromise
    ConformanceRunner <- HostedVectors, CrossInputs, SourceBundle <- MCHostedVectors
    AdapterProcess <- ConformanceSuite, CrossConformance
                              |              |
                            INSTANCE VectorReports
    TrustSnapshot  <- MCTrustSnapshot
    GeneratedTree, ContractSource, ConditionalTypes <- MCCodegen
    LiveClock, HistoricalKeys <- DetachedProof, WalletProof <- MCVerifier
    proofs: HostedFlowProofs <- HostedBooksProofs (books, journal,
            ConformanceRunner and the refinement of HostedPromise)
            ConformanceSuiteProofs;  CrossConformanceProofs (and CrossInputs)
            SourceBundleProofs
            TrustSnapshotProofs;  GeneratorProofs (GeneratedTree, ContractSource)
            VerifierProofs (HistoricalKeys, DetachedProof, WalletProof)

**TransitionRegistry** holds the edge tables of `commerce.json` as sets of
pairs and `RegistryEdge`, the lookup. All modes and profiles are there, the
flow uses `HOSTED` and `MANDATE_PROTECTED`.

**HostedFlow** is `runValidatedScenario` with `applyMacro`. The loop tests a
request in a fixed order, so each exit of the loop is an action whose guard
says that all earlier tests were passed: `Replay`, `Conflict` (an idempotency
record exists), `RefuseRevokedListing`, `AbortRevokedListing` (a VERIFY on a
listing that is not active), `RejectProof`, `TimeOutBeforeCommit`,
`RejectIncompleteProof`, `AbortMissingIntent`, `RejectIllegal`, and one action
per macro that commits: `Verify`, `Execute`, `ExecuteFails`, `Stage`, `Settle`,
`SettleUnknown`, `Deliver`, `Ack`, `ResolveSettlement`, `RevokeUnsettled`,
`RevokeSettled`. A macro first computes its trace, the changes it would make;
`Legal` walks the trace through the registry, which is how the clone that is
thrown away on an illegal change is modelled. The two `Abort` actions are exits
by an exception the loop does not answer; `status` remembers them and nothing
happens afterwards. State corresponds field by field; `paymentIntent.state =
"ABSENT"` is `null`.

**HostedPromise** is the abstract specification: how far a call is, where the
money is, whether the listing is revoked, and no requests, keys or ledgers.
`HostedFlow!KeepsPromise` is its specification under the mapping
`PromisedStage`, `PromisedFunds`, `listing # "ACTIVE"`.

**ConformanceRunner** is the part of `validateNormalizedState` and
`validateAdapterResponse` that relates one piece of the final state to another
and the observations to the journal. `RunnerAccepts` composes it with the flow.

**HostedExpectations** states what documents say and the code does not do
(section 6).

**AdapterProcess** is the environment of both runners, the operating system and
programs of others: a child that writes, starts a helper, exits or is killed;
a helper that shares the pipes, does not, or shares them but not the process
group; a SIGKILL that is sent now and takes effect later. Output is what it
amounts to (nothing complete yet, the one expected answer, something else,
anything on stderr) and how much of it there is, up to one step over the limit.

**ConformanceSuite** is `invokeAdapter` and `runConformance`. A callback and
what it resumes run to their end, so the report of a vector and the start of
the next adapter are one step (`Settle`). Callbacks of earlier vectors may
still come; `InFlight` is the flag `settled`. Nothing handles a failed write of
the request: `OnInputError` ends the runner.

**CrossConformance** is `spawnCaptured`, `invokeAdapter` and the loop of
`runCrossConformance`. Timer and output limit note and kill the group; only the
close settles; making and removing the directory are awaited, which is where
other events come in, and may fail.

**VectorReports** is the abstract specification of both: what a runner promises
of starts and reports, and no processes, pipes, timers or directories. Each
runner's `KeepsTurns` is its specification with `started` as the vectors whose
child is not `"none"` and `ended` as the runner's last state. For the plain
runner no report does without an adapter; for the other an `ERROR` does
(`Excuses`), when the directory could not be made.

**TrustSnapshot** is `validateTrustSnapshot`: `Stages` is the sequence of its
checks, `Verdict` the answer of the first that does not pass, `Accept` a
judgement that is accepted and whose coordinate is kept, `Tick` the clock of
the callers. A refusal changes nothing and is a stutter.

**HostedVectors** is `hosted-phase0.mjs`: the scenarios and, next to the flow,
the rules that predict their answers, final state, evidence, effects and
journal. `Play` drives the flow's own actions with the next request of a vector;
`EvaluateVector` is the comparison of `runner.mjs`. The lists of owners of
`cross-manifest.mjs` and `validateOwnership` are here too.

**CrossInputs** is `runCrossConformance` up to and around its loop.
`Verification` is the order of its steps, and there is one action per kind of
step; `ChangeFile` is anybody else. `Invoke` stands for a whole invocation of
`CrossConformance`.

**SourceBundle** is `verifySourceBundle` as a recursive function on a sequence
of blocks (`PassFrom`), next to a definition of what a bundle is: a list of files
written one after the other (`WrittenFrom`). `BundleSpec` hands it archives, any
of any length up to the bound.

**GeneratedTree** is `cli.mjs` and `generator.mjs` with the reads of
`source.mjs`: processes with a program counter per file-system call, one action
per call, over one output directory, with editors, kills and strangers outside.

**ContractSource** is `validateProtocolSource`, `validateNarrative` and
`buildContractIr`; **ConditionalTypes** is the part of `render.mjs` that turns
conditions of a schema into TypeScript, next to the rules of JSON Schema. A type
is the set of values it admits. Both are functions of what a run has read, the
variable `subject`.

**LiveClock**, **HistoricalKeys**, **DetachedProof** and **WalletProof** are the
protocol package as signer and the Rust crate as verifier. The registry is built
entry by entry (`new`, `from_jwks`). Both verifications are a sequence of stages
in the order of the code, each a conjunction; the network delivers any
combination of what was signed (`DeliverJws`, `DeliverWallet`).

`MC*` modules and `.cfg` files give the constants values. `MCHostedVectors`,
`MCCodegen` and `MCVerifier` hold independent machines side by side; a behaviour
is about one of them.

### Abstractions

- A digest is the name of what it digests; two preimages never share one
  (`DigestAssumption` for snapshots). Signatures are valid, invalid or
  malformed. Canonical encoding is not modelled.
- Requests are those scenario validation lets through. Its limit of 32 actions
  is dropped: scenarios are of any length.
- Checks of shape are abstracted to the code of the first that fails.
- Consumers of snapshots share a clock that does not go back, and store a
  coordinate before they judge again; both are up to the callers of the code.
- How much of its request an adapter reads is left out; a failed write may come
  whenever the reader may be gone. The expected answer is one value.
- The cross runner's reports are PASS, FAIL or ERROR; which harness error it
  was is kept until the directory is removed (`outcome`).
- In `CrossInputs` a file is read in one go, a symbolic link is as absent, and
  removing the runner's own temporary tree succeeds. The adapter is one file, as
  the command line has it; a caller of the function may name another executable
  and arguments, and then only the file it calls the coordinate is digested.
- In `SourceBundle` a header is one the code takes or it is not; contents are
  measured in half blocks.
- In `GeneratedTree` a document is one of a few contents and a rendered file is
  the record of what it was rendered from.
- In `DetachedProof` and `WalletProof` a digest is its preimage, a key is its
  fingerprint, a signature `(r, s)` names its signing by `r`. Canonical JSON,
  base64url, hex and the lexical form of identifiers, times and decimals are
  left out. What claims say besides the transfer, its time and its parties is
  one member, `terms`.

## 3. Runs

| Run | What it shows | Bounds |
|---|---|---|
| `hosted_flow` | 9 invariants and the refinement of the promise under every order of 31 requests | section below |
| `hosted_vectors` | the flow answers the 53 vectors as their own rules predict, and the owners' lists partition them; rows of the cross-language runner name their inputs; a bundle is accepted exactly if it is one | the vectors in full; 6 files, 2 vectors, 2 changes, any one file wrong from the start; every archive of up to 5 blocks |
| `trust_snapshot` | chain, fork consistency, proven accusations, dead keys, cache bounds | 2 consumers, 18 snapshots, instants 0..6 |
| `conformance_suite` | judged output is final, stragglers are doomed, turns are kept, the suite ends with its reports | 2 vectors, limit 1, all kinds of helpers |
| `cross_conformance` | blame is just, adapters are isolated, the runner never waits for nothing, termination reaches the group, every vector is reported | 2 vectors, limit 1, all kinds of helpers |
| `codegen` | files come from the pinned source, mixtures are reported, clean means current, generate repairs; the representation is complete, the types are exact | section below |
| `verifier` | what is verified was signed, once, in its window; what is built is verified; transfers are authorized | section below |
| five violation runs | section 6 | those of their modules |

*hosted_flow.* Eight boundaries, a second key for the three whose repetition
matters (VERIFY, EXECUTE, SETTLE), both timeouts on VERIFY, SETTLE and
REVOKE_LISTING, evidence altered alone, taken from another boundary or altered
in lockstep with its claims, another fingerprint, a key taken from another
boundary, seller failures, unknown settlements with and without their evidence,
and the three mutations of a macro. One scenario may use them in any order and
any number of times; it converges because each key commits once. Every exit of
the loop and every macro is reached.

*trust_snapshot.* Version numbers 1 to 3 suffice for gap, rollback, replay,
fork at the first and at the second version and for a snapshot that names its
grandparent. Two consumers are needed for a fork, one has its own bound. Six
instants reach each end of every window: generation, age, expiry, root and
signing keys, revocation.

*conformance_suite, cross_conformance.* Two vectors are enough for a late event
of one to meet the next; a third would meet the second in the same way. A limit
of one step tells apart nothing, an answer, and too much. One helper per
adapter: what helpers can do to a runner is hold pipes, and one holds them.

*hosted_vectors.* Two vectors are enough for an adapter that is rebuilt between
them, two changes for one that is changed and changed back around a digest. Five
blocks hold a file whose content looks like a header or like the end, a second
file and the end; sizes run over no, half, one, and one and a half blocks.

*codegen.* Two processes, two artefacts (the report and one other), four
contracts (the accepted one, another of its version, one the validator refuses,
one of another version) and a rival beside it, two contents of each other source,
a stray entry. Two changes from outside, kills included; after
the second, runs no longer overlap (`Bound`). The directory is touched by a
stranger at most once and never in a file a process has open. Beside the tree,
contracts with up to two departures out of 18 kinds from a valid one, and
schemas with up to two of twelve condition shapes (those of
`commerce-0.1.schema.json` and their near neighbours), four sets of required
fields and `oneOf`. A matrix has at most 6 branches instead of 128, so that the
fall-back is reached.

*verifier.* Two ticks in a second, so that windows end between seconds; clock
0..5; group orders 5 (P-256) and 3 (secp256k1), the least with a low and a high
half; nine lists of keys and eighteen imports with rotation, revocation, aliases,
a second role and each way to be refused; five requests, up to two signed and up
to two verified; envelopes that differ from a signed one in at most two members;
one wallet signing, one receipt, up to two proofs. `Separate`: statements and
wallets share only the clock and are never mixed, and the registry is there
before anything is signed.

Deadlock is checked in `hosted_vectors` and `codegen`. Elsewhere the system may
stop: a scenario ends, clocks are bounded, runners finish.

### Fairness

None for the flow, the consumers, the generator, the verifier and the files of
the cross-language runner: a scenario may stop anywhere, nobody has to fetch a
snapshot or sign, and a process may be killed. `ConformanceSuite` assumes that the runner starts and
that timers expire, nothing of adapters, not even that they die. For
`CrossConformance` the event loop handles the events that are there, timers
expire, file operations end, and a SIGKILL that was sent ends its process; an
adapter need not write, answer or exit. Under this `EveryVectorIsReported`
needs its exception, a helper outside the group that holds the pipes for ever.

## 4. Properties

Each is stated with its meaning in its module. Those a reader should look at
first:

- `SettlementFinality`, `ChargedOnlyForStagedOutput`, `EvidenceIsStateClosed`,
  `DoubtIsEvidenced`: what the two projections hold, together, in every state.
- `EffectsAreRecorded`: effects and idempotency records count the same, so a
  request whose response was lost is neither repeated nor forgotten.
- `JournalExplainsState`: the journal is a legal, gapless history of all three
  machines that ends in their states.
- `ForkConsistency`: two consumers that share a coordinate share the past.
- `NoSilentMix`: of two runs that wrote into each other's tree, one says so.
- `Provenance`: with its exception, an edit between the two looks a run takes at
  the contract (`raced`), which pins one text and renders another. Even then the
  contract is valid, of the accepted version, and rendered with the accepted
  schema.
- `SuiteEnds`: with its exception, the failed write of a request nobody reads any
  more, which the code does not handle.
- `CleanMeansCurrent`: the verdict of a run nobody disturbed, in both directions.
- `SubjectIrIsComplete`, `SubjectTypeIsExact`: nothing the validator lets through
  vanishes from the artefacts, no condition is lost or reversed in a type.
- `OneMeaningPerSigning`: one signing is verified in one envelope, for one
  audience, role and statement, whatever is recombined and whoever registers a
  key twice.
- `WithinKeyWindow`, by the true time, although the verifier sees whole seconds,
  and `SignedIsVerified`, the other direction.
- `ReferencePasses`: two independent accounts of the protocol, the rules of the
  vectors and the flow, agree in every answer and in all that is left at the end.
- `RowsNameTheirInputs`: what a report is worth when files are changed meanwhile:
  the reference records are right in any case, the projections, the adapter and
  the runner's own digest if they were left alone.
- `JudgedOutputIsFinal`: behind a PASS stands finished output.
- `KeepsTurns`: late events of an earlier adapter neither rewrite its report nor
  start a second adapter, and no vector is skipped or reported out of its turn.
- `BlameIsJust`: although the runner's own SIGKILL makes every adapter it gave
  up look killed.

Some properties of the flow and the snapshots follow from proofs and from other
properties closely enough that no run checks them any more: `TerminalIsFinal`,
`KeysAreBoundOnce`, `RevokedListingNeverCharges`, `TimeoutsAreUnambiguous`,
`VersionsNeverGoBack`, `RefusalsAreFinal`. They are proved (section 5). So are, of
the runners, `TimerRuns` and `GivenUpIsDoomed`, which with `SomethingComes` are
the part of their liveness that needs no fairness, and `KeepsTurns` of the
cross-language runner.

## 5. Proofs

For every value of the constants that meets the named assumptions: any keys,
fingerprints and valid requests; any consumers, snapshots, trust root, bounds.

**Flow.** `LedgerInvariance` proves the inductive `LedgerInv`. None of the
safety properties is inductive alone: whether money may move depends on the
states of both machines, and those are tied only through the changes that
produced them. `LedgerInv` says, per pair of states, which pairs can occur
(`StatesAgree`), what the listing allows (`ListingAgrees`), and which evidence,
effects and escrow flags each pair has (`EvidenceAgrees`). One lemma per
committing action shows that it is kept; `HostedSources`, `MandateSources` and
the `Legal...` lemmas turn the registry's tables into the states a legal trace
may start from; every refusing action leaves the ledger alone. The
invariants about it are read off. `TypeCorrect` adds the shapes of the books
(`BooksTyped`). The action properties use which requests move anything
(`OnlyMovesMove`) and that every step is one of five answers (`FiveAnswers`).
`ExactlyOnce` counts: a commit under a fresh key adds one record to exactly the
sets whose effect it counts. `JournalIsComplete` has an invariant that can be
carried over one change (`Tells`): the journal is explained so far and tells these
three states. `Appended` adds a change that starts where its machine stands, and
each macro's trace is added change by change from the states the ledger allows it
to start in; that every machine changed at all was changed last somewhere
(`LastsExist`) is part of the invariant, which spares an induction over the
journal. `ReferenceIsAccepted` shows that the runner's
relations follow from the ledger. `FlowKeepsPromise` maps initial states and
every step to a step or a stutter of the promise.

**Snapshots.** `HistoriesAreChains` is inductive with the types; a lemma says
what an acceptance means for the link to the predecessor. `ForksNeverMeet`
needs it: two histories with a common coordinate have a common predecessor by
`DigestAssumption`, and so on down. `AccusationsProven` needs that every kept
coordinate is pinned or signed by the root. `RefusalsStand` finds what a final
refusal leaves behind for good: the snapshot is `TooOld`, which time does not
mend, or `OffChain` of a coordinate that only moves forward along the chain;
`Lost` is kept by every step and excludes acceptance.

**Runners.** For any number of vectors, any output limit and any kinds of helper.
`SuiteInv` adds to the properties of the plain runner that vectors go in their
order, each after the report of the one before (`InOrder`); one lemma says what
every callback that settles an invocation has to show. `CrossInv` adds what the
cross-language runner knows at which phase (`PhaseAgrees`), that nothing is known
of a vector before its process (`NotBegun`), and that what was done to an adapter
is noted (`NotesAgree`): without the last, `BlameIsJust` would break at the close,
where signal, timer and limit are told apart by notes alone.
`SuiteKeepsTurns` and `CrossKeepsTurns` map every step of a runner to a start, a
report, both, breaking off, or a stutter of `VectorReports`; that it is the turn
of the vector in flight (`InOrder`, and `TurnsAgree` of the cross-language runner)
is what the mapping needs of the invariants. The safety half of liveness is
`TimerAlwaysRuns`, `GivenUpIsAlwaysDoomed` and `SomethingAlwaysComes`: a runner
never waits for nothing. `WaitInv` carries it for the cross-language runner. The
signal that ends an adapter goes to everybody who is in its group at that instant,
and a process that has a SIGKILL under way starts nobody.
`RowsNameInputs` follows the eighteen steps of the command. `InputsInv` says
after which step a file has been named (`NamedBy`), that a name is of what is in
the file until somebody changes it, and what later steps were given. It is proved
for `InputsSpec`, the files and the command alone; in the run they stand beside
the vectors.

**Generator.** `ProvenanceHolds` for any processes, documents, artefacts and
number of edits: `SourceInv` says what a process that is at a given step can have
read, as far as nothing changed between its two looks, and what the pin and the
validator saw of it in any case. `NoSilentMixHolds` rests
on `MixInv`: while the tree is a mixture and no stranger touched it, some process
is still at work in it or has answered with drift; the lemma about listing shows
that whoever compares last sees the mixture, and the one about reading that a new
run takes over the duty. `CleanIsCurrent` and `GenerateAlwaysRepairs` rest on
what a run nobody disturbed may rely on: what it has read is still on the disk
(`Known`), so its build is `CurrentBuild`; and in the tree (`Found`) the files it
has passed are its own while it writes, and its `drift` says exactly what it has
seen while it compares. The step of any other process leaves both alone or
disturbs the run (`OthersLeave`).
`AcceptedIrIsComplete` and `AcceptedNarrativeIsShown` are about `ContractSource`
alone, for all contracts, schemas and overlays; `SubjectIrIsAlwaysComplete` says it
of whatever a run may have read, of which the run tries some hundreds.

**Source bundles.** `BundlesAreAlwaysExact`, for any names, sizes and number of
blocks. The pass and the written bundle are recursive functions, so that what
they are at a block is first shown to be what their bodies say there: a function
that meets the equation exists by induction over how many blocks are left. The
library's induction theorems cannot be instantiated; `Downward` is proved by the
least counterexample counted from the end instead, once, for sets of numbers.
`AcceptedIsBundle` carries along the pass, from the end, that what is left is
files followed by zero blocks; `BundleIsAccepted` that from the header of the i-th
file on the pass reads the names from the i-th on, whatever the contents look
like.

**Signer and verifier.** `JwsInv` joins the registry (`KeysInv`), what was signed
and what was verified. `RegistryStaysUnambiguous`: no name and no key twice,
whatever is loaded. `VerifiedWasSignedHolds` and `WithinKeyWindowHolds` follow
one verification through its stages; the latter needs that the observed second
is at most one second behind (`ObservationIsClose`) and that no whole second lies
between (`SecondsAreObserved`), for any number of ticks in a second.
`SignedIsVerifiedHolds` holds for any odd group order, by `NormalizedIsLow`.
`OneMeaningPerSigningHolds` needs two facts more. A digest frame can be read back
(`FramesAreExact`): no component holds the NUL that separates them, so equal
frames are of equal statements. And an envelope that is accepted is, whatever was
done to it on the way, the signer's own (`VerifiedNowIsAsSigned`): the protected
header and digest are signed, and the one other form of a signature is not low.
The wallet theorems are about `WalletSpec`, wallets and their verifier alone.
`WalletInv` says that signatures were made by wallets over digests of typed data
(`Signed`), each point `r` for one signature and its mirror (`SignedOnce`), and that claims and
signature determine everything else of what is proven (`Determined`).

**What is assumed.** Of keys, requests and snapshots: their types. Of the outside
world: snapshots of one digest have one version and predecessor (`DigestAssumption`); a public key
recovered where nobody signed is no party's (`PartyAssumption`), and a wallet uses
the random point `r` of a signature for one digest only (guard of `WalletSigns`);
an odd group order (`OrderAssumption`). The others name what tells values apart,
such as that `Null` is no time. TLC evaluates each on the instance of its run.

**Only model-checked.**
- Liveness (`SuiteEnds`, `TerminationReachesGroup`, `EveryVectorIsReported`): the
  prover does not reason about fairness and enabledness. What they rest on in
  every state is proved (Runners).
- `ReferencePasses`, `EveryVectorIsOwned`: the 53 vectors are
  fixed data and the module has no parameter, so TLC's run is exhaustive.
- `SubjectTypeIsExact`: the types are built by `RECURSIVE` operators over nested
  schemas, which the prover cannot take, and it is not true of every schema
  (section 6, clauses that forbid fields). It is compared with the rules of JSON
  Schema over the condition shapes that occur.

## 6. Where documents and code disagree

Each has a run that finds the behaviour.

- `UnknownEndsByReconciliation`: `spec/state-machines.md:89-91` lets an unknown
  settlement end by reconciliation only; a revocation (`index.mjs:231`) or late
  seller failure fails the invocation and leaves the intent in doubt for good.
- `ExecutionIsAuthorized`: `reference/README.md:25-28` gives the sequence and
  calls each step state-guarded; a seller failure is committed as an execution
  before any authorization and after staging (`index.mjs:161`).
- `EveryRequestIsAnswered`: `spec/commerce-0.1.md:421-422` has illegal
  transitions rejected; two requests end the scenario by an exception
  (`index.mjs:288`, `:215`).
- `RevocationTakesEffect`: `spec/state-machines.md:10-11`; a revocation is
  refused once the invocation has failed (`index.mjs:232`).
- `FailureEndsGroup`: `tools/conformance/cross-README.md:100-102` has signal
  and process failure terminate the process group; only timer and output limit
  do (`cross-runner.mjs:136`).

Facts met while modelling that no run states as a violation:

- An adapter that is gone before it has read its request may end the plain runner:
  the write fails and `child.stdin` has no error handler (`runner.mjs:327`; the
  cross-language runner has one, `cross-runner.mjs:135`). No document promises
  otherwise; `SuiteEnds` carries it as its exception.
- The cross-language runner waits for those who hold the pipes only: a helper
  without them may outlive an adapter that answered (`cross-runner.mjs:136`).
- A file replaced between its digest and its use goes unnoticed by the
  cross-language runner (`cross-runner.mjs:521`).
- A helper that holds the pipes outside the process group keeps the
  cross-language runner waiting for ever, although `cross-README.md:100-102` has
  a timeout become a harness failure; `EveryVectorIsReported` carries it as its
  exception.
- `codegen/README.md:51-52` says that `codegen-report.json` holds the drift state
  after the generation; the file is rendered before the comparison and always
  says that there is none (`generator.mjs:10-21`).
- The contract is read twice (`source.mjs:34`, `:42-49`), and the generator's
  hash is of its files on disk, not of the code at work.
- `validate.mjs` uses `contract.stateMachines` before it checks that it is an
  object; a list of error codes with repetitions passes the comparison with the
  schema's. A clause that forbids fields on two or more required ones
  restricts more than it says (`render.mjs:256-258`); no schema has one.
- An observation is cut to whole seconds, so a key that ends inside a second
  vouches up to the next. The documents say so.
- The registry puts no constraint between `revokedAt` and the window; trust
  snapshots do.
- Terms beside the transfer are bound to a wallet's signature only through the
  fingerprint that is its nonce, so claims with other terms for the same transfer
  verify if the caller supplies their digest (`lib.rs:686-692`).
- A source bundle of no files is accepted.
- `runner.mjs:303`: output over the limit kills the adapter, but one that exits
  before the signal arrives is still judged.

## 7. Not modelled, and the plan

Not modelled because nothing of it outlives one pass over its input: the
publisher's HTTP handler, verification of release assets, the command lines of
the plain runner and the reference adapter, schemas and their binding tests. Out
of a model checker's reach: the parser of the generator and the layout of what it
renders, canonical JSON and the lexical form of values. `cli-skeleton.mjs`, a
third of the implementation's lines, is generated data: what matters of it is the
tree machine and the types.

What is left: the publisher of trust snapshots with conditional requests and
caches between it and the consumers, and release assets.
