# PayClear in TLA+

PayClear is a compliance layer for stablecoin payments on Solana: an Anchor
program that holds KYC attestations, trust networks, policies, travel rule
records and transfers, and an API server that keeps the personal data, calls
screening providers and submits transactions. This directory specifies the
system in TLA+, checks small instances with TLC and proves the main safety
properties with TLAPS for every instance.

## Inventory

| Component | State | Operations | Interacts with | Hard behaviours | What makes it correct |
|---|---|---|---|---|---|
| Registry, institutions, attestations (`program/.../instructions/*attestation*.rs`) | singleton registry, one PDA per institution, one attestation per (institution, wallet) | initialise, register, create, revoke, rescore | trust networks, proofs and transfers read attestations | expiry against a moving clock, reissue, counters | types, who may bring a revoked attestation back, counters |
| Trust networks (`manage_trust_network.rs`, `accept_external_attestation.rs`) | a list of at most 32 institutions and terms | add, remove (swap_remove), accept | copies attestations between institutions | cycles and chains of acceptances | no circular provenance, a copy never improves on its source |
| ZK proof records (`record_zk_proof.rs`, `verify_zk_attestation.rs`) | one record per (institution, wallet, proof) | record, verify | overwrites attestations | replay after revocation | only an unexpired proof of that wallet |
| Policies, travel rule, direct transfers (`execute_compliant_transfer.rs` and others) | policies, travel rule records, transfer records, events | set policy, record, approve, execute | attestations, token program | replaced policy between approval and execution, resubmitted nonce | tokens move only through the gate, agreed terms, one settlement for a nonce |
| Transfer hooks (`transfer_hook.rs`, `civic_transfer_hook.rs`, `initialize_civic_hook.rs`) | account list of a mint | set up, hook | Token-2022 | accounts resolved by index | not modelled but for the two set-up calls |
| Transfer submission and oracle (`transfer.service.ts`, `routes/compliance.ts`) | transfer and travel rule rows | submit, attest | screening, chain, audit | timeouts after landing, crash between steps, concurrent attestations | rows agree with the chain, answers stay true |
| Key manager (`utils/key-manager.ts`, `utils/encryption.ts`) | master key, cache of keys, TTL timers, encrypted columns | getDek, create, evict, encrypt, decrypt | entities, institutions | concurrent misses, zeroed buffers, restarts | live keys only in the cache, rows under one key, an API key only with an encryption key |
| Entities, reviews, alerts, trust mirror (`entity.service.ts`, `sumsub/`, `risk.service.ts`, `trust.service.ts`) | entity rows, trust rows, applicants, SAS accounts | create, update, verify, review, alert, attest, accept | Sumsub, Chainalysis, SAS | redelivered results, loops that break off, status read before an await | no accidental reactivation, every result takes effect, copies lead back to an own entity |
| Screening (`chainalysis/client.ts`, `risk.service.ts`) | one request's attempts, polls, results | request, poll, map score, save | Chainalysis, audit | retried registration, assessment after the deadline, missing score | bounded attempts, cleared against a rating only when it is late |
| Public KYC and KYT endpoints (`routes/compliance.ts`, `kyc.service.ts`, `kyt.service.ts`) | audit events | verify, score | Sumsub, RPC node | the chain changes between two look-ups, failing calls | answers are logged and bounded |
| Reclaim proofs (`reclaim/`, `routes/reclaim.ts`) | stored proofs | verify, store, log | audit | one proof sent twice at a time, two clocks in one proof | recorded once, valid when stored |
| Audit and webhooks (`audit.service.ts`, `webhook.service.ts`) | audit rows, queue, delivery rows | log, dispatch, deliver, retry | Redis, subscribers | at-least-once, lost dispatch, crash in an attempt, deletion meanwhile | every call on record, queued jobs settle |
| Merkle disclosure (`merkle-bridge.ts`, SDK `merkle.ts`, `kyc-fields.ts`) | root in the entity row, hash on chain | build, prove, verify | entities, SDK | odd levels, level changed after creation, two hash schemes | a proof verifies for what it discloses only |
| Canonical JSON (`canonical.ts` of API and SDK) | none | serialise, hash | disclosure, travel rule | key order at every depth, undefined, dates | equal hashes for equal content only |
| SDK client (`client.ts`, `accounts/pda.ts`) | none; transactions under way | one method per instruction | program | lost confirmation, late execution, retry | once under its key |
| Web, request schemas, migrations, configuration | none of their own | | | | not modelled |

The hazards of each part are listed at their lines in `PROJECT.json`.

## Modules

```
AttestationRegistry ----------- MC_AttestationRegistry
   ^          ^--- AttestationRegistry_proofs
   |                         ^
CompliantTransfers <--- CompliantTransfers_proofs
   |          ^--- MC_CompliantTransfers
   '-- Settlements == INSTANCE TransferSettlement WITH ...

TransferSubmission <--- TransferSubmission_proofs

KeyManager <--- MC_KeyManager, KeyManager_proofs
EntityLifecycle <--- MC_EntityLifecycle, EntityLifecycle_proofs

Screening, ReclaimProofs, ComplianceApi, WebhookDelivery <--- MC_Services
WebhookDelivery <--- WebhookDelivery_proofs
   '-- Channel == INSTANCE NotificationChannel WITH ...
                              ^
              MC_Services <--- Services_proofs
OrderedNames <--- CanonicalJson, SelectiveDisclosure
CanonicalJson, SelectiveDisclosure, SdkClient <--- MC_KycData <--- KycData_proofs
```

* `AttestationRegistry` is the identity half of the program. An account is an
  entry of a function whose arguments are the seeds of its address
  (`attestations[i][w]` is the PDA of `["kyc", i, w]`), `None` an account that
  does not exist. One instruction is one action with the name of its handler:
  a transaction holds write locks on its accounts and is rolled back whole when
  it fails, so no other granularity is observable. Account constraints are the
  first conjuncts, `require!`s follow in the order of the handler, then the
  writes. `init` is a guard that the account is `None`; `init_if_needed` is the
  absence of that guard. `checked_add` is a guard against `U64Max`.
* `CompliantTransfers` adds policies, travel rule records and
  `execute_compliant_transfer`, which checks the attestations of the other half
  and calls the token program. The token program is represented by the balances
  and `transfer_checked` (`MoveTokens`); each wallet has one token account of each
  mint. The receiving token account may belong to a wallet other than
  `receiver_wallet` (`payee`), because the code compares only its mint.
* `TransferSettlement` is what the program promises, without accounts or
  attestations: an offer for a nonce is made once, agreed to once, settled once,
  and a settlement the travel rule applies to settles the agreed terms.
  `CompliantTransfers` maps travel rule records to offers, their approval to
  agreement and emitted events to settlements.
* `TransferSubmission` is the API server: `submitTransfer`, `packageTravelRule`
  and the oracle's `attestCompliance`. A call is a program counter (`call[t]`,
  `attest[o]`) and its step is the code between two awaits, since that is what
  Node runs without interruption. A transfer is named by the nonce its call
  draws; the row of `transfers`, the row of `travel_rule_data` and the call with
  that nonce are `rows[t]`, `travelRules[t]` and `call[t]`. A write either
  returns or takes place and throws (`Written`), and every await may throw without
  having done anything (`StepFails`); where an exception goes is `CaughtBy`, the
  two `try` blocks of the handler. Ordinary audit writes are a table
  (`AuditTrail`) of the step, the event and what follows it. The transaction is
  outside the server: once sent it lands or is dropped (`Resolve`) at any moment,
  also after the server has given up on it or has stopped (`Crash`).
  What landing does is `ExecuteCompliantTransfer` of the other half; the two are
  not composed, because the accounts the server names (its own key as sender,
  wallets as token accounts) leave nothing to say of when it succeeds.
* `KeyManager` is the envelope encryption of personal data. A key is a Node
  `Buffer`, and the fault this code is exposed to is about sharing one, so a buffer
  has a name (the call that made it) and a content (an institution's key, or zeroes).
  `getDek` and the use of its result are two steps: the caller resumes in a microtask
  of its own, and when two responses of Postgres come in one packet the other fill
  runs in between. Timers and the end of the process are macrotasks and cannot
  (`NobodyUsing`).
* `EntityLifecycle` is the row of a wallet under an institution, and everyone who
  writes it: the institution's calls, Sumsub's reviews with the attestation at SAS,
  Chainalysis' alerts, and acceptance along the off-chain trust network, whose rows
  it also holds. A review, an alert and a slow request are records with a step;
  each await can throw, a delivery answered 500 comes again, and since every
  handler can fail at every await, the end of the server is the failure of all of them.
  The review's entity is found by wallet alone (`Matching`), as in the code: it may be
  another institution's row than the one the applicant was created for.
* `Screening` is the Chainalysis client's retry loop and the polling above it, for
  transfers and wallets; `TransferSubmission` takes all of it as one step (`Assess`).
  Scores are in tenths of a point, and the missing score is `NaN`, as
  `undefined * 10` is.
* `ReclaimProofs` is `POST /v1/proofs/verify`: look up, verify, store, log, by
  requests that may carry the same proof. `ComplianceApi` is the public KYC and KYT
  endpoints, with the institution their audit events are written under.
* `WebhookDelivery` is the way of an audit event to a receiver: stored, dispatched
  by a promise nobody awaits, queued, tried and tried again by the worker. The
  queue outlives the server, the dispatch does not (`Crash`).
* `NotificationChannel` is what that amounts to for a receiver, at least once and not too
  often: a notice is taken up once, its receiver called a bounded number of times while it
  is pending, and then it is delivered, which some call's success comes before, or
  abandoned, for good. `WebhookDelivery` maps a job to a notice (`NoticeOf`), requests
  that arrived to calls and answers 2xx to `acknowledged`.
* `CanonicalJson` serialises a value into the tree its text parses into, for objects
  that two sides build in different orders; arrays and objects nested in these are
  serialised by the same rules, sorted and without the values JSON has no word for, as
  in the recursive `_serialize` (`Serialize`, `ObjectText`). A digest is its preimage, so that
  it is equal exactly for equal inputs. `OrderedNames` is the sorting of names, by going through
  all names in order. `SelectiveDisclosure` builds the Merkle tree on
  such digests, for rows whose level changes, and also has the hash that the SDK
  writes on chain. `SdkClient` has one operator for each method that sends an
  instruction: the accounts it needs and the one it initialises, by their seeds; a
  caller may call again after an error while the first transaction is still under way.
* The `_proofs` modules hold the theorems, the `MC_` modules the instances;
  `TransferSubmission` needs no MC module, its constants are sets of model values.

Data abstracted: `kyc_hash` is the institution whose data (or proof) was hashed;
hashes of travel rule payloads, VASP codes, bumps and timestamps nobody reads are
left out. Statuses no instruction writes (suspended, rejected, settled) stay in
the types. No instruction sets `paused` or clears `active`, so the two guards are
there and never fail after creation.

## Runs

All runs finish in under five minutes. Institutions, wallets, nonces, calls and the
like are symmetric where the instance allows it; symmetry is used only in runs
whose properties are invariants, action properties or `ImplementsSettlement`, never liveness.

| Run | Instance | What it shows |
|---|---|---|
| `portability` | 3 institutions, 1 wallet, 2 jurisdictions, 2 trust terms, networks of 2, clock to 2 | `ProvenanceWellFounded`, `AcceptanceAddsNothing` through acceptance chains and mutual trust; `TrustNetworkSound` through every order of additions and swap-removals |
| `reissue` | 2 institutions, 2 keys, 1 proof id, 3 proof grants, clock to 3, scores 100 and 101, a grant with score 130 | `TypeOK`, `ValidityRegainedOnlyByProof` |
| `travel_rule` | 2 nonces, 2 wallets, 2 policies to switch between | `TransferTypeOK`, `RequiredTransfersBacked`, `TracesAgree`, `ImplementsSettlement` |
| `gate` | 2 institutions under one authority key, 2 wallets, expiring grants, rescoring above the policy's maximum | `CountersCoverAccounts`, `TokensLeaveOnlyThroughTheGate` |
| `submission` | 1 transfer, 2 oracle calls, any failure at any await, a crash at any moment | `SubmissionTypeOK`, `CompletedHasEvidence`, `AnswersHold`, `PendingIsResolved` |
| `keys` | 2 institutions, 1 wallet, 4 calls, 2 columns, 2 master keys | `ApiKeyImpliesDek`, `CacheHoldsTheLiveKeys`, `ZeroedInUseOnlyByOverlap`, `RowsUnderOneKey` |
| `entities` | 2 institutions, 2 wallets, 1 review, 1 severe alert, 1 slow request, 1 failed delivery | `CopiesShareTheHash`, `OriginsWellFounded`, `AttestedOnApproval`, `ReactivatedOnPurpose`, `ReviewIsApplied`, `SevereAlertRevokesAll` |
| `services` | 1 transfer and 1 wallet screening with one retry, two polls and 2 failures; 1 proof of 24 contents sent by 2 requests; 1 public call; 2 webhooks, 1 notified event, 2 attempts, 1 fault | `ServicesTypeOK`, `ClearedAgainstVerdictOnlyLate`, `ScreeningEnds`, `RecordedOnce`, `StoredProofsWereValid`, `PublicAnswersHold`, `DeletedIsNeverCalled`, `CallsAreRecorded`, `ImplementsChannel` |
| `kyc_data` | 2 objects, 3 keys, 13 values nested two deep of which 6 are assigned, 4 edits; 2 institutions, 2 wallets, trees of 3, 5 and 7 leaves, 2 changes of level; 2 callers, 19 requests, 2 tries | `HashNamesContent`, `ProofsVerify`, `RootsCommit`, `StoredHashHoldsAtItsLevel`, `OnceUnderItsKey`, `ReturnedIsExecuted` |
| `travel_rule_receiver`, `zeroed_key`, `proof_on_chain` | small | what the repository says and the program does not do, see below |

Why the bounds are enough to be of interest: a circular provenance needs two
institutions and an improved copy needs a chain of three; reissue needs an
attestation and a proof that expire at different times, hence three instants;
swap-removal differs from plain removal from two entries on; agreement on the
wrong nonce needs two nonces; a stale attestation at the gate needs a clock step
between grant and transfer. In `submission` one transfer is enough because calls
meet only in the rows and the chain of one nonce, and two oracle calls are the
least that both find a row unattested. `U64Max` is small so that counters reach their limit.
An overlap of keys needs two calls besides the one that created the key, and the
fourth reads the row back. A result that is undone needs the three writers that meet on
one row: a review, an alert, an institution. A job that is retried after a crash needs
two attempts. A tree of three leaves has one odd level, one of five has two, one of seven one at
the bottom: together they have every case of a node paired with itself. Of the values nested in
an object two differ in the order of their keys alone, and one in a key without a value, so that a
serialiser which sorts or omits only at the top tells apart what says the same.

Bounds in guards or constants: `U64Max`, `MaxTime`, `InitialBalance`, `MaxFailures`,
`MaxRetries` (the code's own), `MaxPolls` (the deadline), `MaxErrors`, `MaxThrows`,
`MaxCrashes`, `MaxDepth` (of arrays and objects in one another), `MaxEdits`, `MaxChanges`, `MaxTries`, and the input sets. The proofs
hold for all their values.

Some runs look at part of the state space, by conditions their MC modules name:

* `LongNetworksFirst`: networks of two while nothing is attested, of one after.
* `Focused` (`entities`): trust is not edited while a delivery is under way, an alert
  and a review meet on a single row and without a slow request, and rows of the second
  wallet exist only for the loop of an alert.
* `OneByOne` (`services`): one screening at a time; screenings share nothing but the
  bound on failures. `OneFault`: one throw or one crash of webhook delivery.
* `DisclosureFocus` (`kyc_data`): either one entity with its acceptances and proofs, or
  two entities of an institution to compare roots.
* `services` and `kyc_data` hold several components that share no state; the one that
  moves first goes on alone, so a run's states are the sum of theirs, not the product.

No liveness is stated of the on-chain program: nothing there is scheduled; every
instruction waits for a client to send it, so the code justifies no fairness.

`PendingIsResolved` of the API assumes weak fairness of `SubmitTransfer(t)`: while the
server runs, the event loop resumes a call whose await settled, and every
await of it settles, because the provider's polling, the RPC confirmation and
the database connection each end in an answer or an error. Nothing is assumed of
the client, of the chain (a transaction may stay in flight for ever), of the
oracle's calls, or of the server staying up: `Crash` ends calls for good, as
nothing in the code resumes them, and the property excuses those rows.
`CHECK_DEADLOCK FALSE` is set in this run and in the runs of the other API modules because a
finished set of calls has nothing more to do.

`ReviewIsApplied` and `SevereAlertRevokesAll` assume weak fairness of `HandleReview(r)`
and `HandleAlert(a)`: a provider delivers again what was not answered 200, and a
handler's awaits settle. Failures are finitely many (`MaxFailures`), as without that
nothing the server does could help. Nothing is assumed of institutions or of other handlers.
`ScreeningEnds` assumes weak fairness of `Proceed(s)`: the client aborts a request
that is not answered (`AbortController`), and waits are timers. `ImplementsChannel`, which has it that a notice taken up is settled,
assumes weak fairness of a job's steps and strong fairness of `StartJob(p)`: a worker of
limited concurrency is busy now and then with other jobs, but takes them in turn.

### Disagreements found

Three are runs that TLC must violate; `PROJECT.json` quotes the text.

* The travel rule check compares nonce, amount and mint, not the beneficiary
  wallet (`travel_rule_receiver`).
* `getDek` is documented to return an institution's key; of two overlapping misses
  the first gets a buffer that the second zeroes before it is used, and what is
  stored with it is lost (`zeroed_key`).
* The root of a disclosure proof is documented to match the hash on chain; the SDK
  writes a hash of canonical JSON there (`proof_on_chain`).

Others were met while modelling, and the models have the behaviour:

* `registry.attestation_count` (`registry.rs:10`, "Total KYC attestations issued") is
  never incremented.
* `original_institution` (`kyc_attestation.rs:26-27`, "the institution that originally
  performed the KYC") names an intermediary after a second acceptance
  (`accept_external_attestation.rs:155`).
* An attestation that ends "revoked" by `docs/architecture.md:44` is set active again by
  `verify_zk_attestation.rs:73`.
* `daily_limit` (`compliance_policy.rs:24`) is stored and not enforced.
* `kyc_level` is documented as 0 to 3 and unchecked in `create_kyc_attestation`;
  `require_both_attested` is ignored, both must always be attested; a travel rule record's
  `originator_wallet` is the institution's authority, never the sender.
* A transfer rated high risk is to be rejected immediately (`transfer.service.ts:130`);
  if storing the result or the `transfer.blocked` event fails, the catch at `:149`,
  written for provider downtime, lets it proceed, and it is sent.
* A late assessment is to be flagged for manual review (`risk.service.ts:478-479`);
  what is logged is `screening.cleared`.
* `onchain_pubkey` is unique (`schema.ts:27`) and inserted as `"pending"`
  (`institution.service.ts:25`): a second institution cannot be created before the first
  has another value, which nothing gives it (`SetOnchainPubkey` is external).
* The public endpoints (`README.md:164-191`) write their audit event under institution
  `0000...`, which no migration inserts: until someone does, every call is answered 500.
* The confirmation of a SAS transaction carries its error in a value nobody reads
  (`sas/client.ts:195`), so a row can name an account that does not exist.
* A review is applied to the first row of the wallet, of whichever institution
  (`verification.service.ts:185-188`).
* After a stored proof whose audit event failed, every retry is answered 409; the row's
  24 hours run from the claim's `verifiedAt`, not from the proof's time stamp; an unknown
  level name of an accepted provider is level 0.
* An SDK call without a nonce of its own draws a new one each time: calling again after a
  lost confirmation is a second transfer. `verify_zk_attestation` has no method. Both
  hooks put their accounts under one address, so a mint has one or the other.
* The comment at SDK `merkle.ts:135-138` has an odd node promoted without a sibling; the code
  pairs it with itself. `merkleLeaves` is stored and never read.
* A transaction that lands after its confirmation timed out leaves a row marked failed;
  two racing oracle calls write two memos for one nonce; a blocked transfer leaves its
  travel rule row behind.

## Proofs

`tlapm` checks the eight proof modules to the last leaf. The assumptions are the
named `ASSUME`s of the modules they extend: inputs are of the types their instructions
declare, `None` and `Nothing` are none of the records, institutions, wallets and nonces of the on-chain
program are finitely many. TLC evaluates them in every run.

* `RegistryTypeCorrect`, `TypeCorrect`: every action writes typed values. The
  argument for attestations goes through one lemma (`AttestationsWritten`): an
  action leaves an attestation alone, or creates it where there was none, or changes
  it in place as one of three writers does.
* `ProvenanceCorrect`: the property quantifies over every group of
  institutions, and as it stands it is inductive: an acceptance adds one institution whose
  source is already attested. A group that holds the new one and not only it
  still has, without it, one that leads outside, and that cannot lead to the new
  one, which did not exist. A proof only takes institutions out of the accepted ones.
* `AcceptanceCorrect`, `ValidityCorrect`: case split on the ways an attestation is
  written; the expiry of what is accepted is the source's, and validity of an
  invalid attestation can only come from `VerifyZkAttestation`.
* `TrustNetworkCorrect`: swap-removal of a duplicate-free list is duplicate-free,
  entry by entry.
* `CountersCorrect`: cardinalities of the sets of existing accounts grow by at
  most one in each step, together with the counter. Finiteness of institutions
  and wallets is what this needs.
* `TravelRuleCorrect`, `TracesCorrect`: the strengthening is that an event's
  nonce has a transfer record, so a nonce is executed at most once, and that a
  record is never amended and its status never leaves approved.
* `GateCorrect`: only `ExecuteCompliantTransfer` writes balances, its guards are
  the property's conclusion, and only the sender's balance can fall.
* `SettlementImplemented`: each program action is mapped to `Offer`, `Agree`,
  `Settle` or a stutter, given the invariants above.
* `ProgramProvenance`, `ProgramCounters`: the invariants of the identity half in
  the whole program, since the transfer half writes none of its accounts but the
  registry's transfer count.

* `SubmissionTypeCorrect`, `EvidenceCorrect`, `AnswersCorrect`: for any number of
  transfers and oracle calls. The properties are not inductive: that a call about to
  record has landed, or that one told "failed" left a failed row, is nowhere in
  them. `SubmissionInv` adds what each call knows at each step of the row, the log and
  the chain (`CallInv`), and what each oracle call knows (`OracleInv`). The proof
  runs along who can invalidate what: a row is written only by its own call and
  by an oracle call whose memo landed (`WhoWrites`, `RowWrites`), while what is
  landed or logged stays so (`Persists`). What a call knows of the provider's verdict is
  apart (`VerdictInv`): its own status says cleared only after an approval, and a row's
  status is the one it was stored with (`RowsCleared`).

* `KeyTypeCorrect`, `CacheCorrect`, `OverlapCorrect`, `RowsCorrect`, `ApiKeyCorrect`
  (`KeyManager`): for any calls, restarts and master keys. The strengthening says
  of each call, by its step, what it has read and whether its buffer exists and holds its
  institution's key (`CallInv`), and of a cached buffer that the call that made it has got
  past its fill, for that institution (`CacheInv`). An eviction zeroes a buffer in use
  only when another call filled the same institution's entry meanwhile.
* `EntityTypeCorrect`, `CopiesCorrect`, `OriginsCorrect`, `AttestedCorrect`,
  `ReactivatedCorrect` (`EntityLifecycle`): every step of anyone updates rows in
  place, keeping hash and origin, or inserts one row where none was, and a copy names a
  row that is there (`StepEffect`). What makes a copy's source still be there when it is
  inserted is in the request that read it (`RequestInv`): rows are never removed.
  `OriginsWellFounded` then follows as `ProvenanceCorrect` does: whose row is new was
  nobody's origin. `AttestedOnApproval` needs that a review past its update was applied
  and approves (`ReviewInv`), and that an applied approval stays one (`ApprovalStays`).
* `DeliveryTypeCorrect`, `DeletedCorrect`, `CallsCorrect` (`WebhookDelivery`): per job,
  calls, rows and attempts are counted together (`CountInv`): what a job's step has
  already done exceeds what it has recorded by one at most, and a crash is paid for in
  `crashes`. A webhook is deleted only while no row refers to it, and a call comes
  after its row.
* `ChannelImplemented` (`WebhookDelivery`): each step is mapped to `TakeUp`, `Call`, `Confirm`,
  `Abandon` or a stutter. That a call is still allowed needs `CallsBounded`, which counts
  rows by the job alone, without `crashes`: the queue puts a job back once. A crash
  abandons all jobs it stalls for the second time in one step, which is why `Abandon`
  takes a set.
* `ScreeningTypeCorrect`, `ClearedCorrect` (`Screening`): `ScreenedInv` says, by the step of
  a screening, what it was assessed with: the verdict there was, or the assessment that a
  late one stands for; what is saved is the row of that assessment, and what is
  logged the event of that row. That a row's score is a number is part of it: the column
  refuses one that is missing, and nothing is logged then.
* `ReclaimTypeCorrect`, `RecordedOnceCorrect`, `StoredProofsCorrect` (`ReclaimProofs`): the
  look-up does not make a proof unique, the insertion does; what a request verified is
  in its record when it inserts.
* `PublicAnswersCorrect` (`ComplianceApi`): `CallInv` has the result a call carries as a
  function of what it has read (`ScorePasses`, `ScoreBounded` are about that function),
  and that it is logged before it is answered.
* `ServicesTypeCorrect`, `ServicesCorrect`: each step of the composition is one of a single
  component or leaves all of them alone, so that it keeps the conjunction of the four
  invariants. `KycDataCorrect` says the same of its three.
* `ProofsVerifyCorrect`, `RootsCommitCorrect`, `StoredHashCorrect` (`SelectiveDisclosure`): most
  of it is about the tree, for any number of leaves. Every level is a list of different
  hashes and half as long as the one below (`LevelsShrink`), so the loop ends
  (`HeightExists`); a path leads to the root (`PathLeadsToRoot`) and only there. A root
  commits to its leaves (`RootCommitsToLeaves`): going down, a level follows from the one
  above, its length included, since the last pair is of two equal hashes exactly when the
  length is odd; a level of leaves is met in both trees at once, as leaves and inner nodes
  are hashed under different tags. `DisclosureInv` then needs that a row's hash is the root
  of its fields at its creation, or, for one accepted without PII, of those of another
  institution (`RowOK`), and that an answer is made of the row read, not of the row as it is
  (`RequestOK`). `RootsCommit` compares two rows, and a proof with the row under whose
  hash it verifies: the proof's root is then that hash (`ProofVerifies`), and a root commits.
* `HashNamesContentCorrect` (`CanonicalJson`): texts of values are equal exactly where meanings
  are (`TextNamesMeaning`, by induction on the depth of the values, arrays and objects
  alike), the keys of an object's text are those of the values that JSON has words for, in
  order however they came in (`KeysOfText`, from `InOrderTwice`), so that two objects have
  one text exactly when their parts do (`ObjectTextsEqual`), and
  the object that is cut down to the KYC fields says of them what the whole did
  (`ExtractedPairs`).
* `OnceCorrect`, `ReturnedCorrect` (`SdkClient`): an executed transaction's accounts
  exist for good, and an instruction that initialises one that exists fails. Two
  tries of a request name the same account when its address follows from the parameters
  (`AddressFollowsFromRequest`), and so at most one of them is executed.

The provers cannot instantiate the library's induction theorems, which take an operator.
What `Serialize`, the levels of a tree, a path or a sorting compute is proved all the same:
`Induction` (`KycData_proofs`) is stated for a set of numbers and follows from `<` on `Nat` being
well-founded; with it, for each recursive function, the set of the sizes up to which
a function satisfying its equation exists is `Nat`, and so the `CHOOSE` that defines it finds one.
This asks two things of the model: that recursion is written as recursive functions, never
`RECURSIVE` operators, and that values are finite trees (`ValuesAreFinite`), as a value that
contains itself has no JSON.

Every invariant, action property and refinement that a passing run checks is stated by a theorem,
`ImplementsChannel` for its initial states and steps.
Only model-checked are the three disagreements and liveness under fairness
(`PendingIsResolved`, `ReviewIsApplied`, `SevereAlertRevokesAll`, `ScreeningEnds`,
the fairness of `ImplementsChannel`), which is out of the prover's reach.

## Not modelled

* The transfer hooks and the Civic Pass check: a hook reads accounts and accepts or
  refuses. Which accounts those are is decided by Token-2022's resolution of seeds, code
  that the repository does not hold and no test of it runs. The two instructions
  that set a hook up are in `SdkClient`.
* The web dashboard, which presents what the API answers.
* Read-only endpoints and getters, the Civic status and `parseCivicGatewayToken`.
* Policies of the API: single rows that nothing else reads.
* The rows of `screening_results` that an alert writes, which nothing reads, and the audit
  queries.
* AES-GCM, signatures of webhooks and the bytes of a SAS attestation, which are known by what
  they depend on (a key and additional data; the columns attested).
* The rate limiter of the Chainalysis client, which only delays.
* Migrations, configuration and request schemas: the tables are variables, unique
  constraints are guards, and the schemas bound the inputs.

What could still be added: a composition of `EntityLifecycle` with `KeyManager`, whose
columns it leaves out.
