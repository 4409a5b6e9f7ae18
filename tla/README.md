# Zelyo in TLA+

Zelyo issues credentials whose attributes stay with their holder. An issuer puts a commitment to
each credential into a Merkle tree and publishes the tree's root in a Soroban contract; the
holder proves in the browser, with a Noir circuit, that one of the leaves is theirs, and a server
has the contract register the proof's nullifier. A registered proof unlocks rewards at job gates,
SEP-12 customer status and SEP-8 approvals. A nullifier must count once, whatever clients,
handlers, ledgers and crashes do; most of this project is about that and about what the code
keeps in Postgres, Redis and the browser beside it.

Paths below are relative to the repository; `web/` stands for `apps/web/src/`. Line numbers are
those of the commit modelled. `PROJECT.json` is the machine-readable index: for each definition
the source lines it models, the runs, the findings, the hazards and the theorems.

Contents: 1 the system, 2 the modules, 3 abstractions, 4 the runs, 5 fairness, 6 the proofs,
7 findings, 8 behaviour the models show that no run is about, 9 what is not modelled, 10 plan.

## 1. The system

### 1.1 Parts, their state and their operations

| part | state | operations that change it |
|---|---|---|
| CredentialRegistry contract, `contracts/credential_registry/src` | roles, valid roots, used nullifiers, `Verified` events | `initialize`, `set_root`, `revoke_root`, `register` (Path B), `verify_and_register` (Path A) |
| Verifier contract, `contracts/verifier/src/lib.rs` | none | `verify`: false as long as the host cannot verify UltraHonk proofs |
| Stellar client, `web/lib/stellar.ts` | the issuer account's sequence number, on the ledger | build, prepare, sign, send, poll; one account signs everything |
| Verification service, `web/server/verification.service.ts` | `Nullifier` and `Verification` rows | `verifyAndRegister` |
| Job gate service, `web/server/jobgate.service.ts` | `JobGate` and `GateClaim` rows, rewards paid | `createGate`, `claimGate` |
| Job page, `web/app/jobs/[slug]/page.tsx`, `ClaimPanel.tsx` | what each tab shows; the link's query string | load, choose an asset, claim |
| Gate form, `web/app/(issuer)/issuer/gates/GateForm.tsx`, `issuer/gates/route.ts` | the draft, whose slug and asset are rewritten by effects; a notice and its timers | edit, submit, announce |
| Credential service, `web/server/credential.service.ts` | `Credential`, `RootHistory` rows, VC documents | `mintCredential`, `revokeCredential` |
| Merkle service, `web/server/merkle.service.ts` | `Leaf` rows, `MerkleTree.rootHex` | `insertLeaf`; `getMerkleProof`, `getCurrentRoot` read |
| Circuit and prover, `circuits/zelyo_credential/src`, `packages/zk-shared/src`, `web/lib/prover.client.ts`, `web/components/wallet/ProvePanel.tsx` | the served path | preflight, execute, prove |
| Mint log, `web/server/mintlog.ts`, `mint-log/route.ts`, `MintForm.tsx` | a Redis list and channel; an `EventSource` in the form | publish a line; replay and subscribe; receive, reconnect |
| Holder identity key, `commitment/route.ts`, `KeysManager.tsx`, `holder-key.client.ts` | `HolderKey.idCommitment`; the secret in IndexedDB and in backups | generate, restore, replace; PUT commitment |
| Holder wallets, `holder/wallet/route.ts`, `WalletLinker.tsx` | `HolderWallet` rows with one default | PUT, DELETE |
| Passkey wallets, `web/lib/passkey.client.ts`, `WalletLinker.tsx` | one wallet in localStorage; each page's wallet and list | create, save to the account, disconnect, remove |
| SEP-10, `web/server/sep10.service.ts`, `sep10/token/route.ts` | nonce keys in Redis | `buildChallenge`, `verifyChallenge`, wallet link |
| SEP-12, `web/server/sep12.service.ts` | `Sep12Customer` rows | GET and PUT customer |
| SEP-8, `web/server/sep8.service.ts` | none (it reads `Verification`) | `approveTransaction` |
| SEP-38, `web/server/sep38.service.ts` | a price cache in Redis, `RampQuote` rows | prices, POST quote, GET quote |
| Registration and sessions, `web/server/holder.service.ts`, `apps/web/auth.ts` | `User` rows; the role in a session's token | register, sign in, sign out |
| Seeding and deployment, `scripts/deploy-contracts.ts`, `apps/web/prisma/seed.ts` | `.env`; the first `User`, `Issuer`, `MerkleTree` and `JobGate` rows | deploy, initialize, write `.env`; find or create each row |
| rate limits, read services and pages, clients of Postgres, Redis and S3 | counters; none | see 9 |

### 1.2 How they interact

- **Shared account.** Registrations, `set_root` and rewards are signed by one Stellar account.
  Every builder reads its sequence number and builds on it (`stellar.ts:245-262`), so operations
  that share no data still make each other fail. `IssuerAccount` models this once and is used by
  `Verification`, `JobGate` and `Issuance`.
- **Chain and mirror.** The contract decides; Postgres mirrors. The mirror is written after the
  transaction, in separate statements and without a database transaction, and `claimGate`,
  SEP-12 and SEP-8 read only the mirror.
- **Issuance and proving.** The holder's path comes from `Leaf` rows, while the contract knows
  roots. They are joined only by `set_root` calls that other calls may overtake.
- **Panel and route.** The claim panel knows only the route's answer; money may move before, after
  or without it. What the panel relies on is stated once, as `ClaimDesk`.
- **Form and route.** The gate form, its schema, the route's schema and the service each check part
  of a gate, and no one of them everything that makes it complete.
- **Key and credential.** `mintCredential` reads `HolderKey.idCommitment` at its start and writes
  the credential at its end. The key may change in between.
- **Redis.** SEP-10 nonces, cached prices, rate limits and mint logs: each operation is atomic,
  none of the sequences is.

### 1.3 What is hard, and what would make each part correct

No handler of the program holds a lock. Apart from two short database transactions (the insertion
of a leaf, `merkle.service.ts:41`, and the rows of a revocation, `credential.service.ts:125`, each
one action here) only single statements are atomic, so everything happens *between two awaits*. For each part, its hazards and the properties that answer them:

| part | what is hard | correct means |
|---|---|---|
| contract | calls of every party in every order; roots revoked and published again; addresses reduced modulo a prime | one grant per nullifier over both paths, bound to its holder and authorised, against a live root |
| verification | stale checks; a poll that ends before the transaction's validity; three writes in two systems; crashes | VERIFIED rows are true of the chain; only earned proofs land; every request is answered |
| job gate | a payment between a check and the row that makes it stick; a sponsor that takes a payment over and may never make it | money leaves only for an eligible proof; the route implements `ClaimDesk` |
| job page | answers that are late, lost or of another tab's call | what the panel says of money is so |
| gate form | effects that rewrite fields while others are edited; a slug looked up, then inserted; timers of earlier announcements | a created gate is the one of its slug, and only such a gate is announced; a gate from the form has an asset, an amount and filled values |
| issuance, tree | two mints and a revocation over one snapshot of the leaves; partial failure | credentials keep their own leaf and are provable; roots on chain are of the tree |
| circuit, prover | three walks over one path; a page that outlives the tree it was served from | only ACTIVE credentials have a witness; a served path proves; failures mean what is shown |
| mint log | three Redis commands per line; replay, subscribe, disconnect | each connection shows a run of the log, from the same first line; a form waits only if it cannot have seen the log |
| identity key | server first, browser second; the orphan guard's reads before its write; two tabs over one IndexedDB | the published key is held somewhere; the guard fails only by a race |
| passkey wallets | one slot in localStorage for every page of the browser; a list fetched before a change | a wallet is lost only in ways that are known |
| wallets, SEP-10 | upsert, then clear the other defaults; read a nonce, then mark it | extra defaults are pending; rows go only by their owner; a spent nonce stays spent |
| seeding, deployment, sessions | scripts that die anywhere and run again; `initialize`, which anybody may call first; a role that is read once, at sign-in | a completed seed run leaves what is needed, once; `.env` names a registry of ours; sessions and rows agree |
| SEP-12, SEP-8, SEP-38 | find, then create; several look-ups behind one decision; a slow anchor overwriting a cache | acceptance is earned and final; approvals are backed; prices are recent |

`PROJECT.json` lists 39 hazards, each at the line where it bites, with the properties that answer
it. One the properties answer in part has a note of what is left.

## 2. The modules

```
 SybilBlock  (what is promised)
   ^  implemented by                   IssuerAccount  (one account, one sequence number)
   |--- CredentialRegistry                 ^ INSTANCEd by Verification, JobGate, Issuance
   |        ^ INSTANCEd by                 |
   '--- Verification ----------------------'
 ClaimDesk  (what the claim route promises)
   ^  implemented by JobGate,  EXTENDEd by ClaimPanel
 JobGate + ClaimPanel                   = MCJobGate (side by side)
 Issuance + Circuit + MintLog           = MCTree    (side by side)
 HolderIdentity + HolderWallet + Passkeys = MCHolder  (side by side)
 CredentialRegistry + Compliance + Quotes + GateDesk + Setup = MCAnchor (side by side)
 Proofs, each over the modules it names and the other proofs it cites:
   CredentialRegistryProofs
   VerificationProofs         Verification; INSTANCE CredentialRegistryProofs
   JobGateProofs              MCJobGate: JobGate, ClaimDesk, ClaimPanel
   CircuitProofs              Circuit
   IssuanceProofs             MCTree: Issuance, MintLog; CircuitProofs
   HolderIdentityProofs       HolderIdentity
   HolderWalletProofs         MCHolder: HolderWallet, Passkeys; HolderIdentityProofs
   AnchorProofs               MCAnchor: Compliance, Quotes, GateDesk, Setup; CredentialRegistryProofs
```

| module | models | state and actions |
|---|---|---|
| `SybilBlock` | the promise | a set of grants that grows by one new nullifier at a time |
| `CredentialRegistry` | both contracts | an action per entry point, `by` the account whose `require_auth` succeeds. A call that panics is rolled back, hence a stutter. `rootStatus` and `calls` are history |
| `ClaimDesk` | the promise of the claim route | one payment at most per call, receipts only for rewards taken as paid, answers that agree with both |
| `IssuerAccount` | `stellar.ts:106-282`, the ledger and the fee sponsor | `Build` reads the sequence number, `Submit`, `Hold` and `Forward` (the sponsor), `Include`, `Drop`, `OtherTx` |
| `Verification` | `verifyAndRegister`, one action per await | `Start CheckRoot CheckNullifier CheckCredential CheckHistory VerifyProofOffchain ReadSequence Prepare Send Poll... Recheck... Mirror...`; `Throw` and `Crash` at any await; the ledger's `Apply` and `Drop`; the issuer's root and revocation actions. It composes the contract and the account |
| `JobGate` | `claimGate` | `FindGate FindVerification FindClaim BuildReward SubmitReward Confirm RecordClaim`; proofs appear and gates expire meanwhile; directly or through the sponsor |
| `ClaimPanel` | the job page and its panel | tabs loaded again, clicks, requests and answers that are lost, over `ClaimDesk` |
| `GateDesk` | the gate form, `createGate` and its route | the form's effects and timers; the slug's look-up and insert; other administrators |
| `Issuance` | `mintCredential`, `revokeCredential`, `loadTree`, `insertLeaf` | an action per await; a root *is* the set of `<<index, leaf>>` pairs it commits to |
| `Circuit` | `main.nr`, `poseidon.nr`, zk-shared, the prover, the page that serves a path | hashes are terms, the tree has its nodes, `Main` is the circuit's conjunction of constraints |
| `MintLog` | `publishMintLog`, the SSE route, the form | three commands per line; replay, subscribe, abort; connections break |
| `HolderIdentity` | the Keys page and PUT commitment | the page's steps per tab, the handler's reads and its upsert, the issuer's use of the key |
| `HolderWallet` | PUT and DELETE wallet, SEP-10 | the handlers' awaits, a clock, nonce keys with an expiry |
| `Passkeys` | `passkey.client.ts` and the passkey half of `WalletLinker.tsx` | pages over one localStorage; PUT and DELETE that may fail before or after their work; lists that arrive late |
| `Setup` | `deploy-contracts.ts`, `seed.ts`, registration, sign-in | an action per statement of the scripts, which may die at each; strangers; users and sessions |
| `Compliance` | SEP-12, SEP-8 | the awaits of GET and PUT customer and of an approval, over verifications that appear |
| `Quotes` | SEP-38 | the cache with its TTL, a slow anchor, firm quotes |

Each program counter value (`pc`, `at`, `stage`) names the await a handler has reached. What a
handler computes between two awaits is one action. A guard is the code's condition, an early
return is a disjunct that moves to `"done"` with the code's answer, and a rejected promise is
`Throw`, which follows the enclosing `catch`. Definitions marked `mutant` in a comment are not
part of any specification: each is a mutated copy of the definition next to it, and the run of
that module finds some property violated when it is put in its place.

`MCJobGate`, `MCTree`, `MCHolder` and `MCAnchor` explore two to five independent specifications in
one run (`Setup` counts as two: the deploy script, and the seed script with the users).
Their variables are disjoint and no action of one reads the other's, so a behaviour of the
product violates a property of one component only if a behaviour of that component alone does;
the run explores the components one at a time (only one of them ever leaves its initial state)
instead of their product. `JobsAreClaimsAndPanels`, `TreesAreIssuanceCircuitAndLog`,
`HoldersAreKeysWalletsAndPasskeys` and `AnchorsAreTheirParts` prove the other direction: a behaviour
of the run's specification is one of each component's, so that every theorem about a component
holds in the run.

`JobGate` and `ClaimPanel` meet in `ClaimDesk`: the run shows that every behaviour of the handler
(with its rows, its account, its ledger and its faults) is one of `ClaimDesk`, and explores the
panel over `ClaimDesk` alone. What holds of the panel over the promise therefore holds over the
handler, and the panel's tabs need not be multiplied with the handler's awaits.

## 3. Abstractions

- **Cryptography.** Poseidon is collision free and not inverted (terms, or a root as the set it
  commits to), proofs are sound and complete (`proofValid`), signatures are those of the account
  named. The field reduction of addresses is *not* abstracted: keys are integers taken modulo
  `Modulus`, and two addresses may share an element.
- **Ledger.** It includes a transaction while its sequence number is current, drops it at any
  time, or never decides. Whether submissions go through the fee sponsor (`USE_CHANNELS`) is one
  choice for a behaviour of `JobGate`: a sponsored transaction is held, and forwarded at some time
  or dropped. `Verification` and `Issuance` submit directly: their Soroban transactions are polled
  the same either way, and one the sponsor holds is to the poll like one that is pending, or was
  dropped.
- **Contract.** Error codes are left out: the server reads the chain again after a failure
  instead. `set_root` by the stored issuer is never refused, so `Issuance` keeps only the set of
  roots. `HostVerifies = TRUE` in `Anchor.cfg` allows Path A and so has every behaviour of the
  shipped `FALSE`, and more; `Verification.cfg` uses FALSE.
- **Rejected requests** (rate limit, session, schema) are requests never sent.
- **Failures** are explicit (`Throw`, `Crash`, `Fail`) where a `catch` or a later answer depends
  on them. In `HolderWallet`, `Compliance` and `Quotes` a handler that throws or dies is one that
  takes no further step: these specifications assume no fairness, so every prefix is a behaviour.
- **Gates.** `JobGate` has one gate for each kind of reward and one without an asset, which another
  client of the route can post. `GateDesk` keeps of a predicate whether its value is filled in, of
  an asset its code, whose issuer's it is and whether there is an amount; the terms of a gate are
  otherwise what was typed. A verification's transaction hash is named by its nullifier, which
  `RowsImplementSybilBlock` justifies.
- **Panel.** A tab's link is a well formed claim or none; which asset is received is chosen only
  where the page offers it. **Passkeys.** A wallet is a name; the kit makes each once.
- **Setup.** Each statement of a script is atomic. Passwords are left out: a browser signs in to a
  row that exists. **Leaf counts.** `Issuance` records in each history row how many leaves the tree
  had, by creation time, at the row's `publishedAt`; in `Verification` there is one credential.
- **Covers** (in `Verification`): whether the credential's leaf index is below `leafCountAtRoot`
  is a relation given by the instance. `Issuance` derives the count, and `IssuedIsProvable` there says
  that no history row refuses a leaf which its root commits to.
- **Identity.** One holder; the others' rows are touched by none of the steps. A page cannot
  close: what a page still holds counts as held. Backups are encrypted perfectly.
- **SEP-10.** A request that was on time may be slow: `SpentStaysSpent` covers a check up to
  `JwtMaxAge` after the challenge's end. `env.ts:52-53` keeps that at 60 seconds or more.
- **SEP-12.** `account` is unique, so an account has one row; the memo is stored and never
  decides. Ids are those that an answer listed.
- **SEP-38.** A query is one cache key. **Mint log.** The live half of the stream never delivers
  to the form, since the job's id comes with the POST's answer, after the last line; the list may
  expire between two of its lines.
- **Tree.** `Nodes` has on each level the nodes over the leaves there are; any other node is the
  root of a subtree of zero leaves (`ZeroNode`), as in the tree library. `Capacity` is what a tree
  of that depth holds, and `MaxLeaf` stays within it.
- **Distinct leaves.** Each mint of `Issuance` has a leaf of its own; equal leaves are in
  `Circuit`, where attributes and commitments decide the leaf (and in 8, "twin credentials").
- **Roots as sets.** That `Issuance` may take a root for the set of indexed leaves is proved of
  `Circuit`'s tree (`RootOfIsTheTreesRoot`), in which a root is a term of Poseidon hashes.

## 4. The runs

Distinct states, depth and seconds with two workers:

| run | states | depth | s | shows |
|---|---|---|---|---|
| `Verification` | 206 543 | 30 | 44 | two requests of six kinds of bundle over the contract, with faults, crashes and a busy issuer |
| `JobGate` | 508 558 | 26 | 144 | two claims of eight kinds at four gates, direct and sponsored, with faults, crashes and expiry; two tabs of the claim panel |
| `Issuance` | 765 280 | 35 | 103 | two mints and a revocation over a tree of two, with faults; the circuit and its tree; the mint log |
| `Holder` | 1 095 042 | 44 | 158 | two tabs of one browser, two secrets, two mints; two holders' wallets, a PUT, two tokens, two DELETEs; two pages and two passkeys |
| `Anchor` | 636 527 | 19 | 151 | every sequence of contract calls by three accounts; two PUTs, a GET and an approval; prices and quotes; the gate form beside another administrator; two runs of each script, users and sessions |
| `FirstSubmissionIsRecorded`, `OneRewardPerProof`, `CurrentRootIsPublished`, `RevokedProofFails`, `SubscribersAreQuit`, `GuardBlocksOrphaning`, `ChallengeUsedOnce` | 15 to 240 630, when TLC stops | | 5 to 60 | the findings of section 7: TLC finds each claim violated |

**Verification** (`MCVerification`). `RowsAgreeWithChain`: a VERIFIED row names a transaction that
landed and an event that says the same, for the holder the request named. `RegistrationsAreEarned`:
no nullifier lands twice, none for a proof `bb.js` rejects, for a credential after its root, or for
a request that began when the credential was revoked already (one revoked after its status was read
is still accepted, `verification.service.ts:112`). `RowsImplementSybilBlock`: the rows refine
`SybilBlock`. `EveryRequestAnswered`: liveness, see 5. *Bounds:* two requests are what every race
here needs (one nullifier under two roots; a good proof against each way of being refused: too new,
garbled, forged, misbound). One further issuer transaction is enough for a sequence race or for a
root withdrawn between the check and the application; both happen in the run, as the mutants that
drop a check are caught.

**JobGate** (`MCJobGate`). `RewardsAreEarned`: money that left was for a proof on record, of that
gate's track and that very wallet. `ImplementsClaimDesk`: the handler refines `ClaimDesk` (with
`TakenAsPaid` as weak as the code: a sponsored classic payment counts as made when the sponsor
accepts it). `PanelTellsTheTruth`: of two tabs, "Reward Unlocked" and "never reached the reward
step" are so. `EveryClaimAnswered`: liveness. *Bounds:* a gate for each kind of reward and one
without, a classic account and a smart wallet, and a claim for each branch that refuses. Two claims
are enough for the race, three would only repeat it; two tabs for a tab that shows what the other's
call did.

**Issuance** (`MCTree`). `CredentialsOwnTheirLeaf`, `IssuedIsProvable`, `RootsAreOfTheTree` and
`LeavesOnlyZeroed` over two mints and a revocation that overlap in every way, with a revoked
credential already in the tree. `OnlyIssuedCredentialsProve`: for *every* list of siblings drawn
from all nodes, commitments and attribute hashes, the circuit accepts under the tree's root only
an ACTIVE credential. `ServedPathProves` and `FailuresAreExplained`: the three walks over a path
agree, and what the panel says of a failure is so. `ShownIsARun`: what one connection shows is a run of
the log; a connection after a broken one begins again with the first line shown, so the form, which
appends, repeats lines between connections and never within one; and a form that still waits
after the last line never had it to show. *Bounds:* depth 2 has a left and a right turn on each of
two levels, and the code is the same on every level; three leaves leave a zero subtree of size
one; two secrets and two attribute values make a wrong key and a wrong attribute. Two connections
and three lines make one reconnection and a gap of one visible.

**Holder** (`MCHolder`). Keys: `StoredKeysWereAccepted`, `PublishedKeyIsHeld` and
`OrphansOnlyByRace`. Passkeys: `PasskeysStay`. Wallets: `ExtraDefaultsArePending`, `LinksStay` and `SpentStaysSpent`.
*Bounds:* two tabs over one IndexedDB (the finding's run has two browsers), two secrets for an old
and a new key, two credentials for one that the guard saw and one that it could not; for wallets,
a PUT against two tokens and two DELETEs covers a pair of links and a pair of deletions; two pages
and two passkeys for one page that overwrites or disconnects what the other made. The symmetry
permutes a set of one component together with one of another, which is sound because the two are
never both active.

**Anchor** (`MCAnchor`). The contract with three addresses of which two share a field element, two
roots and two nullifiers: `RegistrationsAuthorised`, `RegistersOnlyAgainstLiveRoots` and
`ImplementsSybilBlock`. Compliance: `AcceptedIsVerified`, `AcceptanceIsFinal`
and `ApprovedAreVerified`. `PriceIsRecent`: three requests, so that a slow answer can overwrite a
newer one and then be read. Firm quotes are carried along: each is asked for, kept and answered once, in
that order, and no property but the types is about them. Gates: `CreatedGatesStand`, and
`FormGatesAreComplete`: a gate from the form has an asset and an amount if its reward needs them, and
filled values. It does not say that a gate can be claimed; section 8 lists the gates that cannot. Setup:
`SeedIsRepeatable`, `EnvRegistryIsOurs` and `SessionsMatchUsers`. *Bounds:* two nullifiers keep
`events` at a length of two at most; the two PUTs make the find-then-create race, the form and one
rival the race for a slug; two runs of a script are one that dies or overlaps and one that repairs.

Each of the five ends by exhausting its states. `CHECK_DEADLOCK FALSE` is set because all of them
end in states where every request has been answered and no other is to come. `clock` and `now` are
bounded by `MaxTime` and `MaxNow`, the issuer's other transactions by `MaxIssuerTxs` and
`MaxOtherTxs`; every other bound is the size of a set of requests.

## 5. Fairness

Only `Verification` and `JobGate` are checked for liveness: `FairSpec` and `JobsSpec` add
`WF_vars(Serve(r))` for each request, and the property is that every request ends up, for good, not
begun, answered or dead with its process. Node runs a continuation once its promise is settled, and every promise of these
handlers settles: RPC calls answer or throw, and the poll counts its attempts (`stellar.ts:220-240`)
and gives up. So a request that has started keeps taking steps as long as the process lives.
Nothing is assumed of clients (`Start`), the issuer, the ledger (`Apply`, `Drop`) or faults: a
ledger that never decides is a fair behaviour, and the answers must come in it too. A process that
dies (`Crash`) counts as an end. No other specification states fairness.

The other half of these two properties is safety and is proved: `RequestsGoForward` and
`ClaimsGoForward` give each await a number that every step of its handler lowers, whatever throws. No
handler goes round in a circle, so that with weak fairness, and an action enabled at every await
(which TLC checks, `ENABLED` being out of the prover's reach), a request must end.

## 6. The proofs

Eighty-one theorems (`PROJECT.json` lists the sixty that say most), for every value of the constants
the assumptions allow (any number of requests, holders, tabs, roots, accounts, leaves, ...). Each
component has one inductive invariant; the theorems about it follow from that invariant, or, for
action properties and refinements, from it and one step. Every invariant, action property and
refinement that a passing run checks is proved, the `TypesOK` of the four MC modules included.

Three kinds of theorem have no run of their own. *Composition:* what is proved of one component is
carried into a larger one, instead of being assumed there. *Only the race:* for a claim of section 7
that fails, that it holds in every behaviour in which a named interleaving does not occur; TLC
shows that the claim can fail, the theorem that nothing else makes it fail. *Progress:* the safety
half of liveness (see 5).

**`CredentialRegistryProofs`** assumes `FieldAssumption` and `RolesAssumption`.
`IInv == TypeOK /\ NullifierOnce /\ RegistrationsAuthorised /\ RootsAreLive`. `NullifierOnce`
contains the link that makes it inductive: the used nullifiers are *exactly* those of the events.
`RootsAreLive` adds that valid roots are those whose last issuer action was `set_root`, which
nothing on chain records. From `IInv`: `SybilBlocked`, `AllRegistrationsAuthorised`,
`RootsMustBeLive` (an action property), `NothingIsTakenBack` and `PathAStaysDisabled` (if the host
verifies nothing). `RegistryImplementsSybilBlock` is the refinement: a step appends an event whose
nullifier is new, hence grants it, or leaves the log alone and stutters.

**`VerificationProofs`** assumes `VerificationAssumption` and `ContractAssumption` (what the contract's
own module assumes of the constants it is given).
`IInv == TypeOK /\ DOMAIN calls = DOMAIN events /\ RegistrationsAreEarned /\ RowsAgreeWithChain /\
RowsNameTheirRequest /\ \A r : RequestInv(r)`. `RequestInv` says, per await, what the checks behind
a request have established and what of that still stands although the world has moved on: a root
may have been withdrawn since `CheckRoot`, a nullifier used since `CheckNullifier`, but a proof that
`bb.js` accepted stays valid, and a credential that was not ACTIVE never is again. That a
transaction is `"success"` only if the contract logged it is what carries a poll's answer into the
mirror. The refinement `MirrorImplementsSybilBlock` then has one step that is not a stutter, the
insertion of a VERIFIED row, and its nullifier is new because the two rows' transactions would both
have landed.

The contract inside the system is the contract that `CredentialRegistryProofs` is about:
`EveryStepIsAContractStep` shows each action of the server, the issuer and the ledger to be one of its
calls or a stutter, and `ContractPromisesHold` and `RegistrationsAreAgainstLiveRoots` carry its theorems
over. Together with `IInv` they give what the readers of the mirror rely on: the address a gate pays
is that of the holder of the request (`VerifiedRowsAreBound`), a nullifier has one VERIFIED row
(`ProofsHaveOneRow`, the assumption `JobGateAssumption` makes of the rows `claimGate` reads), an answer
other than ERROR has its row (`NoAnswerWithoutRow`), and the unique index on `nullifierHex` is never what
refuses an insert (`NullifierIndexNeverRefuses`).

`RecordedUnlessGivenUp` is about the claim of section 7. Without throws and crashes, and as long as no
poll gives up on a transaction still pending (`NoneLandsLater`), a transaction that may land is
still being polled for, and one that landed is known to have (`Awaited`); then the first submission
is recorded.

**`JobGateProofs`** assumes `JobGateAssumption` and `ClaimPanelAssumption`. `IInv == TypeOK /\ ReceiptsBacked /\ \A c : ClaimOK(c)`: a claim past
`FindVerification` was eligible and still is, since rows stay; nothing has been submitted before
`SubmitReward`; a claim that began after the
nullifier's receipt gets no further than `FindClaim`. `RouteImplementsClaimDesk`
goes handler step by handler step: a step is seen by `ClaimDesk` as one of its own (the answer, the
payment, the receipt) or not at all. Its hard case is ALREADY_CLAIMED, where the receipt that was found must be
for the caller's wallet: two proofs of one nullifier are one row (`JobGateAssumption`, which
`ProofsHaveOneRow` proves of `Verification`). `PanelIsTruthful` is proved over `ClaimDesk` alone:
`PanelInv` adds to the desk's invariant (a receipt is of a call whose reward is taken as paid, one
for each gate and nullifier) that what a tab shows is about its own call, and its call about its
link. With the refinement it holds over the handler.

`InTurnOneRewardPerProof` excludes the race of the finding and the late reward of section 8, and nothing
else. `ClaimsInTurn` says that no two claims of one proof on one gate have something at stake together,
which a claim has from the look-up that found no receipt to its own receipt, and for as long as a
reward of its own went out, or may go out, that left none. The second part is needed: a reward whose
confirmation times out, or whose handler dies, may land later, and with the first part alone TLC
finds two claims that take turns and are both paid.

**`IssuanceProofs`** assumes `IssuanceAssumption` and `LogAssumption`. For `Issuance`:
`IInv == TypeOK /\ CredentialsOwnTheirLeaf /\ IssuedIsProvable /\ RootsAreOfTheTree /\ \A c : CallInv(c)`.
A mint works on a snapshot: `HasRead` says the tree has grown from it and zeroed leaves, and
`HasLeaf` that until its row is created no other call touches its leaf, for only a leaf with a row
is ever zeroed. `ApplyStep` is the case that matters: a root put on chain late is still of the
tree. `InTurnTheRootIsPublished`: as long as no two calls are between the tree they read or zeroed and
the end of their poll (`ChangesInTurn`), what is about to be published is the tree's root, and unless a
call failed the root is on chain when all have ended. Starting, looking up and recording may
overlap freely. `RootOfIsTheTreesRoot` composes this module with `CircuitProofs`.

For `MintLog`: `LInv` says the list in Redis is a run that ends with the line last written
(what expired was its beginning), what is on a wire is a run up to the done event, and the form's
connection goes on exactly where what it shows of it ends. `AgainInv` adds what joins two connections:
they come in turn, and once the mint has returned the list only expires, so while there is a list it
begins with the first line shown, and so does every replay. `HeardAbortsQuit`: a subscriber is left open only
by an abort that comes before the route listens for it.

**`CircuitProofs`** assumes `CircuitAssumption`: a depth of at least one, no more leaves than the
tree has room for, attribute sets that are records of two names. What `Circuit` computes level by
level it defines with recursive functions, and the module first shows what these are
(`CapacityDef`, `ZeroNodeDef`, `PositionsDef`, `NodesDef`, `WayUpDef`), by induction on the level.
The induction is not the library's, which takes a predicate as its parameter, but the least-number
principle (`Least`, from the well-foundedness of `<` on the naturals): a set of levels with a
counterexample would have a least one. Then, by the same induction:
- *completeness*: on each level the way up from a leaf, along the path that was served for it, is at the
  node over the leaf (`ServedPathLeadsToRoot`; `PositionsMeetNodes` says that the halved index is always one of
  the tree's nodes, and 0 at the top);
- *soundness*: on the way down from the root, whatever siblings and sides are given, each node is
  one the tree has on that level or the root of a zero subtree (`ChildrenAreValues`, from the
  injectivity of Poseidon), hence the leaf is a leaf of the tree or zero (`WayToRootStartsAtALeaf`).

`CInv == CTypeOK /\ TreeInv /\ ServedInv /\ OutcomeInv` ties both to the pages: a leaf is its
credential's or zero, a path that was served while the credential was ACTIVE leads to its root, and
what a page shows is what proving with its path gives. `NoWitnessIsForged` is stronger than the run's `OnlyIssuedCredentialsProve`:
siblings, sides, secrets and the other public inputs are arbitrary values, where TLC tries lists
drawn from the tree's nodes and the commitments.

Two more inductions, one from the root down and one from the leaves up, give what a root commits to:
the leaf at every index, and no more (`RootsCommitToLeaves`), which is the set of indexed leaves that
are not zero (`RootIsItsLeafSet`). `EveryChangeMovesTheRoot`: no mint and no revocation leaves the root
as it was, so each has something to publish.

**`HolderIdentityProofs`** assumes `IdentityAssumption`.
`IInv == TypeOK /\ PageSecrets /\ StoredKeysWereAccepted /\ SafeKey /\ LeavesFixed /\ ScanStands`.
`PublishedKeyIsHeld` is not inductive: a stored key may be overwritten. `SafeKey` says more of the
pages that have published and not yet persisted. `ScanStands` says what a handler between its
reads and its write still knows, from which `OrphansOnlyByRace` follows: the guard fails only to
what it could not have read.

**`HolderWalletProofs`** assumes `WalletAssumption` and `PasskeysAssumption`. For the wallets
`WInv == WTypeOK /\ Asked /\ RowIds /\ LinkedIds /\ RowsOrDeletes /\ ExtraDefaultsArePending /\ MarksOutlive`.
`RowIds` says that a row's id is the request that created it, and names its key. It is what makes
PUT's way to clear the others (by id) and SEP-10's (by address) the same in every reachable state,
and without it `ExtraDefaultsArePending` is not inductive. `RowsOrDeletes` generalises `LinksStay`
from answered links to all of them. `MarksOutlive`: the key of a spent nonce expires no earlier
than `maxTime + JwtMaxAge`, from which `SpentStaysSpent`. For `Passkeys`,
`KInv == KTypeOK /\ MakerShowsStored /\ PasskeysStay`: as long as a wallet is the one in
localStorage the page that made it shows it, so that only the two ways the property names can
take a wallet nobody let go of. `InTurnChallengesAreUsedOnce` excludes two things: two requests with one
challenge between `redis.get` and `redis.set` together (`NoncesInTurn`, the finding), and a request that
was on time and reaches `redis.get` only `JwtMaxAge` later, when a mark may have expired
(`NotTooSlow`). Then a challenge is exchanged once.

**`AnchorProofs`** is about the four modules that `MCAnchor` has beside the contract.
- `Compliance`, from `ComplianceAssumption` (the kinds of requests are disjoint and `None` is none
  of their values): `AInv == ATypeOK /\ Asked /\ Unanswered /\ ProofsStand /\ LookedUp` and the four
  properties. `ProofsStand`: a PUT past its check still has a proof that is VERIFIED and of its
  own account, because rows are only added. `LookedUp`: the destinations already taken off `left`
  are verified. `AcceptanceIsFinal` needs that `create` fails on an existing row: with an upsert in
  its place (`CreateOrReset`) TLC finds it violated. `CustomerIdStays` is proved and needs no run.
- `Quotes`, from `QuotesAssumption` (times are natural numbers):
  `QInv == QTypeOK /\ CachedInTime /\ OnItsWay /\ PriceIsRecent`. What a cache entry's expiry says
  about its price's age (`CachedInTime`) survives a slow answer that overwrites a newer one,
  because `slowest` grows with it.
- `GateDesk`, from `GateDeskAssumption` (requests are finitely many): `DeskInv` says what
  the effects have made of the draft (an asset exactly if the reward is not a flag) and the schemas of
  each request, and that a slug has one gate. `TimersOfAnswers`, which the types need, bounds the
  timers by the requests that were sent; `Announced` says that the gate the form announces exists
  and has a timer left that will clear it.
- `Setup`, from `SetupAssumption`: `SetupInv` follows both scripts from statement to statement; a
  run that does not overlap found what a dead one had left, hence `AtMostOne`.

*Only model-checked:* that the two liveness properties hold (`EveryRequestAnswered`,
`EveryClaimAnswered`), as the prover has no reasoning about fairness and `ENABLED`; and the violated
claims of section 7, which are behaviours TLC exhibits.

*Not proved at all:* that a run which explores its components one at a time loses no violation
is the argument of section 2, about TLC's exploration and not about a behaviour.

## 7. Findings

Claims of the repository that the code does not keep. Each has a run in which TLC prints the
behaviour; `PROJECT.json` quotes the claims with their lines.

| run | what happens |
|---|---|
| `FirstSubmissionIsRecorded` | the poll gives up after 20 s, the transaction is valid for 60 s: it lands after the answer, the nullifier is used, and no VERIFIED row exists for any gate to pay |
| `OneRewardPerProof` | two concurrent claims both find no earlier claim, both pay, and the unique index refuses only the second receipt |
| `CurrentRootIsPublished` | a mint publishes a root from a snapshot that a revocation has since changed: the tree is left with a root nobody published, and no path of it proves until the next mint |
| `RevokedProofFails` | revocation publishes a new root and withdraws none: the revoked credential proves under every older root |
| `SubscribersAreQuit` | the done event comes with the replay, the form closes its stream before the server listens for the abort, and the subscriber stays |
| `GuardBlocksOrphaning` | a mint that resolved the old key completes between the guard's reads and its write |
| `ChallengeUsedOnce` | two token requests read the nonce before either marks it |

For six of them a theorem says that there is no cause but those its premise names:
`RecordedUnlessGivenUp` (a fault, or a poll that gives up), `InTurnOneRewardPerProof` (the race, or a
reward that lands without a receipt), `InTurnTheRootIsPublished`, `HeardAbortsQuit`,
`GuardFailsOnlyByRace` (the race) and `InTurnChallengesAreUsedOnce` (the race, or a request slower than
the mark lives). Each says what a fix has to achieve: to keep apart, by a lock or by a unique row that is
written first, the awaits its premise keeps apart. `RevokedProofFails` has no such
form, as no order of calls makes it hold: revocation withdraws no root.

## 8. Behaviour seen while modelling that no run is about

In the models:

- A good proof whose transaction loses the race for the sequence number is answered INVALID_PROOF
  (`stellar.ts:275`), and `ProvePanel.tsx:34` then tells the holder that the proof is bad.
- `prepareTransaction` is outside the `try` that maps contract errors (`stellar.ts:262`): a
  nullifier used since the pre-check answers ERROR, not NULLIFIER_USED (`SPEC.md:449`).
- A reward whose confirmation times out is answered REWARD_FAILED and may land
  (`jobgate.service.ts:229-235`); the second attempt then pays again.
- A revocation whose `set_root` fails has already zeroed the leaf and marked the row; repeating it
  answers ALREADY_REVOKED (`credential.service.ts:122-134`).
- Two concurrent links can leave a holder with *no* default wallet, each having cleared the
  other's (compare the comment at `sep10/token/route.ts:53`).
- Two tabs of one browser can lose the published secret with no failure at all: the server's
  order of the two PUTs need not be the browser's order of the two writes.
- A firm quote is lost if its insert fails (`sep38.service.ts:173`).
- A sponsored classic payment is answered PAID and recorded when the sponsor accepts it
  (`stellar.ts:122-126`); the network may never see it.
- A request of the panel that is lost leaves it on "Claiming…" for good: nothing catches the
  rejected `fetch` (`ClaimPanel.tsx:41-52`).
- Concurrent `createGate` calls end in an unmapped unique-index error (`jobgate.service.ts:70`).
- A success announcement's timer also erases the failure that came after it (`GateForm.tsx:161`); a
  lost answer shows a failure though the gate was created, and the retry finds the slug taken.
- A holder who registers the administrator's name before the first seed keeps it: every seed run
  completes and there is no administrator. Overlapping seed runs make two issuers and two trees.
- A crash between the two `upsertEnv` calls leaves the ids of two runs in `.env` (the application
  reads only the registry's).
- A passkey wallet that was never saved is lost when another is made in its place, or when another
  page's Disconnect clears it (`WalletLinker.tsx:131-163`). A stale list's Remove gets a 404, and
  nothing is fetched again.
- Revoking the credential minted last makes the tree's previous root again; `RootHistory.rootHex` is
  unique, so the insert fails and the revocation answers ERROR after the leaf was zeroed.
- SEP-12 acceptance and SEP-8 approval do not look at a later revocation of the credential.
- LEAF_MISMATCH blames another key (`ProvePanel.tsx:135`); a revoked credential gives it too.
- Twin credentials: minting the same attributes twice for one holder makes two equal leaves, and
  revoking one leaves a secret that proves with the path of the other.
- Two addresses may reduce to one field element (`field.ts:56`), so binding is up to the reduction.

Beside the models:

- A FLAG reward calls `set_verified`, which the contract does not have (`stellar.ts:500-502`), so no
  gate with one can be claimed.
- A failed audit write answers ERROR although the reward is paid and recorded.
- Two `track` predicates that contradict each other make a gate nobody can satisfy, which
  `GateForm.tsx:34-35` means the form to prevent: it restricts the attributes, not their values.
- An asset code other than XLM without an issuer pays native XLM as a claimable balance, and the
  amount of a reward is not validated; an expiry given as a date is a day early west of UTC
  (`jobgate.service.ts:75-78`).
- `toStroops` truncates beyond seven decimals (`stellar.ts:56`).
- When Redis is out, every limited route answers 429 RATE_LIMITED (`ratelimit.ts:41-44`).
- `connectPasskeyWallet` and `signWithPasskey` are called from nowhere.
- The `disclose` flag of the panel is ignored by the prover (`prover.client.ts:83`,
  `ProvePanel.tsx:154`).
- `emptyTreeRoot` folds a zero *leaf* in at every level (`packages/zk-shared/src/poseidon.ts:55`), the
  tree library equal subtrees: the root the seed stores (`prisma/seed.ts:40`) is not the one the
  library gives an empty tree.
- `RampQuote.status` never leaves FIRM; SEP-12 rows of one account with different memos are one
  row (`sep12.service.ts:215`).
- Persistent contract entries can be archived (`storage.rs:15`).

## 9. Not modelled

- *Rate limits:* one atomic operation each, and no step between a read and a write.
- *Roles* are checked from the token at the start of a route (`SessionsMatchUsers` is about the
  token): a request without the role is one never sent. *Password hashing* is a library's.
- *Read services and pages:* they change nothing. *Infrastructure clients:* input and output;
  their failures are faults of the caller.
- *Path A through the server* (`submitVerifyAndRegister`): the shipped verifier refuses every
  proof (`PathAStaysDisabled`). The contract's own Path A is modelled.
- *Amounts, slippage, XDR, explorer links, sealing of secrets, JWT encoding:* data that no property
  here tells apart.

## 10. Plan

Done: the contract and what it promises, verification, rewards and what their route promises, the
job page, the gate form, issuance with circuit and log, identity, wallets, passkeys and SEP-10, the
anchor services, deployment, seeding and sessions; theorems for every safety property, action
property and refinement the runs check, for the way the components are composed, and for what
alone makes the violated claims fail. Order of what is left:

1. *Refine further.* Abstract specifications of the mint log and of the nonce cache, with
   refinements that hold where the race of section 7 is excluded.
2. *Extend the model.* `toStroops` and the slippage bound (`stellar.ts:56-64`) as operators checked
   against a rational definition; `Covers` of `Verification` derived from `Issuance`, in a
   composition of the two; liveness of the mint log under fairness of the form and of Redis.
