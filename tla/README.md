# TLA+ models of the BEL asset and maintenance platform

The platform keeps industrial assets, the people who work on them and the
maintenance jobs they do on a permissioned EVM chain.  A set of Solidity
contracts is the authority; a TypeScript backend drives them for HTTP clients
and keeps a database next to them.  This directory holds TLA+ models of the
contracts and of the services of the backend that write to the chain or decide
who may, the TLC configurations that check them on small instances, and TLAPS
proofs of every safety property the runs check, for any number of wallets,
identities, tokens, jobs, requests and sends.

## 1. Inventory

| Component | State it keeps | Operations | Talks to |
|---|---|---|---|
| `BelRoles`, `BelAccess` | `wired`, addresses of the registries | `wire`, `onlyRoles`, `_audit` | base of all registries |
| `IdentityRegistry` | wallet status and identity, wallets of an identity | `createIdentity`, `activateWallet`, `revokeWallet` | read by every check |
| `RoleRegistry` | role mask of an identity, `adminCount` | `assignRole`, `revokeRole` | resolves wallets through `IdentityRegistry` |
| `AuditRegistry` | append-only records and trails | `recordAudit`, `recordAuditFor` | called last by every write |
| `AssetRegistry` | tokens, owners, states, component forest, transfer grants | mint, transfer, grant, state, attach, remove | reads identity and roles |
| `JobManager` | job records | create, assign, start, complete, approve, reject | reads `AssetRegistry`, identity and roles |
| `ValidatorRegistry` | validator schedule by block height | add, remove, restore, cancel | read by consensus at every height |
| EVM adapter (backend) | per-wallet send queue | prepare, verify, simulate, relay, queue and broadcast, poll for a receipt with a deadline, diagnose | all chain writes of the backend |
| RBAC middleware | the matrix of roles and actions | `requirePermission`, `requireRole`, `can` | in front of every mutating route |
| `AuthService`, session and fresh-auth middleware | challenges, sessions | challenge, login, validation, fresh authentication, logout | rows that `UsersService` changes |
| `UsersService` | identities, users, devices, wallets, grants | registration, verification, activation, replacement, revocation, roles, grants | several transactions, then several saves, per operation |
| `AssetsService` | asset rows and an index | five mutations, `getById`, `prepare` | adapter, then database |
| `JobsService` | job rows (Prisma) | the six mutations of a job | adapter, then database |
| `EvidenceService` | evidence records, objects in IPFS | upload, list, hash, download | job rows, storage |
| `ValidatorService`, notifications | validator rows, history, notices | add, remove, restore, cancel | adapter, then database, then mail |
| device wallet (frontend) | keys | `deviceSignedWrite` | prepares, signs, submits |
| integrity log, audit reads, routes, user interface, simulator | - | hashing, parsing, display | - |

What is hard about it:

* Nothing of a contract call is fixed between two calls: wallets are revoked
  and replaced, roles come and go, grants expire while assets and jobs are half
  way through their life.  Jobs record wallets but must separate *people*.
* Hand-kept redundancy: `adminCount` next to the role masks, three mappings for
  wallets, three for the component hierarchy with swap-and-pop, a counting walk
  next to a filled array in `ValidatorRegistry`.
* The backend reads rows, waits for a dry run, a broadcast and a receipt, and
  then writes whole rows back.  Nothing is locked; the deadline may pass while
  the transaction is still on its way; a process may stop before the save, and
  an operation of several transactions and saves may stop between any two.
* Checks are made on what was read an await ago: challenges, sessions, wallets,
  jobs and assets may have changed when the answer is used.
* Two tables decide about the same operation, the matrix of the backend and the
  masks of the contracts; two records say what is granted, a row per grant and a
  slot per wallet; the role of a row is one, those on the chain are a set.
* A wallet's transactions reach the node on two ways, through the queue of the
  development signer and signed by a device, and the node may forget some.
* A client may send a signed transaction late, twice, or with another intent.

`PROJECT.json` lists these as hazards, each at its line with the properties that
cover it.  The correctness properties per component are those of section 4.

## 2. Modules

```
BelRoles                permission masks as sets of roles
  BelAccess             shared state, access check, audit, wiring
    IdentityRegistry    wallets and identities
    RoleRegistry        roles and the admin counter
      AccessControl     the two together; invariants of access
        AssetRegistry       tokens, owners, components, grants
                            (implements AssetLifecycle)
          JobManager        jobs          (implements JobLifecycle)
        ValidatorRegistry   the validator schedule
          ValidatorService  rows, history and notices over that contract
  Rbac                  the gates of the backend next to the masks
AssetLifecycle          abstract: assets, holders and parents only
  AssetsService         rows and checks of the backend over that chain
JobLifecycle            abstract: jobs and people only
  JobsService           the backend over that chain
UsersService            registrations, wallets, devices and roles; chain mirror
Grants                  grant rows and the grant slots of the contract
AuthService             challenges, sessions, protected requests
EvidenceService         uploads, downloads, completion with evidence
SendQueue               sendAs: the promise chain of each wallet
DeviceSigning           prepare, sign, submit, relay, wait, diagnose
```

`MC*` modules are the instances for TLC.  The proofs are in
`ContractProofs` (`AccessControl`, `AssetRegistry`, `JobManager`, and the gates
of `Rbac` against the masks), `ValidatorProofs` (registry and service),
`AuthProofs` (`AuthService` and `Grants`), `UsersProofs`, `AssetsServiceProofs`,
`JobsServiceProofs`, `EvidenceProofs` and `AdapterProofs` (`SendQueue` and
`DeviceSigning`).

**State.** Each variable is the storage variable, row or field its comment
names.  A wallet or a DID is a model value; `keccak256(did)` is the DID, so hash
collisions do not exist.  Role masks are sets.  Token ids are numbers and 0 is
"none", as in the code.  Variables marked *history* (`excuse`, `excused`,
`uses`, `orphaned`, `place`, `lost`, ...) are not in the code; properties refer
to them and no guard reads them.  `log` stands for the audit records in the
order of their `txId`.  `setting` and `seeded` choose an initial situation and
never change.

**Actions.** On the chain one action is one whole transaction, its audit record
included; a call that reverts changes nothing and is the action not being
enabled.  In the backend an action is what the event loop runs between two
awaits: one read with the checks on it, one transaction with its receipt, or one
save.  A request is a record that holds what it has read and the list of what is
left to do (`todo`, or `at`); lists of accesses such as `Script` in
`AuthService` and `AssetsService` follow the order of the awaits in the handler.
In `UsersService` the reads of the first check of an operation are one step: no
property compares rows read there with each other.  A request may end at every
await (revert, lost receipt, failed save, crash), after the receipt too, and a
transaction whose request is gone may still be mined (`JobsService`, `Grants`,
`ValidatorService`, `DeviceSigning`).  A save or an append that fails is taken
to have stored nothing.

* `AuthService`: `Arrive` is a request with whatever its client sends;
  `Read*`, `ConsumeIfUnused`, `Issue`, `Open`, `Close` and `Run` are its
  accesses; `SaveDevice`, `SaveCredential`, `Revoke*` and `ActivateWallet` are
  the saves of `UsersService` it races with.  Those write whole rows read several
  awaits earlier, so they may come at any moment and undo one another: an
  activation may write ACTIVE over a revocation.
* `UsersService`: one action begins each operation; `Revoke`, `Ensure*` are the
  transactions, `Save*` the saves, `ReadUser` the read `activateWallet` makes
  between its two saves, `Abandon` a failure anywhere.  The loop over
  the wallets a new one replaces is in `Pass`: when one is saved as REVOKED, the
  two steps of the loop come again for the next.
* `AssetsService`: `GetAsset` is one of the node's separate answers (owner,
  state, record), so that reads may be torn; `Submit`, `Revert`,
  `ReconcileAfterWrite`, `Save`; `Prepare` ends where a mutation would submit;
  `ForeignWrite` is a transaction past this backend.
* `EvidenceService`: `RequireJob`, `AssertCan`, `Store`, `SaveRecord`,
  `FindRecord`, `Cat`, `Complete`; `Corrupt` is the IPFS node.
* `ValidatorService` runs over the contract `ValidatorRegistry` itself; `Break*`
  are failures and crashes, one for each thing that is then left undone.
* `SendQueue`: `SendAs` up to its first await, `TakeTurn` (`await previous`),
  `ReadNonce`, `EstimateGas`, `Broadcast`, `Return` with `Finally`; `RelayRaw` is
  a device-signed transaction of the same wallet, `Forget` the node's pool.
* `DeviceSigning`: `NftRef`, `WalletOfIdentity`, `PrepareNonce`, `PrepareGas`
  build a call; `VerifySigned`, `Simulate`, `Relay`, `Receipt`, `Deadline`,
  `Known`, `Count` relay one; `Mine` and `Drop` are the node.
* `Rbac` has one request at one gate, of a user with a role and perhaps a grant
  in the rows, and a set of roles and perhaps a grant slot on the chain: `Passes`
  is the middleware's answer, `IsServed` that of the contracts to all calls of
  the handler.  `InStep` says that rows and chain agree on the two.
* `Grants`: `Activate` and `RevokeGrantee` are the contract's, in any order, so
  that an engineer may have two ACTIVE wallets; the history `shared` notes them.

Composed modules let the modules below them go on: `AssetNext` includes the
identity and role transactions, `JobNext` includes `AssetNext`, `ValidatorNext`
includes the identity and role transactions.  What `AssetsService` submits may
be refused by the contract for any reason (`Revert`): of the contract's
conditions `AssetsAllow` states those on the assets themselves, the others are
the caller's role and grant and the recipient's wallet.

**Left out.** Lengths and wording of texts, timestamps that are only stored, key
material, gas, required fields of inputs.  In `AssetsService`, the fallback of
`reconcileAfterWrite` for a node that does not know the asset whose receipt it
gave (`assets.service.ts:386-387`); in `DeviceSigning`, the development signer's
sends that move the count of a wallet (there they can only make the node refuse
what it might have taken; `SendQueue` models both senders).  Definitions marked *Faulty variant*
are not part of any specification: each is a wrong version of the definition
after it, and shows that the property it is paired with in `PROJECT.json` fails
when the code is wrong in that way.

## 3. Runs

| Run | Instance | Shows |
|---|---|---|
| `access` | 4 wallets, 2 identities, ADMIN and ISSUER, wiring at any time; every route, role, set of roles, grant and slot | access state stays consistent and accountable; gates and masks agree |
| `registries` | 4 tokens, one wallet; 1 bootstrap + 2 validators, heights to 5 | forest, lists, asset ids, life cycle; counts, notice |
| `transfers` | 2 tokens, 2 wallets, ENGINEER comes and goes, grants that expire; validators while the administrator changes | who may transfer, who owns; validators accountable |
| `jobs` | 3 wallets for 2 people, 1 job, 1 rejection | separation of duties, accountability, refinement of `JobLifecycle` |
| `jobs_service` | 2 people, 1 job, 2 requests at a time | row against chain; every request is answered |
| `auth` | 1 device with 2 keys, 1 token, 1 challenge, 2 purposes, 2 requests; 2 grants, 2 wallets of an engineer, 2 requests | single use, dead sessions, revocation of grants |
| `users` | an administrator and a person who registers, or an employee with a second device and 2 requests at a time | rows never ahead of the chain |
| `assets_service` | settings: 1 asset and 2 requests; 2 assets, all operations; a hierarchy of 3 that others rearrange | rows settle, checked assets are as the contract asks |
| `evidence` | 2 jobs, 1 record, 2 contents, 2 requests | intact answers, own evidence |
| `validators_service` | 1 managed validator and the bootstrap one, heights to 2, 4 changes, 2 people, 2 requests at a time, 2 failures | row, history and notices against the contract |
| `adapter` | 3 sends of one wallet for which other transactions are relayed and forgotten, nonces to 3; 2 people, 3 wallets, 2 signers, 3 types of intents, 2 signed transactions | exclusion, order, nonces, relayed as asked; everybody is answered |
| `jobs_service_judge` | as `jobs_service`, no pre-selected verifier | **violated**: a completed job nobody may judge |

Components that share no variable are checked in one run when they belong to one
question (`access`, `registries`, `transfers`, `auth`, `adapter`): the MC module
lets each go on while the other is as at the beginning (`MCNext`).  As neither
reads a variable of the other, and no property relates the two, every reachable
state of each is visited.  The two parts of the adapter do meet in the program,
at the node, which counts a wallet's transactions of both: `SendQueue` has the
other's in `RelayRaw` and `Forget`, with any nonce and at any moment, and
`DeviceSigning` gives a prepared transaction no claim on its nonce.

**Bounds.** `Wallet`, `Identity`, `AssetId`, `JobId`, `Validator`, `Person`,
`Send`, `GrantId`, `EvidenceId`; `MaxNft`, `MaxTime`, `MaxRejections`,
`MaxHeight`, `MaxEvents`, `MaxSigned`, `MaxNonce`, `MaxPool` and `MaxFailures`
(transactions nobody waits for, and requests that broke off, of
`validators_service`), `Slot`, `Together`, `Setting`.  Four
tokens are the fewest with a chain of three above or below a component and a
list in which first, middle and last element differ.  Three wallets for two
people are the fewest in which one person replaces a wallet in the middle of a
job while the other judges.  Heights to 5 allow an activation, a removal, a
restoration and a second removal of one validator to overlap with those of
another.  Two slots are the fewest with a race; an abandoned transaction is kept
and races with new requests.  One token and one challenge suffice for
`AuthService`: every row is addressed by its key, and two requests may present
the same one, which is the case that matters; two keys let a device be revoked
and registered again.  New challenges, and sessions without one, are asked for
one at a time while the instance has names left for them (`ChallengeLeft`,
`TokenLeft`).  Whether a client signed with the key in the row is left open at
the check.  Three sends of one wallet are the fewest in which a send
arrives while another is queued and a third leaves, and nonces to 3 leave one
more for the others' transactions; the theorems of `AdapterProofs` cover any
number.  Two failures let a receipt be missed and a save fail for one validator;
the theorems of `ValidatorProofs` have no such bound.  Two signed transactions of two signers and
three types of intents are enough to mix up signer, type and party.  A grant
that never expires and one that does, with a clock of one tick, cover both sides
of each comparison.  `MaxRejections` stands for the uint32 limit: `rejectJob`
reverts there.

**Views and symmetry.** The contract runs drop the audit log from the state
(`VIEW`): no guard reads it, and the properties that mention it look only at the
record appended by the step itself.  `auth` drops the block time, which only its
own action reads.  Symmetry is used where the permuted values are
interchangeable: asset ids, the non-bootstrap wallets of `jobs`, the
non-bootstrap validators, requests, purposes, keys and grants.  The runs with a
liveness property use neither.

**Deadlock** is not checked where the instance may legally come to an end: the
only administrator may revoke its own wallet, a verified job is finished, tokens
and challenges of an instance run out.  It is checked in the others.

**Fairness.** `JobsService`: weak fairness of `Answer(s)` for every request.
`SendQueue` and `DeviceSigning`: weak fairness of `Proceed(s)` and
`Answering(s)`.  This is what the Node event loop (every pending continuation
runs), RPC calls that answer or fail, and the deadline of `waitForReceipt` give.
Nothing is assumed of the chain: a transaction may stay unmined for ever, and
nothing makes a call fail.  As every send of an instance is made once, `SendsEnd`
says that in the end none is under way; `SubmitsEnd`, whose slot is used again
and again, that it is free again and again.

### The violated run

`jobs_service_judge`: `reject` stores the rejecting person in `verifierId`,
which also means "selected in advance".  Given the re-work, that person is both
the technician, who may not judge, and the only one who may.

### Known deviations

The sentences below are stated as definitions, under the heading *Statements of
the documentation that do not hold*.  The code violates each of them; to see the
behaviour, put the definition under `INVARIANTS` of the configuration named
(`PROPERTIES` for those marked *).

| Definition | Configuration | What the code does | What is said |
|---|---|---|---|
| `SomeAdminCanAct` | `access` | `revokeWallet` (`IdentityRegistry.sol:86`) takes the last ACTIVE wallet of the last ADMIN | `RoleRegistry.sol:54`: "or nobody could ever onboard or recover identities again" |
| `ActivationServed` | `access` | the activation route admits an ISSUER; the handler's WALLET_REVOKE and IDENTITY_CREATE are for an ADMIN (`users.service.ts:298`) | `docs/RBAC_MATRIX.md:34`: "`ISSUER` covers wallet activation" |
| `PromotedCanTransfer` | `access` | an ENGINEER who is made MANAGER is both on the chain, which asks for a grant first (`AssetRegistry.sol:127-134`): the gate passes, the contract refuses | `docs/RBAC_MATRIX.md:19`: the row "Transfer asset" has a tick for Manager and "auth" only for Engineer |
| `TransferCanBePrepared` | `access` | the prepare route drops the grant id (`assets.routes.ts:138`): an ENGINEER with a grant may transfer, not prepare | `assets.routes.ts:78-79` |
| `RowFollowsStateMachine` * | `jobs_service` | a request writes back the row it read before the job went round the rejection loop (`jobs.service.ts:126`) | the state machine in `jobs.service.ts:3` |
| `RevokedDeviceOffChain` | `users` | `revokeDevice` looks for wallet rows that are ACTIVE (`users.service.ts:242`); one the chain has activated may still be PENDING | `users.service.ts:244-245`: "This prevents PostgreSQL REVOKED / chain ACTIVE" |
| `ReplacementCanFinish` | `users`, with a second wallet of the administrator | the signer of an administrator who replaces its own wallet is the wallet just revoked (`users.service.ts:453`) | `docs/DECISIONS.md:25`: "can be revoked and replaced without losing role or history" |
| `ActivationRetryable` | `users`, with a third role | a pending role that was changed after ROLE_ASSIGN and changed back is not reported and cannot be assigned again (`users.service.ts:430`) | `users.service.ts:418-420`: "a valid, retryable activation checkpoint" |
| `ChainReportsNewRole` | `users`, with a third role | the contract adds a role and reports the lowest (`users.service.ts:326`) | `users.service.ts:324`: "The chain is authoritative for active role changes" |
| `RevocationIsFinal` * | `auth` | the later of two overlapping activations saves the row it read before a revocation (`users.service.ts:304`): the sessions of the wallet serve again | `docs/RBAC_MATRIX.md:47`: "Revoking a wallet or device invalidates applicable active sessions" |
| `RevokedEverywhere` | `auth` | `activateWallet` revokes the wallets whose row is ACTIVE (`users.service.ts:296`) and the contract activates any PENDING one: of two wallets in use `revokeGrant` names the newer, the older keeps the grant | `docs/DATA_MODEL.md:105-107`: a grant "may be revoked" |
| `ActiveRowHonoured` | `auth` | many grant rows, one slot per wallet (`users.service.ts:344`): a row may be ACTIVE and the slot empty | `docs/DATA_MODEL.md:104-106` |
| `NoLateEvidence` | `evidence` | the job is checked before the bytes are stored, the record saved after (`evidence.service.ts:67`) | `evidence.service.ts:115`: "only be uploaded while the job is IN_PROGRESS" |
| `UnknownIsNotFound` | `evidence` | the database repository maps null (`evidence.repository.ts:21`): a 500 | `evidence.service.ts:81`: `NotFoundError` |
| `ListedActiveIsActive` | `validators_service` | cancelling a removal writes ACTIVE before the activation height (`validator.service.ts:67`) | `docs/DATA_MODEL.md:280-281`: "a projection of successful on-chain ADD, REMOVE, and RESTORE transactions" |
| `RegisteredHasRow` | `validators_service` | an ADD whose receipt is late never gets a row (`validator.service.ts:85`) | the same |
| `OverlapsProject` | `validators_service` | of two overlapping requests the later save wins (`validator.service.ts:48`) | the same |
| `NonceStillFree` | `adapter` | a device-signed transaction of the wallet, relayed past the queue (`evm-adapter.ts:249`), takes the nonce between its lookup (532) and the broadcast (535) | `evm-adapter.ts:517-519`: "two concurrent requests can never claim the same nonce" |
| `GapMeansMissing` | `adapter` | the nonce is compared with the "latest" count: one that waits behind a pending transaction is called a gap (`evm-adapter.ts:632`) | `evm-adapter.ts:632`: "nonce gap: an earlier transaction is missing" |

`getAsset` puts an asset together from answers of different blocks
(`evm-adapter.ts:319`), so that what a client is shown may never have been the
state of the asset.  A mutation may also save such an asset: `RowSettles` says
nothing of the row when another mutation of the asset was mined before the save
(the asset is excused from then on), and nothing in the code repairs it but the
next write.

## 4. Properties

*Access* - `AdminCountExact`, `WalletLinks`, `RolesOnlyOfKnown` (invariants),
`WalletLifecycle`, `ChangesAccountable` (what a step may never do).
*Gates* - `GatesMatchChain`: the two tables, in both directions
(`GateServedByChain` and `ChainReachable`), for whatever set of roles the chain
has of the user.
*Assets* - `HierarchyAcyclic` (stated without a path: no non-empty set of tokens
is closed under `parent`), `ComponentListsExact`, `AssetIdsUnique`,
`OwnersResolvable`, `TransfersAuthorised`; `ImplementsAssetLifecycle` forgets
lists, indices, masks and grants (that a decommissioned asset changes hands or
parents no more is part of the abstract life cycle).
*Jobs* - `SeparationOfDuties`, `AssigneeKnown`, `JobsAccountable`,
`ImplementsLifecycle`.
*Validators* - `CountExact`, `ChangesAnnounced`, `ValidatorsAccountable` (one
record of an ACTIVE wallet of an ADMIN per change, which says what happened).  Of
the service `RowProjectsChain`: a row saved by the request of the newest
transaction is what the contract says, and every other row at rest is explained
by a missed receipt, a failed save or an older request that saved last;
`HistoryAndNotices` counts records and notices in the same way.
*Job service* - `RowMirrorsChain` says that row and chain differ only through a
transaction that took effect after its request was given up, or one whose row
had changed since it was read; `VerifiedIsVerified` needs no such excuse: the
database never claims a verification the chain has not recorded.
*Users* - `RowsNotAhead`: a wallet row claims nothing the chain has not done, and
a role in a row was given on the chain.
*Grants* - `RevokedIsRevoked`: what the contract still grants to a wallet in use
was never revoked, is being created, or lost its creator half-way, unless the
wallet was in use beside another one.
*Authentication* - `ChallengeSingleUse`, `DeadSessionsServeNothing`.
*Asset service* - `RowSettles`, with the excuses it names; `CheckedIsAllowed`:
undisturbed, the assets of a request the service lets pass are as the contract
asks of them.
*Evidence* - `ServedIntact`, `CompletedWithOwnEvidence`.
*Adapter* - `OneSenderPerWallet`, `FirstComeFirstServed`, `NonceNotShared`,
`RelayedAsAsked`; `CallersAnswered` (`SendsEnd` and `SubmitsEnd`).  That an idle
wallet leaves nothing in the map (`QueueForgotten`) is proved.

Each component has one type invariant (`TypeOK`, `AssetTypeOK`, `JobTypeOK`,
`...TypeOK`).  In the services, in `ValidatorRegistry`, `Grants` and
`DeviceSigning` it is the first conjunct of one of the invariants above, so that
one check covers both; some say more than types, such as that the CID of a record
is stored (`EvidenceTypeOK`) or that a removal lies after its activation
(`ValidatorTypeOK`).

## 5. Proofs

All theorems hold for arbitrary `Wallet`, `AssetId`, `JobId`, `MaxNft`, `Slot`,
`Token`, ... under the named assumptions of the modules (`BootstrapAssumption`,
`RegistriesAreContracts`, `AssignableAssumption`, `IdentityFinite`,
`AssetAssumption`, `JobAssumption`, `SendAssumption`, `ValidatorAssumption`,
`ServiceAssumption`, `GrantAssumption`, `AssetsAssumption`, ...), which say what the model values
are.  `Identity` must be finite because the admin counter is compared with a
cardinality, `Validator` because the population is, and the `Slot` of the
validator service and of device signing because requests are counted there
(those that owe a record, those that prepare a transaction); in
`GrantAssumption` no wallet is listed twice (a replacement is a new wallet) and
`MaxTime` is positive.

* `ContractProofs`, access: `AccessInv` (types, `AdminCountExact`, `WalletLinks`,
  `RolesOnlyOfKnown`) is inductive.  The counter needs the cardinality lemmas
  for adding and removing one element; the links need that an unregistered
  wallet is in nobody's list.  The lemmas are stated for the access part of any
  larger system (a step is an access transaction or leaves the access state
  alone), so that the other modules reuse them.  `AccessLogStep` does this for
  the audit log, which the registries share.
* `ContractProofs`, tokens: `AssetInv` adds the token invariants.  For the forest,
  the set of ancestors is closed under `parent`, so a set closed under the new
  `parent` would have been closed before, unless it holds the component and the
  component is an ancestor, which the guard excludes.  `ComponentListsExact` is
  what makes swap-and-pop well defined (index in range, no duplicates).
  `TransfersCorrect` follows the owner of one token through every transaction.
  `RefinesAssetLifecycle` first reduces a step to what it does to one token
  (`Minting`, `Transferring`, `Attaching`, ...), then maps it through `idByAssetId`;
  because ids and assets are in bijection (`AssetIdsUnique`) a change of one
  token is a change of one item, and `AncestorsAreAbove` (what the contract's walk
  does not meet is not above the item either) gives the guard of attaching.
* `ContractProofs`, jobs: `JobInv` adds the job properties and `VerifierKnown` (a
  recorded verifier resolves to an identity), which the refinement needs: a
  judge of the abstract life cycle must not change when wallets do.  The lemma
  `References` says what a step of the other registries keeps (identities of
  registered wallets, existing tokens); each job transaction is reduced to its
  effect on one record first.  `JobsAccountableCorrect` uses the same reduction
  and `AccessLogStep`.  `RefinesLifecycle` then shows that
  the initial state maps to the initial state and every step to a step or a
  stutter.
* `ContractProofs`, gates: for a route that writes to the chain with one call
  the row of the matrix *is* the mask (`RowIsMask`), whatever that mask is, and
  further roles of the user only add to what the mask lets through.  The one
  exception is a transfer, where the contract looks for ENGINEER first: there the
  theorem asks that rows and chain be in step.  The routes for an ADMIN call only
  what an ADMIN may; the others call nothing.
* `ValidatorProofs`, registry: `ValidatorInv` says that `_validators` repeats
  nothing, lists exactly the registered addresses and no bootstrap one.  Hence
  the walk of `validatorCountAt` is a bijection between places and active
  validators (`CountCorrect`).  `ValidatorsAccountableCorrect` looks at each
  transaction's record: only a restoration finds its validator outside the
  current set and puts it in, because additions lie ahead and a removal that has
  taken effect cannot be cancelled.  (The guard of `removeValidator` on the
  minimum population, line 76, never refuses: the constructor asks for that many
  bootstrap validators, and those are never removed.)
* `ValidatorProofs`, service: in `ServiceInv` each accepted transaction is in the
  history, missed, broken off, or owed by exactly one request (`EventsCounted`),
  and each record of the history has its two notices, a loop that broke off, or
  is owed them by one request (`NoticesCounted`); every step moves at most one
  request between these sets.  `ServiceImplementsRegistry` shows that its
  transactions are the registry's, so that `ValidatorInv` holds here too.
  `RowCorrect` holds for any number of overlapping requests: at most one request
  is about to save the newest transaction of a validator, and what it will write,
  although put together from a row read before, has the heights of the contract
  as long as it is the newest.
* `AuthProofs`, grants: by `GrantInv` a wallet is noted as soon as it is in use
  beside another (`SharedRecorded`), so that any other wallet in use is the one
  `walletOfIdentity` finds (`WalletFound`); a grant is created by one request of which
  nobody knows before its row is saved (`CreatedOnce`), what the contract grants
  was granted by a creation that got that far (`GrantsKnown`), and a row says
  REVOKED only after the grant was withdrawn from every wallet in use
  (`WithdrawnFirst`).  The theorem is the last two together.
* `AuthProofs`, sessions: `AuthInv` says what a request knows at each place of
  its script (`todo` is a suffix of `Script`): the challenge it read was issued
  for this device, session and operation, and that what it relies on
  lasts through the steps of all others (`Evolves`: sessions and challenges keep
  what they were issued for, a dead session stays dead).  A revoked wallet does
  not stay revoked; a request that began with one is refused at the read of the
  wallet, unless the row was overwritten by then.
  The conditional update is the one place where two requests with the same
  challenge meet, and only one of them gets past it.
* `UsersProofs`: `UsersInv` gives each request a place in the script of its
  operation (`Stands`): what it has left to do is the script from there on.
  `Holding` is what it has in hand, such as the wallet of the right person and
  the wallets still to be revoked, or the user row it has read; `Confirmed` is what its earlier transactions
  did.  The latter is about a chain that other requests change, and lasts
  because the chain only grows: a REVOKED wallet stays REVOKED, an activated one
  is at most revoked, roles are added (`Grows`; `StandsStill`).  A save then
  claims what is confirmed (`SaveWalletKeeps`, `SaveUserKeeps`), also when it
  writes a row read long before, and a request that ends half-way leaves rows
  that lag.  The replacement is at its first two steps once per wallet, however
  many there are (`LoopAgain`).  An identity row read as PENDING may be saved by
  a slow request after an activation: it then says PENDING again and claims
  nothing.
* `JobsServiceProofs`: `ServiceInv` gives, for each operation, the statuses it
  can start from and the one it leads to, in the row and on the chain (`From`,
  `To`).  `OneWins` is the key: of two operations that apply to the same row
  one excludes the other, so that of all requests that read a row at most one
  has a receipt for it and the row lags by that one (`Mirrors`).  `VerifiedIsVerified` is part
  of the invariant, because VERIFIED is final on the chain.
* `AssetsServiceProofs`: by `AssetsInv` what a request has left to do is one of
  a few shapes (`OnScript`), each answer it holds is of its kind (`GotSound`),
  and a request that is alone knows what its reads and checks have shown
  (`Known`); in the walk the assets visited so far are closed under parent up to
  the one it stands at, so that at a root nothing above the new parent was
  missed (`WalkEnds`), however deep the hierarchy.  `Settled` divides the assets
  without an excuse into those whose row is what the chain says and those that
  exactly one request has written and not saved; what that request has read back,
  answer by answer, is still what the chain says, since any other transaction on
  the asset leaves an excuse.
* `EvidenceProofs`: `EvidenceInv` says that a record stands for bytes the node
  accepted, under their hash, and that a request that has looked up a record
  carries its hash on (`Holds`).  That records are never overwritten (`Grows`)
  is what keeps this true while the request awaits the storage node.
* `AdapterProofs`, queue: `QueueInv` consists of the types, `NonceNotShared`, that
  the node holds the nonce of a send it has taken (`TakenHeld`), and four parts about the chain of promises: the tail in the map is the last send that
  came (`TailLast`), a send that waits is linked to the one just before it
  (`LinksBack`), a send that need not wait came before all others of its wallet
  and no two share a place (`HeadFirst`), and only such a send does anything
  (`TurnTaken`).  Exclusion, order and the emptied map follow.  `NonceNotShared`
  is kept because a nonce is read by the send whose turn it is, and is one the
  node does not hold, so that no earlier send claims it; what others relay and
  what the node forgets can only end a claim (`NoNewClaim`).
* `AdapterProofs`, device signing: `Asked` says what a request holds at each
  await: a transaction some device signed, a wallet of the party once there is a
  plan, and from `verifySignedTransaction` on a transaction that equals the plan.
  The wallets activated and revoked meanwhile do not matter, since the plan is
  not made again.  That a prepared nonce fits into the bound needs a count:
  every nonce below the count of a wallet is that of a transaction it signed
  (`NoncesSigned`), so that the pending count, the least free nonce, is at most
  the number of signed transactions (`PendingFree`), and those and the ones
  still being prepared are at most `MaxSigned` (`SignedBounded`).

Assumed of the constants of `UsersService`: `Wallet` is finite, because the
wallets to be replaced are listed, and the roles come in an order.

Only model-checked: liveness (`RequestsAnswered`, `CallersAnswered`), since
fairness and ENABLED are beyond the prover.

## 6. Plan

Every invariant and every action property of the passing runs is stated by a
theorem.  What could be added next: `createUser` and
`requestProvisioningChallenge`, and `UsersService` over the contract modules
instead of its own mirror of them.

## 7. Not modelled

* `createUser` and `requestProvisioningChallenge` (`UsersService`).  The first
  saves the identity and the user row of an employee; in EVM mode it refuses an
  identity the chain does not know, and when the chain reports another role it
  submits ROLE_ASSIGN before the saves (`users.service.ts:56-66`), the order of
  transaction and saves `assignRole` has.  The second inserts one new row.
* Integrity log and audit reads: copies and hashes of what was saved, read by no
  other part.
* The mail provider, HTTP parsing, the container, the user interface: no state
  another part relies on.
* `ensureNetwork`, event decoding and the other reads of the adapter: they end a
  request or fill an answer; failures are in the models.
* The consensus layer (its source is not in this repository), the simulator, and
  the scripts that start and verify a development network.
