# Open Social Protocol: formal models

TLA+ models, model-checking configurations and machine-checked proofs for the
Open Social Protocol: contracts on the Koinos blockchain, a sponsor service
that pays for users, an indexer that follows the chain, and a browser
extension that cross-posts. Every definition is translated from the code;
`PROJECT.json` ("map") names the lines each one stands for.

Contents: [the system](#the-system), [how it is modelled](#modules-and-the-code),
[what the runs show](#what-the-runs-check), [fairness](#fairness),
[what is proved](#what-is-proved), [disagreements found](#disagreements-between-the-code-and-its-documents),
[what is not modelled](#what-is-not-modelled), [plan](#plan).

## The system

| Component | State it keeps | Operations | Talks to |
|---|---|---|---|
| Identity contract (`packages/contracts/identity`) | owner, key version, profile, device epoch; device records; recovery policy, queued policy change, pending recovery | register, profile, key rotation, devices, recovery policy, guardian recovery | asked by every other contract for authority (`common/actor.ts`) |
| Relationships contract | friendship edge of each pair with a nonce, blocks, follows, audience epochs | request, accept, remove, block, unblock, follow, unfollow, rotate | asked by publications and messaging |
| Messaging contract | one conversation per pair, message records | request, accept, close, send | relationships (blocks), token (metering) |
| Publications contract | post records, author state, idempotency keys | publish and edit, lifecycle, react, record a cross-post, distribute keys | relationships, token |
| Token contract | balances and regenerating credits, supply, reward policy, rewards of the day | consume, transfer, burn, support, set policy | called by every metered operation |
| Registry contract | the active and the proposed contract of each name, the administrator | propose, apply, cancel, deprecate; hand the administration on, under time locks | read by clients |
| Communities contract | communities, roles with ranks and expiry | create, roles, policy, labels; hand the ownership on under a time lock | read by clients |
| Sponsorship contract | sponsors, grants to users | set, deactivate, grant, revoke | read by clients |
| Generated messages (`assembly/proto`, `encoding.ts`, `protobufNoEval.ts`, `decode.ts`) | none | encode, decode, canonicalise, correct | every party |
| SDK (`packages/sdk`) | none that lasts, except a sponsor pool's cooldowns | transactions, sponsor failover, reconciliation of cross-posts, encodings, encryption | node, sponsors, indexer |
| Extension (`apps/extension`) | cross-post records and vault in `chrome.storage.local`; a session in memory | propose, confirm, retry, reconcile, sweep, mark the host side, prove, discard; create, unlock and lock the vault, authorize its device, remove it | SDK, host pages |
| Indexer (`apps/indexer`) | SQLite: checkpoints, event log, projections | sync, rollback and replay; a read-only API | node |
| Sponsor service (`apps/sponsor`) | SQLite: usage and counters by day; burst windows in memory | validate, reserve, co-sign, broadcast, charge or give back | node |
| Web application (`apps/web`) | local vault and key store | a composer, friends-only keys, readers | SDK, indexer |

Behaviours that are hard, by component:

* **Contracts.** A call is atomic (it reverts or it does everything), but it was
  signed earlier, by one of several keys, against a state that may be gone:
  approvals of a guardian set that has been replaced, an acceptance of an
  invitation that was closed, an edit of a version that is no longer the last.
  Several calls in a legal order may lead where none of them alone could:
  a friendship may end in four ways, and each must rotate the right keys.
  Allowances are integers and round at each settlement.
* **Extension.** The browser may suspend the service worker at any `await`, the
  node may not answer, a transaction may land long after it was given up, and
  a retry builds a different transaction. At most one post must come of it.
* **Extension vault.** Its calls wait for storage, for a key derivation of a second
  or for the chain, and are not serialised. One that is authorizing a device may
  find another vault when it comes back, and must not strip that one of its seed.
* **Indexer.** The head and the blocks are read in separate calls while the
  chain changes branch; nodes fall behind; the process may stop between two
  blocks.
* **Indexer tables and answers.** Events tell single changes; rows must add up
  to what the contracts hold, also where one call changes several records, and a
  replay must give the same rows. Pages are cut while posts are edited.
* **Audience keys.** A device reads an epoch, then who is a friend, then sends;
  friendships change in between, another device opens the epoch first, and an
  answer may be missing.
* **Sponsor service.** Requests overlap while each waits for the node, midnight
  passes in between, the process restarts. Who may act for an account is decided
  by the contract later and guessed by the service now.
* **Messages.** Contracts are deployed one by one, each with its own generated
  copy of the others' classes; clients encode dynamically, the indexer corrects
  what its decoder leaves out.

The properties that make each component correct are those named under
[what the runs check](#what-the-runs-check); `PROJECT.json` ("hazards") lists
what can go wrong at which line, and which property would notice.

## Modules and the code

Contracts and their environment:

| Module | Models | Extends |
|---|---|---|
| `Identity` | `identity/assembly/Identity.ts`, authority of `common/assembly/actor.ts` | |
| `Relationships` | `relationships/assembly/Relationships.ts` | |
| `Messaging` | `messaging/assembly/Messaging.ts`, beside the relationships contract | `Relationships` |
| `Publications` | `publications/assembly/Publications.ts` | |
| `Chain` | block time, and an indexer that hears every event | |
| `Registry`, `Communities`, `Sponsorship`, `Token` | the contracts of those names | `Chain` |
| `Contracts` | the four beside each other, their reads, and the refinement mappings to `TimeLock` | all four |
| `TimeLock` | abstract: a value that changes only to one announced for the whole delay | |

Clients and services:

| Module | Models | Extends |
|---|---|---|
| `CrossPost` | `extension/src/background/crosspost.ts`, the parts of `publish.ts` and `app.ts` that an attempt goes through, `sdk/src/reconcile.ts`, outcomes of `protocolClient.ts` and `sponsor.ts`, and of the publications contract the two checks that decide an attempt | |
| `Vaults` | `extension/src/background/vault.ts` and its handlers in `app.ts`, `authorizeDevice` of `publish.ts`, `sdk/src/vault.ts`, `shared/storage.ts` | `CrossPost` |
| `AudienceKeys` | friends-only posts of the web application (`composer/publish.ts`, `usePublish.ts`, `friends/actions.ts`, `keystore.ts`, read again with `decrypt.ts`, `keyProvenance.ts`) and of the extension (`publish.ts`, `keystore.ts`); `sealEpochKey`, `encryptContent` and their inverses of the SDK by what opens what | `Relationships` |
| `IndexerSync` | `indexer/src/sync.ts`, calls of `chain.ts`; its log feeds the projections | `Queries` (instance) |
| `Projections` | `indexer/src/projections.ts` and the keys of `db.ts`: every event applied to the tables | |
| `Queries` | `indexer/src/queries.ts`: what the API answers from the tables | `Projections` |
| `Sponsor` | `sponsor/src/server.ts` `sponsor()`, `quota.ts` | |
| `SponsorAdmission` | `sponsor/src/validate.ts`, `policy.ts`; `checkPrepared` and `verifySponsorResult` of the SDK | |

Compositions:

| Module | Composes |
|---|---|
| `IdentityIndex` | identity, its events, projections, queries |
| `SponsoredIdentity` | `IdentityIndex` with the sponsor's admission and the extension's device page |
| `RelationshipsIndex`, `PublicationsIndex` | the contract, its events, projections, queries |
| `Social` | relationships with messaging, audience keys and the indexer |
| `Contracts` | as above, with the indexer |

Messages: `WireTypes` says how a schema is written; `IdentityWire`,
`SocialWire` (relationships and messaging), `PublicationsWire` (publications and
token) and `GovernanceWire` (registry, communities, sponsorship) hold one definition for
each generated message class, `CallWire` the classes contracts have of each
other, `SdkTypes` the SDK's hand-written types; `Wire` encodes, decodes,
canonicalises and corrects. `ApiViews` extends it with the other kind of message,
the documents of the indexer's API: the columns they are made of, the members the
routes give them, and the types the two clients declare.

Theorems: `IdentityProofs`, `PublicationsProofs`, `ContractsProofs`,
`CrossPostProofs` (with `Vaults`), `IndexerSyncProofs`, `SponsorProofs`, each about
the module of its name, and `SocialProofs` about `Relationships`, `Messaging`,
`AudienceKeys` and their composition `Social`;
`SumTheorems` holds what they need of sums over finite sets and of smallest elements.
`MC*` are the instances that TLC checks; `ApiViews`, `CrossPost`, `Vaults` and
`Sponsor` need no definitions for their instances and are checked as they are.

Conventions. Actions and record fields keep the source's names. An action of
a contract is a whole method: its guard is the conjunction of the method's
`System.require` conditions, and a call that would revert is no step. A method
is taken with arguments that any client could send, including ones based on a
state that has passed. Metering by the token contract can make any call revert
and so needs no action of its own. Hashes, ids, links and envelopes are members
of small sets; labels, reasons and event payloads are left out. Variables under
the comment "History" record what happened and are read by properties only.
Some helpers have a wrong twin next to them, marked "(mutant: ...)": the way
the code would look with a plausible mistake. They are used to confirm that
each property notices one; no action uses them.

* **Identity.** `now` is the head block's time (`Tick` is a block). `None` is an
  absent record. `Resolve` is the contract's `resolve` with its reason left out.
  A call carries the key that signed it (`signer`), which is any address.
  History: in which tenure of the account, and when, a device was granted, a
  policy change queued, a quorum reached; and which guardian backed which
  candidate.
* **Relationships.** `edges` is the record stored under the unordered pair;
  `Advance` is `advanceEpoch` with its overflow check. History: `unseen[a][b]`,
  the first audience epoch of `a` whose keys `b` never held, and `willing`, who
  agreed to the present friendship.
* **Messaging.** One conversation for each pair; a call names a generation.
  Blocks come from the relationships contract that runs beside it.
* **Publications.** A post id is the triple the code hashes (author, sequence,
  first content). A signer is a kind of key with capabilities; which key has
  which is Identity's business. Edits and first versions are two actions since
  `publish` branches on `previous_version`. `react` and `distribute_keys` emit
  an event and store nothing.
* **Token.** `load` settles the credits up to `now`, rounding down as the code's
  unsigned division does. Subtractions are on integers, so a result below zero
  would be seen by `TokenTypeOK` (in `LedgerSound`) instead of wrapping around.
* **Registry, Communities, Sponsorship.** An actor is the account named in the
  call, whose authority is Identity's business. What replaces an entry, an
  announcement or a role is in one action with the events it emits, which go
  to the tables at once. History: `replaced`, the entries and proposals in whose
  place others were put, until they are proposed again or the name's proposal is
  cancelled; `outgrown`, the roles that accounts had when the ownership came to
  them, until their role is set again.
* **Contracts, Social.** The indexer's rows of one contract depend on no other
  contract, so a variable `focus`, chosen at the start, says which component
  acts in a behaviour. No interleaving that matters is lost: in `Contracts`
  the four share nothing but the time; in `Social` what messaging and the keys
  take from the relationships contract acts with them (blocks, with the
  messages; friendships, with the keys).
* **CrossPost.** One attempt. `record` is what is in storage; `worker` is the
  task of the service worker, with one phase for each stretch of code between
  two awaits that matter; `crash` may happen in each of them and keeps only what
  was stored. A *build* number stands for content hash and post id of one build,
  since each publication contains the time. The payer is part of the header that a
  transaction id hashes (`sponsor.ts:99-108`), so one build may go out in several
  transactions: an id is a build with the number of payers asked before (`IdOf`),
  and `boundBy` is the transaction that created the post. `flight` holds
  transactions that were sent and may still execute. Any failure of the sponsor
  is followed by the next payer, as `SponsorPool` does, and at last by the owner.
* **Vaults.** `vault` is the record in local storage, `session` the one in session
  storage, `cached` the memory of the worker: sets of at most one. `calls` holds the
  calls under way, each with the phase between two awaits and what it has read; a
  read of storage takes the value of the moment it is issued. A wrong passphrase and
  every error is `Fails`: the call ends where it is. `stopWorker` ends all of them,
  and with the browser the session too. A seed is named by its account, and what is
  derived from it is another slot. Passphrases, encryption key versions, the clock
  of the automatic lock (which may lock at any time) and the caches of keys are left
  out; reading the status changes what `requireSession` changes.
* **AudienceKeys.** A device keeps the phase of its publication and what it has
  read. Missing answers, failures and another device of the same author are
  actions. Keys are numbers in the order they are generated. Posts are read at any
  time, the author's own among them (`Resolve`): reading caches a copy, and any copy
  may be the one that is served first. A device prepares one transaction at a time;
  `Forgetful` names those whose keys may be dropped while it does (`ForgetKeys`).
* **Projections, Queries.** A table is a set of rows, an event a record of the
  fields that decide something. `Upsert`, `InsertOnce` and `Update` are SQL's
  statements over the primary keys of `db.ts`. Pages are cut by position.
* **SponsorAdmission.** The checks in their order with the category each
  refuses with. A hash is what it is taken of, so equal only to the hash of the
  same; a signature is the address it recovers to.
* **Wire.** A field is its number, its kind and whether it repeats. A message is
  a sequence of tagged fields. 32 and 64 bit integers have the widths `MaxU32`
  and `MaxU64`, so that what is written by the wider type and read by the
  narrower is cut as in the code. An older version of a class is one without its
  last field.
* **ApiViews.** A type of TypeScript is a record of what it is and of its members;
  a document is a tree of values that say only what they are, with a row, a
  column that may be null, a further page and a redacted post each there or not.
  A parameter is one of the forms the parsers tell apart: an address, an id,
  digits, a position. A request is a run that starts with the empty message, and
  a client that pages asks again with the cursor it was given.
* **IndexerSync.** A block is the path of branches from genesis, so that
  "previous" is the front of the sequence and two blocks of one height on
  different branches differ. `log` stands for checkpoints and event log, which
  are written in one SQLite transaction. `sync` is the step in progress, with
  one phase between each two calls to the node.
* **Sponsor.** Each request keeps the `at` it read before it was validated, and
  goes through `validating`, `held`, `sent`. `reserve` is one synchronous step.
  The node takes a transaction that is on the wire at any time, also after the
  service gave up on it.

## What the runs check

Passing runs (every property is also shown to fail for a mutant of the code):

**wire**: every message of the contracts, each field alone and all at once,
from clients and contracts, through contracts whose classes lack the last
field, to clients, contracts and the indexer. `RoundTrip`: what was meant
arrives, enums, lists and defaults included. `CanonicalBytes`: what a client writes has its
fields in order and no defaults, and keeps that form when a contract stores it again. `ClientsTyped`: an answer of a contract has every member that the
SDK's type promises (`ResultsTyped`), and so has every document of the indexer's
API that the web application or the extension asks for, with or without a
deployment, for rows that are there, missing, redacted or partly null; no client
is refused for a parameter of its own making, cursors of earlier answers
included, or sends one that the route does not read (`AnswersTyped`). Integers are 2 and 3 bits wide: one value of each fits
the one and not the other.

**identity**: one account, three guardians, two candidate owners (one a
guardian, one a device key), policies of different delay, threshold and guardians (two of
them invalid), four time units. `RecoveryQuorum`, `OwnerChangeVetoable`,
`PolicyChangeDelayed`, `DeviceAuthorityFresh`: an owner change always left the
owner a full, uninterrupted window to object, and neither a queued policy nor a
device outlives the owner it came from. Four units are enough for a policy
change and a recovery under the new policy, or two recoveries; delays are at
most two. Accounts do not share records, so one is enough; the proofs cover any
number. `IdentityMirrored`: the indexer's rows, built from events only, are the
contract's records, with nothing pending that has been voided. `ActorsServed`:
whoever the contract lets act, the sponsor would pay for, its client accepts the
answer and nothing in its place, and the extension's device page says the same
of a device as the contract does.

**social**: two accounts. Focus *graph*: edges that change up to seven times,
five epochs, that is, all orders of two friendships with every way out of them:
`BlockSevers`, `MutualConsent`, `FormerFriendsLoseKeys` (who is not a friend
has never held keys of the present audience epoch), `SocialMirrored` (rows,
graph and notices are those of the contract). Focus *messages*: two message ids,
two envelopes, generations up to 2, numbers up to 3, with blocks made and lifted
between the calls: `ConsentToGeneration`, `SequenceDense`, `ClosedStaysClosed`;
calls compare generations for equality only, so a third adds nothing. Focus
*keys*: the author's web application and extension, two generated keys, edges
that change three times (`FewChanges`): befriend, part, ask again.
`KeysReachReaders`: the author, and every friend that the web application found
while it wrote a post, opens the post from what is on chain, whichever answers were
lost and whichever copy of an epoch with two keys the reader cached first. Which
keys the indexer serves to whom is part of `SocialMirrored`. `Forgetful` is empty
here; filled, it shows the one way around the promise (*Further observations*).
`WebSealsToMembers`: the web application seals to nobody who had left before it
asked.

**contracts**: `ContractsMirrored`: what the indexer serves is told exactly.
Communities with their owners and transfers, sponsors, grants and balances are
those of the contracts. Registry entries are those in force and proposed and, beside
them, those they replaced; none that is listed as active or deprecated is newer than
the contract's. Roles are those of the contract and those it dropped when their
account became the owner. `TimeLocked`: a registry entry, the registry's administration and a
community's ownership each implement `TimeLock` under the mappings `Upgraded`,
`Administered` and `Owned`: no entry, administrator or owner comes into force
before its announcement stood for the whole delay, replaced, withdrawn and
proposed again as it may have been. `PendingNewer`, `OwnerHasNoRole`.
`LedgerSound` (supply equals balances, credits stay within what tokens carry,
rewards within both daily caps after the caps are lowered) and
`NoFreshCapacity` (no call but a mint creates credits). A day of three units and
tokens of two credits make divisions leave remainders; time runs over a day's end.

**publications**: two authors, an owner key and a device that may publish but
not comment, three publications. `SequenceDense`, `OutcomesTraceable`,
`EditsChained`, and `PostsMirrored`: posts, versions, threads, outcomes and
feeds are served as the contract has them, hidden posts without content, and a
walk through the pages of a feed meets every post once. Three is the least
number with a reply to a reply, with an edit of an edit, and with three pages.

**crosspost**: two builds, one payer to fail over to, two posts of the author
(one of them made elsewhere), the user reporting two different links.
`OnePublication`, `RecordTruthful`, `NodeTimeoutsLookedUp` and the
liveness property `AttemptsResolve`. Two builds, each in up to two transactions,
are needed for an unanswered publication, a retry that collides with it, and
transactions of two payers of the same post of which the other one lands. (The
safety properties also hold with three builds, and with two payers to fail over to;
both take longer.) In its other focus
the run explores the vault, with two seeds, two calls at a time and two generated
device keys. `VaultSound`: whatever overlaps and wherever the worker stops, a vault
holds the seed of its account, as a file that can be imported elsewhere, or only
what a device needs, and then its device was authorized on chain for that very
account; a session is the one or the other. Two of each are what it takes for a
call that authorizes a device to come back to the vault of another account.

**indexer**: batches of two blocks over a chain of four, two changes of branch,
a reversible window of three, two faults (a node that is behind or fails, a
crash), blocks with reverted transactions and events of other contracts.
`LogServed`: the log is served
without a gap or a repeat under any limit, whole blocks at a time. `TablesReplayed`: the tables are those of
an indexer that applied this chain only; that the log is one chain (`Linked`) is proved. `RollbackSound`, `FinalKept` and the
liveness property `ConvergesUnlessOvertaken`. With a batch smaller than the
chain a fork may be met at the first, in the middle and at the tip of a batch,
and the second change of branch may hit the repair of the first.

**sponsor**: three requests of one or two operations, quotas that two of them
fill, two days of two units, a window that spans midnight, one restart.
`QuotaAccounted`: the day's charge is exactly the operations that were, or may
still be, paid for, and the published aggregate is the sum of the users' rows,
midnight or not. `BurstBounded`: within the life of a process the window
holds, though requests are validated out of order.

The four remaining runs are expected to find a violation; see
[below](#disagreements-between-the-code-and-its-documents).

Type invariants of the modules that no run lists (`MsgTypeOK`, `TypeOK`) say
which states the variables range over; those of identity, relationships,
messaging and publications are part of the proved invariants.

Where a model stops because of a bound (nonces, publications, time), the run
says `CHECK_DEADLOCK FALSE`; the indexer and the publications runs check for
deadlock.

## Fairness

* `CrossPost`: weak fairness of `age` (time passes) and of the running task
  or its suspension; strong fairness of `sweep`, the periodic alarm: it
  fires for ever, and the guard may be false for moments, while a task is
  running or right after the user touched the record. No fairness is assumed of the user,
  of the node's answers, of a late transaction or of the indexer.
* `Vaults`: none; a call may hang for ever.
* `IndexerSync`: weak fairness of `Step`, since `start` polls for ever. None of
  the chain; the bounds on branches and faults make the environment rest.
* The contracts and the sponsor service promise nothing that must eventually
  happen: any client may stop.

## What is proved

Seven modules prove, for every number of accounts, guardians, devices, names,
communities, posts, builds, requests, blocks and every bound, from the ASSUMEs
in the modules, which say only that constants have their types, that absent
records are no records, and what is said below:

* **Identity** (`AddressAssumption`, `ArgumentAssumption`, `LimitAssumption`,
  `NoneAssumption`): `TypeCorrect`, `RecoveryQuorumHolds`,
  `OwnerChangeIsVetoable`, `PolicyChangeIsDelayed`, `DeviceAuthorityIsFresh`.
  None of the four is inductive: that a quorum stood for the whole delay needs
  to know *when* it was reached. `IInv` adds `RecoveryInv` (effective_at is the
  time of the quorum plus the delay in force, in the present tenure),
  `BackedInv` (an approval was given to the candidate it counts for),
  `PolicyInv` (the same of a queued change), `EpochInv` (device epoch and tenure
  grow together) and `DeviceInv` (a device of the present epoch was granted in
  the present tenure). `ApprovalsGrow` bounds how a set of approvals grows;
  `OwnerFrame` and `PolicyFrame` say that only one action each changes an owner
  or replaces a policy, and the two action properties follow from `IInv` there.
  `IdentityAlwaysMirrored` proves that an indexer which only reads events shows
  what the contract has. `MirrorInv` says what each table holds: one row for
  every registered account and every stored device, with the contract's own
  values, and nothing else; and that an account without an owner has no policy.
  A recovery that voids a policy change, and a policy that voids a recovery,
  are two events, folded one after the other (`OneEvent`, `TwoEvents`); one
  lemma per action compares the rows after its events with the contract after
  its writes.
* **The sponsor's admission of an identity's calls** (with `SponsoredAssumption`: the
  sponsor is nobody's address, and an empty field is told from a name):
  `ActorsAlwaysServed`. No state is ruled out but those without types, so nothing
  inductive is needed beyond `TypeCorrect`; the property ranges over
  every account, signer, call and answer instead. `CallsPayable` goes through the
  kinds of call: whoever the contract would take the call of is the actor the sponsor
  finds, or an owner it looks up (`AccountBound`, `DeviceResolves`). A transaction is
  admitted when no check fails, and refused with the first that does (`NoneFails`,
  `OneFails`); `PreparedAdmitted` goes through the checks of what the client prepares,
  `AnswerServed` through those of what it takes back.
* **Relationships** (`RelationshipsAssumption`): `RelTypeCorrect`,
  `BlockAlwaysSevers`, `FormerFriendsAlwaysLoseKeys`, `FriendshipIsMutual` and
  `EdgesAreVersioned` (every change of an edge takes a larger nonce). `RelInv`
  adds `PendingInv` (the requester of a pending edge is willing) and `SharedInv`
  (a friend's first unseen epoch is the next one). `EdgeStep` treats all
  actions that change one edge alike, `AdvanceFacts` and `ShareFacts` say what
  rotation and sharing do.
* **Messaging** (`MessagingAssumption`): `ConsentAlwaysToGeneration`,
  `SequenceAlwaysDense`, `ClosedGenerationsStayClosed`, over the specification in
  which blocks come and go. `MsgInv` adds to the types that whoever asked
  for a conversation agreed to its generation, and that closed generations lie
  before the open one; the action property needs both.
* **Audience keys** (`AudienceAssumption`: no device is both a web application and
  an extension), over `AudienceSpec`, in which friendships change between any two
  steps of a device: `KeysAlwaysReachReaders`, `WebAlwaysSealsToMembers`.
  `AudienceInv` adds what devices know: whatever a device has stored, or plans
  to use without sealing it anew, is sealed on chain to the author and to the
  holders it notes (`EntriesReach`, `PlansReach`), and whoever the web application
  is about to seal to was a member in the epoch it read (`PlansMembers`). That
  needs `FriendsHold`: the first unseen epoch of a friend is *always* the next one;
  `SharedInv` bounds it only from above. `addRecipients` is right because a store
  has one entry of an epoch (`OneKey`) and the entry of the key that a device is
  about to hand over stays until it is answered (`PlanKept`); a device that forgets
  its keys halfway breaks the second, and the theorem excepts it. `PostsReach` says
  of the posts what was sealed; `SealedReads` opens them with it.
* **Publications** (`PublicationsAssumption`): `SequenceAlwaysDense`,
  `OutcomesAlwaysTraceable`, `EditsAlwaysChained`. `PubInv` adds the types and
  that numbers start at one. `BoundOnce` is why a key goes on naming its post.
* **The indexer's rows of posts** (`PublicationsAssumption`, and of the value that
  stands for no post that it is no id, account or number): `PostsAlwaysMirrored`.
  `MirrorInv` of `PublicationsProofs` says that there is one row for each post,
  inserted in the order of its author's numbers, and one for each version, outcome
  and block; a post's row follows the last version and the lifecycle, which are two
  kinds of event. What remains is the walk through a feed. A page is the rows left
  after a cursor, cut at the limit; the walk is a recursive function on the number
  of rows left, and that its pages put one after the other are the whole feed is
  shown at a smallest number for which they are not (`PagesExist`, `PagesUnfold`).
* **The indexer's rows of accounts, messages and keys** (the assumptions of
  relationships, messaging and audience keys): `SocialAlwaysMirrored`. `MirrorInv` of
  `SocialProofs` says that in the part in focus the rows are those of the state and
  that other tables are empty. The work is where an event says less than the call
  changes: a `blocked` event names two accounts, from which the indexer must end the
  edge, the follows of both sides and the audiences exactly where the contract did
  (`BlockRows`, `EdgeEnded`). A conversation's row is what it was when its *state* last
  changed, not its numbering since; rows of sealed keys are numbered in the
  order of the envelope, so that a package for many recipients needs the recipients
  to be finitely many (`Finitely`: accounts register one at a time). `GraphReads`,
  `MessageReads` and `KeyReads` then evaluate the queries on such rows.
* **Registry and communities** (`RegistryAssumption`, `CommunitiesAssumption` and
  the two of absent records): `PendingAlwaysNewer`, `OwnersHaveNoRole` (with
  `RolesInv`: a community that does not exist has no roles), and three
  refinements of `TimeLock`, by state functions as mappings:
  `UpgradeImplementsTimeLock`, `AdministrationImplementsTimeLock` and
  `OwnershipImplementsTimeLock`, together `AllTimeLocked`. Every step maps to a
  step of the lock or to a stutter; a name whose entry is deprecated, and a
  community that does not exist yet, are the cases in which the mapping matters.
* **Token** (`TokenAssumption`): `LedgerAlwaysSound` and
  `CapacityComesFromMints`. `TokenInv` adds that an account that is not stored
  holds nothing and that no reward is dated after the network's day, without
  which the rollover at midnight would count a recipient's old rewards as
  today's. That rounding creates no credits when a balance is split is
  arithmetic on quotients and remainders, in lemmas of its own.
* **The indexer's rows of these contracts** (with `SponsorshipAssumption` and
  `SponsorshipNoneAssumption`): `ContractsAlwaysMirrored`. `MirrorInv` of
  `ContractsProofs` says what each of the seven tables holds. Sponsors, grants,
  communities and accounts have exactly the rows of their records. A replaced entry
  or proposal and a new owner's old role leave a row behind: registry entries have
  exactly the rows in force, proposed and `replaced` (`EntriesInv`), roles
  exactly those set and those `outgrown` (`RolesRows`). These two tables are also said
  to be keyed (`KeyedBy`): only a row of the same key gives way. A deprecation or an
  activation hits the entry's own row and no proposal's because a proposal is newer
  (`PendingNewer`), which is why the rows need `RegistryInv`. `Applied` and
  `LastApplied` say what the library's fold makes of a call's events, up to three
  for a support of the token; `UpsertOne`, `UpdateOne` and `RowFound` what the
  statements of `projections.ts` make of rows that are keyed; the `…Told` lemmas what
  each event does to the tables, and the `…Frame` lemmas that a contract's events leave
  the other contracts' tables alone.
* **Sponsor** (`SponsorAssumption`): `QuotaAlwaysAccounted`,
  `BurstAlwaysBounded`. `SponsorInv` adds `TalliesExact`: the accepted operations
  of a day are *those of its committed requests*. The property says that they
  are at most what was charged, which no step preserves by itself.
  `Timely` (no request is of a later day or process) and `BurstHeld` (what counts
  is in the window in memory) make a window that was lost in a restart harmless.
* **CrossPost** (`CrossPostAssumption`): `OnePublicationAlways`,
  `RecordAlwaysTruthful`, `TimeoutsAlwaysLookedUp`.
  `CrossPostInv` adds what the saved record and the worker know: a pending
  transaction is of the expected post and of the payer asked last, so that the one
  that created the post, if another, is of a payer asked before; whoever is between two
  awaits of a publication has a record that says submitting, and no build
  whose sequence is still free is bound (`Numbered`); an attempt that the node
  did not answer is neither a draft nor failed. A publication that lands late
  finds its sequence used or its key taken, so nothing is created twice.
* **Vaults** (no assumption on seeds and calls; `VaultAssumption` bounds the keys):
  `VaultAlwaysSound`. The record that is read after the chain has answered need not
  be the one whose session signed, and it may have another account. That its device
  address is the authorized one is checked; that this makes the account the same is
  the invariant `Owned`: every device key that was generated, in the record, the
  sessions and in the hands of all calls, belongs to one account, since each is
  generated for one vault and never moved. `VaultInv` adds what calls hold at each phase.
* **IndexerSync** (`IndexerAssumption`: the receipts of a block and the events of a
  receipt are in order, and no height is taken for "no further page"): `LogAlwaysLinked`,
  `TablesAlwaysReplayed`, `RollbackAlwaysSound`, `FinalAlwaysKept`, `LogAlwaysServed`.
  `IndexerInv` says of each phase what the step has read: during a rollback
  every block kept below the fork is an ancestor of the head it was made for, the
  heights asked for are those between the fork and the irreversible one, and
  the tables are a fold of the log's events. `LogCut` and `StoredAncestors` say
  what cutting a chain leaves. The pages of `LogAlwaysServed` rest on the log's order:
  because the blocks are `Linked`, the heights of the events never fall
  (`LoggedRises`), and the events of a range of heights are a piece of the log
  (`PieceKept`). A page is a piece too, and where the limit cuts a block the page
  ends before that block, or after it when it is the page's first (`CutPage`,
  `EveryPage`). Each page raises the height, so that the pages make up the rest
  of the log: at the largest height from which they did not, the next page would
  already continue rightly (`PagedIsRest`). `OfHeights` is written as a recursive
  function because the provers know nothing of the library's filter.

The runs check compositions: contracts with the rows of the indexer, and
friendships, messages and audience keys together. `SocialImplementsParts`,
`IndexedImplementsIdentity` and `IndexedImplementsPublications` prove that each is a
behaviour of its parts, so that what is proved of a part holds of what the
runs explore. Messages leave the relationships alone, and a device's transaction
makes one of its calls or none.

`SumTheorems`, the first part of `IndexerSyncProofs`, the lemmas on `Applied` and
those on pages do by hand the induction that sums, flattened sequences, folds and
recursive functions need. The library defines them by functions that a CHOOSE picks;
each proof shows that there is one such function and only one, by taking a smallest
counterexample (`MinimalSubset`, for sets, and `Smallest`, for numbers), and derives
how the value changes when one element does.

Model-checked only: liveness (`AttemptsResolve`, `ConvergesUnlessOvertaken`),
which the provers do not reach; and what is built from recursive operators over
messages and types that nest, about which they can prove nothing: `RoundTrip` and
`CanonicalBytes` of `Wire`, `ClientsTyped` of `ApiViews`.

## Disagreements between the code and its documents

| Run | Property | What it shows |
|---|---|---|
| `wire_packed` | `ContractReadsClient` | Clients write `repeated uint32` packed; the generated decoder of the sponsorship contract reads such a list as single integers, so `entry_points` of an allowed call arrive garbled. |
| `social_removed` | `RemovedNeverReceives` | The extension reads the epoch, then who is a friend, and distributes a key for the epoch its own rotation would open; a removal in between opens that epoch, whose key the removed friend is then sealed. The protocol specification says it never receives it. |
| `crosspost_proof` | `ProofMatchesPost` | After a duplicate-key revert the record names the earlier build's post but keeps the content hash of the later build, and the signed proof binds the two. |
| `indexer_offline` | `Converges` | A stored block that the final height overtakes on another branch makes every later rollback fail, although an older consistent checkpoint exists. |

Further observations, for which there is no run:

* `addRecipients` (`keystore.ts:147-155`) adds whom a transaction sealed a key to,
  to whatever key the store holds of the epoch when the answer comes. If the keys
  were dropped in the settings meanwhile, and reading adopted the other key of the
  epoch, a friend counts as a holder of a key it never received, and the next post
  is not sealed to it. With `Forgetful = {web}` in `MCSocial.cfg`,
  `FriendsReadFrom(WebApps)` fails after 20 steps; `KeysReachReaders` leaves such a
  device's friends out, and its author in.
* Regeneration of credits is floored at each settlement and the time of the
  remainder is lost (`Token.ts:94`), so an account that calls often enough never
  regains its allowance; `docs/v1-testing.md:43,51` promises it within a day.
* A lock is not final (`vault.ts:133`, whose header says that locking clears both
  copies of the session): a `touch` or `current` that read the stored session before
  the lock writes it back, or keeps it in memory, after it; and an unlock that was
  deriving its key when the vault lost its seed puts that seed into a session. Two
  creations that start together keep the account of the later. `destroy` during an
  authorization is undone when this stores its record. None of them violates
  `VaultSound`: what comes back is a session, or a vault, that was right before.
* A sponsor that times out counts as a refusal (`publish.ts:194`), so a retry
  sends another publication without the lookup that `docs/protocol-spec.md:239`
  asks for after any timeout. `OnePublication` holds: the chain rejects the second.
* A connection to the node that breaks counts as "nothing was broadcast", which
  `apps/sponsor/README.md:71` states as a rule. `unreachable` leaves the
  node free to have taken the transaction; `ChargesExact` follows the rule.
* The extension, where it finds a key of the epoch, does not seal it to friends
  who joined in that epoch; they are reached only when their acceptance shared
  the key. `KeysReachReaders` asks for it of the web application only.
* The extension reads with the first copy it finds and tries no other
  (`background/decrypt.ts:47`), so a reader there may not open a post of an epoch
  with two keys. `OpenPost` is the web application's.
* The indexer's row of a conversation keeps the number of messages of its last
  change of state, since `message_sent` does not touch it.
* A replaced proposal keeps its row with status proposed (`projections.ts:757-762`)
  until the name's proposal is cancelled, and a replaced entry its row as active. A
  new owner keeps the row of the role it had (`projections.ts:659-666`), which the
  contract drops (`Communities.ts:391`): when the ownership moves on, the indexer
  serves a former owner with a role that the contract does not know, until a role
  is set again. `ContractsMirrored` names exactly these rows and no others.
* A record may name a transaction that did not create its post. A sponsor times out
  after it broadcast transaction A; the owner pays for B, with the same post
  (`publish.ts:105-108`); the node does not answer, so B is pending (`publish.ts:310`);
  A lands; the lookup finds the expected post, without the indexer no transaction,
  and `adoptPendingTx` records B (`crosspost.ts:81-85`), whose comment takes the
  attempt's transaction for the post's. A later lookup in the indexer corrects the
  record, but a proof that was signed meanwhile keeps B. `RecordTruthful` says which
  transaction may be named; with `tx = boundBy` alone TLC finds this sequence.
* Notification ids are the largest plus one (`projections.ts:101`), so a replay
  numbers them anew, and a client that polls with the cursor across a rollback may
  miss one (`queries.ts:472` says it never does).
* The sponsor admits the first call of an account, named as payee, without asking
  for its owner, also after the account was recovered; such a call reverts on the
  chain. It refuses `apply_recovery_policy` from anyone but the account, although
  the contract takes it from all.
* The contract takes an account named as its own device for its owner
  (`Identity.ts:180`); the sponsor takes it for a device that has to be the payee
  (`validate.ts:170-176`), and refuses the call once the account was recovered to
  another owner. No client writes such a call; `ActorsServed` and `ProfileCalls` leave
  it out.
* The sponsor's limit on the number of signatures (`validate.ts:306`) is left out of
  `SponsorAdmission`: a signature of anyone but payee and sponsor decides nothing there.

## What is not modelled

* Pages of the extension, page adapters and content scripts; the vault of the web
  application; presentation of the web application; generators, deployment and
  verification scripts.
* Hashes, signatures, text forms of bytes and addresses: pure functions over
  bytes, represented by model values. Of encryption, what opens with which key
  under which epoch is modelled; versions of an account's encryption key are not.
* Copies of generated classes that no call uses: each contract's directory has
  every class of every interface, the same text again. One copy of each class
  is modelled, and those that contracts have of each other in `CallWire`.
* Which rows the lists of notifications, messages, token activity, cross-posts
  and a search have, and the ids of notifications; of HTTP, everything but
  parameters, statuses and documents; times in rows that decide nothing.
* `react`, `distribute_keys` and cross-post outcomes other than succeeded store
  nothing in the contract and are no actions of `Publications`.
* The limit on stored cross-post records, stall counters and the chain-id check
  of the indexer, cooldowns of the sponsor pool and nonces, resource credits,
  discovery and registration of the sponsor (and the refusals that `prepare` counts).
* The client's clock is taken to be the block time.

## Plan

1. **Vaults** of the web application beside those of the extension.
2. **Notifications** with their ids and the cursor, across a replay.
3. **Sponsor pool**: cooldowns and nonces, composed with `CrossPost`.
4. **Refinement**: the chain of `CrossPost` is implemented by `Publications` under
   one author and one key.
5. **Proofs**: the sponsor's admission for the calls of the other contracts.
