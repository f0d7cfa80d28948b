# CEMP mobile in TLA+

This directory holds TLA+ specifications of `cemp-mobile`, the TLC
configurations that check them on small instances, and proofs that the TLA+
proof system checks for every instance. It is read beside the code: every
definition that models code is listed in `PROJECT.json` under `map`, with the
lines it stands for.

The application is a peer-to-peer messenger. A message is an encrypted cell on
the CKB chain: the sender publishes a transaction that makes the cell, the
recipient finds it by a route tag and answers with an acknowledgement cell, and
the sender then reclaims the capacity the first cell locked. Nothing sits
between the two phones but the chain, so all the care is in what each phone does
when a call fails, a process dies, or two of its own activities overlap.

## 1. The system

| Component | State it keeps | Operations | Talks to |
|---|---|---|---|
| Message state machines (`cemp-database/message-states.ts`, `repositories/messages.ts`) | one row per message, its state, chain ref, envelope id | `insert`, `transitionState`, `setChainRef`, `setEnvelopeMessageId`, `listByState` | everything below |
| Publisher (`cemp-ckb/publisher.ts`, `monitor.ts`) | none of its own: a call in flight | `publishText`: resume, rebroadcast, abandon, build, journal, broadcast, monitor | rows, journal, ledger, node |
| Journal (`repositories/outgoing-transactions.ts`) | one record per signed transaction | `record`, `findLatestByPurpose`, `markState`, `markStateIf` | publisher, workers, reclaim |
| Workers (`cemp-sync/workers.ts`) | lists read at the start of a run | discovery, response sender, pending transactions, watches, reclaim, balance, LoRa poll | all of the above |
| Reclaim lifecycle (`cemp-ckb/lifecycle.ts`) | none: calls in flight | `processAcknowledgements`, `executeReclaimBatch`, `finalizeResponseSent`, `pollWatchesOnce` | rows, journal, ledger, watches, node |
| Ledger (`repositories/balances.ts`) | available, reserved, reclaimable, total | the refresh from the chain, three moves, the fee burn | publisher, workers, lifecycle |
| Sync engine and leases (`cemp-sync/engine.ts`, `worker-leases.ts`) | lease rows, retry counters | `runWorker`, `runAllNow`, `acquire`, `release` | scheduler, workers |
| Foreground loop, background tick (`apps/android`) | in-flight sweep, timer, tag cache | start, pause, resume, `runNow`; locked probe | engine, vault |
| Vault and container (`cemp-secure-vault`, `app-container.ts`) | vault files, unlocked keys, open database | create, unlock, lock, wipe, change password | database, messaging |
| Database adapter (`async-mutex.ts`, `node.ts`, `sqlcipher-adapter.ts`) | one connection, one mutex | `run`, `transaction`, `close` | every repository |
| Images (`cemp-images`) | attachments, chunk cells | publish, receive, group reclaim | publisher, lifecycle |
| Wallet (`wallet.ts`, `builders.ts`, `signing.ts`) | the in-memory cache of spent cells | the builders, coin selection, sign, send, track | node, publisher, reclaim |
| Contacts, profiles (`contacts.ts`, `conversations.ts`, `profile-trust.ts`, `rotation-verify.ts`) | contact, conversation and own-profile rows | scan, edit, ingest, rotate, judge a profile; publish the own profile, hand out its card | ingest, node, screens |
| LoRa transport (`cemp-lora`), endpoints, rate limits | a cursor, an index, token buckets, each in the database | poll; report; consume | workers |
| Native modules (`apps/android/android`) | pending promises, bitmaps, WorkManager's work | scan, pick, resize; periodic tick, headless task | screens, engine |
| Chat screen, image bubble (`chat-screen.tsx`, `cemp-ui`) | what is drawn, busy flags, download states | send, retry, attach, download | publisher, rows |
| Reference client (`apps/reference-client`) | three JSON files | the steps of a two-user run | node |
| CKB node (external) | pool and chain | `send_transaction`, `get_transaction`, indexer | publisher, workers |

Everything runs in one JavaScript process: two activities interleave at every
`await`, and a lock or a process death ends all of them at once, leaving the
database and the node. What is hard:

* **interleaving**: a screen publishes while a sweep runs the pending worker,
  and sweeps can overlap, because a worker lease is granted again to the engine
  that already holds it;
* **crashes** between the journal record, the chain ref, the envelope id, the
  broadcast, and the several writes that follow a commit;
* **lost answers and late requests**: `sendTransaction` can succeed and report
  failure, or be delivered after its caller gave up;
* **stale reads**: lists read before many awaits, then acted on.

What makes each component correct, in one line each:

* publication: a message has at most one cell; a row says "sent" only when its
  cell is on the chain, and then names that cell; a commit is eventually shown;
* journal: never claims a commit that did not happen;
* ledger: capacity is reserved once per cell, and released once per reclaim; its
  categories never claim more than the last refresh counted;
* reclaim: a row says reclaimed only when its cell is spent, and comes to say so;
  a cell's capacity is released at most once, by the caller that wins the commit;
* incoming: a message is stored before its sender may take the cell back, an
  interrupted row is finished, a watched row can come to its end;
* loop, lease, probe: one sweep per loop, the loop goes on while it is started, a
  live session is swept in the end, a waiting message is announced once;
* vault and container: a stored wallet is never replaced, its file opens with its
  password whatever was interrupted, a locked vault's database is closed;
* images: what a manifest on the chain names can be fetched until it was; chunk
  capacity is released at most once;
* trust: keys taken over descend by real spends from those of first use; a card
  handed out names a profile this device scans for;
* wire: what the sender's gates let out the recipient accepts, and what it shows
  was sealed for it by whom the header names;
* platform: an answer reaches its own caller, a wake-up asked for is held.

## 2. Modules

| Module | Models |
|---|---|
| `MessageStates` | the two transition relations and what `transitionState` makes of a request |
| `CkbNode` | the node, from how `cemp-ckb/client.ts` uses it |
| `Publication` | `publishText` with its resume, the chat screen and the response sender that call it, the pending-transactions worker, crashes |
| `OnceOnly` | the abstract promise: a message lands once, and is shown as sent only after that |
| `Reclaim` | `processAcknowledgements`, `executeReclaimBatch`, the pending worker's part in them, crashes |
| `Inbox` | the receiving side of `workers.ts`: ingest from chain and relay, advance, acknowledgement, healer, response walk, watches |
| `ChatScreen`, `ImageBubble` | the chat screen over its stale list; the download state of an image |
| `Attachments` | upload of chunk cells, the manifest, the 0x05 receipt, group reclaim |
| `Wallet` | the builders, coin selection and its cache, sign, send, track |
| `Ledger` | the balance row, its refresh from the chain and its adjustments |
| `Wire` | sizes, limits and checks from the composer to the mailbox, foreign cells, the type script's arguments |
| `Relay`, `RateLimits`, `Endpoints` | the LoRa poll and its cursor; the token buckets; the endpoint's choice |
| `Rotation`, `ContactBook` | profile cells and trust; contact rows, the screens that make, edit and list them, and their conversation |
| `OwnProfile` | the device's own profile: publication, row, and the card handed out |
| `Session` | vault and container: create, unlock, lock, auto-lock, wipe, reset, biometric switch |
| `VaultFile` | the contents of the vault file and what each rewrite makes of them |
| `SweepLoop` | foreground loop, sessions, `runAllNow`, `runWorker`, the lease row |
| `LockedProbe` | the locked tick, the tag cache and its other writers |
| `Database` | the mutex, units of work, single statements, close |
| `Scheduling`, `Bridges` | WorkManager's work and the headless task; scanner, picker, image codec |
| `ReferenceClient` | the two-user client and its checkpoints |
| `MCPublication`, `MCReclaim` | `Publication` and `Reclaim` for TLC; the `.cfg` files choose the actors |
| `MCConversation` | `Publication` and `Inbox` side by side |
| `MCScreens` | `Publication`, `ChatScreen`, `ImageBubble`, `OwnProfile` side by side |
| `MCForeground` | `Reclaim`, `Wallet`, `Ledger`, `Relay`, `RateLimits`, `Endpoints`, `VaultFile` side by side |
| `MCDevice` | the other eleven side by side |
| `MessageStatesProofs`, `ReclaimProofs` | theorems and proofs about the module of that name |
| `PublicationProofs` | the same about `Publication` and the screens of `MCScreens` |
| `ConversationProofs` | about `Inbox`, `ContactBook` and `Attachments` |
| `EdgeProofs` | about `RateLimits`, `Endpoints`, `VaultFile` and `Relay` |
| `ForegroundProofs` | about `Ledger`, `Wallet` and, with `ReclaimProofs` and `EdgeProofs`, the composition in `MCForeground` |
| `RuntimeProofs` | about `Database`, `SweepLoop`, `LockedProbe`, `Bridges`, `Session` and `ReferenceClient` |
| `DeviceProofs` | about `Wire`, `Scheduling`, `Rotation` and the composition in `MCDevice` |

### How `Publication` corresponds to the code

| Variable | Code |
|---|---|
| `row` | `messages.state` |
| `journal`, `latest` | `outgoing_transactions.state`; the newest record of a purpose (`ORDER BY id DESC LIMIT 1`) |
| `chainRef`, `envelope` | `message_chain_refs.tx_hash`; `messages.envelope_message_id_hex` |
| `reserved` | how often `reserveCapacity` moved this cell's capacity |
| `owner`, `built`, `inputs` | what a transaction carries and consumes |
| `tracked` | the coin selector's in-memory set of spent cells (`trackBroadcastSpend`) |
| `call[c]` | a `publishText` call in flight: the await it is about to perform, its row, its transaction, its walk |
| `run[w]` | a `runPendingTransactions` call: the list it read, the row it is advancing |
| `node`, `wire` | what the node would answer; requests whose caller is gone |

Each action is the code between two awaits. `Find`, `Status`, `Rebroadcast`,
`Await` and `Abandon` are `resumeJournaledBroadcast` and the catch around it;
`Encrypt` to `Send` are the fresh build; `WalkPending` to `Reserve` are what
follows the broadcast; `MarkFailed` is the outer catch. `WorkerAsk` to
`WorkerReserve` are the first loop of the pending worker, `WorkerListStranded`
and `WorkerHeal` begin the second, which goes on with the last steps of the first.
`WorkerAsk` and `WorkerMark` are separate because the status is awaited before
`markState` writes it (`workers.ts:674`, `682` and `699`): what is written may be
outdated, and `markState` writes it over anything. `Crash` is a process
death or a lock. `NodeStep` lets the pool commit, reject or forget, and delivers
late requests.

Abstracted: message text, encryption, fees, change and amounts. A transaction is
a number, the message it carries and the coin it consumes; the envelope id is
named by the transaction whose build drew it. An RPC either answers, is refused,
or fails without saying which. The ledger may refuse a move. Errors of the
database itself are not modelled. The list a retry bubble is taken from is taken
to be fresh (`ChatScreen` has the stale one). A rejected transaction is final for the node, except that a later
request for it is judged like any other.

### How `Reclaim` corresponds to the code

It takes the system where `Publication` leaves it, with every row at
`available_on_chain`. The node's coins are here the message cells, each named by
its message.

| Variable | Code |
|---|---|
| `row`, `journal`, `latest` | as above; `latest` is the newest record with the prefix `reclaim:` |
| `reclaimable` | `wallet_balances.reclaimable_shannon`, counted in cells |
| `funded`, `released` | how often each cell's capacity was moved to `reclaimable`, and out of it |
| `inputs`, `built` | the cells each reclaim covers (also its `purpose`), how many were built |
| `batch[b]` | an `executeReclaimBatch` call: its next await, its transaction, the rows its loop has left, the cells found live |
| `ack[a]` | a `processAcknowledgements` call at one receipt: the move it makes next |
| `listed[w]` | the submitted reclaims a pending-worker run still has to ask about, and the one it was told is rejected |

`BatchFind` to `BatchRequeue` are the resume, `BatchList` to `BatchSend` a fresh
batch, `BatchWait` to `BatchRelease` what follows the commit; the last are the
same code written twice in the source. A call that throws ends where it is. The
pending worker's call of `executeReclaimBatch` is one of `Batches`; `WorkerAsk` and
`WorkerMark` are its question and its marking of a rejected reclaim, an await later.

Two things in `BatchBuild` and `BatchRecord` are easily missed. The hash of a CKB
transaction does not cover its signatures, so a reclaim built again from the same
cells, in the same order and with the fixed fee rate, *is* the earlier
transaction; and `record` inserts `ON CONFLICT (tx_hash) DO NOTHING`, so the
earlier record keeps the state it has.

Abstracted: the release of the net amount and the burn of the fee, two ledger
writes in a row, are one step that takes whole cells out of the bucket. The fee
is paid from the message cells. Attachment receipts are in `Attachments`, watches in `Inbox`.

### How `Inbox` corresponds to the code

| Variable | Code |
|---|---|
| `inRow`, `source`, `manifest`, `contact` | the incoming row's state, whether its chain ref names the cell, whether its attachment row exists, whether the sender is a contact |
| `ack`, `replyTo` | the row `response:<id>`, and the original cell in its chain ref |
| `watch` | `watched_outpoints` of the original cell |
| `origin`, `relayed`, `window`, `receipt` | the sender's cell, what the gateway holds, whether the tag is still scanned, whether our receipt is on the chain |
| `sweep[s]` | one `runAllNow`: its job, the items its list has left, the await it is at |

The jobs run in the order they are registered (`workers.ts`, `buildWorkerSpecs`).
`Screen` to `RecordSource` are `ingestIncomingCellData`, `Advance` and `Notify`
`advanceIncomingToReceived`, `CheckAck` to `AddressAck` `queueAcknowledgement`;
`respond` is the response sender with its walk of the original row and the watch;
`watch` is `pollWatchesOnce`. The `heal` job is `healStrandedIncoming`; it comes last
in the pending worker, and a pass that throws before it (`workers.ts:674`, `679`,
`720`) ends with nothing healed. The sender is the environment: it takes its cell back once
our receipt is on the chain. `publishText` is one step that may fail.

### How the other modules correspond to the code

Each module's head names the files it translates, and `PROJECT.json` the lines of
each definition. What a reader should know beforehand:

* `Session` keeps two objects with their own idea of the state: `vaultState` of
  `SecureVaultImpl` and `appState` of `AppContainer`. A wallet is a number; a
  file, a slot or a key is the number of the wallet it belongs to, `ZeroKey` the
  zeroed buffer that `getDatabaseKey` hands out after the container wiped the
  copy it was lent (`app-container.ts:378-388`). A wipe that failed half way leaves
  no seed to open from (`NoDatabaseKey`). `flow` is the one screen's flow,
  `toggle` the settings switch, which has no guard against it.
* `VaultFile` opens that number up: salt, costs, password slot, biometric slot,
  the header the payload authenticates, the key blob. Two rewrites of it may be
  under way. `outrun` records that one of them wrote over something newer than it
  had read, which `changePassword` does not check; nothing in the app calls it.
* `SweepLoop` has one loop per session, since each unlock makes a new container
  state; sweeps of an earlier session may still run. The lease row is shared.
* `LockedProbe` has three writers of one cache. Two route tags stand for three.
* `Database` queues callers on the mutex in order; `loose` is a statement outside
  any transaction, which lands inside whichever is open.
* `Wallet` has real capacities, small, and the transactions the node took; the
  cache of the CCC client is the only thing that keeps a cell from being picked
  twice.
  `TransferHistory` has what `wallet.ts` makes of a page: the indexer lists a
  transaction once for each own cell it spends and each it makes, and every such
  entry becomes a record with the delta of the whole transaction. A list summed as
  it stands counts a transfer several times; `HistoryExplainsBalance` is about the
  set of records, in which each transaction occurs once.
* `Scheduling` posts the start of a headless task and runs it in two steps, between
  which the tick may end. The `finally` then forgets an id that is registered
  afterwards, and the entry stays until the task names it. The comment at
  `CempSyncWorker.kt:178-179` says that no entry leaks.
* `Ledger` has the row, what the indexer would answer, and per message or chunk
  group the adjustment that is due. `trusted` says that no adjustment was lost or
  came too late, `crossed` that a commit or an adjustment fell between a snapshot
  and its storing; both are history, read by the properties only. A receipt takes
  its way over the chain and comes after the reservation. The marking of chunks
  belongs to what follows their reclaim, that of a message to its receipt.
* `OwnProfile` names a profile by its transaction. A call of `publishMyProfile`
  outlives a lock and finds the database closed; `cut` are the transactions whose
  call ended before their row, of which the code keeps no trace it reads back.
  The busy flag is taken to be drawn before the next tap. A wipe, after which
  there is another wallet, and a restore on a second device are left out.
* `Wire` is a pipeline with arithmetic: real limits, a few sizes at each
  boundary, and cells that differ in one field from one the app could have made.
* `Rotation` keeps what a profile cell says of itself apart from what it spends.
* `ContactBook` keeps the profile id of each contact row and the contact of each
  conversation row. `editor` is the edit screen with the row as it read it; the two
  lists are what they show, from which a tap picks. An update writes the profile id
  back, as the code's `UPDATE` does.
* `Relay` keeps rows of the gateway by number and the cursor that is persisted;
  `settled` says which rows a poll may go past.
* `Endpoints` has arbitrary callers, because nothing constructs the class yet.
* `ChatScreen` has the database's rows and the bubbles as drawn; `mount` counts
  the times the screen was entered, each with a busy flag of its own.
* `Attachments` draws a new attachment id for every attempt, as the code does, so
  the resume under `attachment-chunks:<id>` never hits.
* `ReferenceClient` is one process per step over three files, each written
  atomically, not together.

### Side by side

The modules gathered in `MCConversation`, `MCScreens`, `MCForeground` and
`MCDevice` share no
variable. Checking their product would multiply states without adding a
behaviour that any property can tell apart; so a behaviour of these
modules picks one component at the start (`side`, `shown`, `mover`, `focus`) and the
others rest in an initial state. Each component is explored completely within
its bounds. Where two components do interact in the code, the interaction is
inside one module: the screen, the sweep and the workers over one row
(`Publication`), the vault and the container (`Session`), the lock and the sweep
(`SweepLoop`), the unlock and the tick (`LockedProbe`).

## 3. What the runs check

The `publication_` runs are of `MCPublication`, the `reclaim_` runs of
`MCReclaim`, but for four that hold several modules: `publication_calm`
(`MCScreens`), `publication_late` (`MCConversation`), `reclaim_overlap`
(`MCForeground`) and `device` (`MCDevice`).

| Run | Instance | Result |
|---|---|---|
| `publication_calm` | a text, a response, one screen, one sweep at a time, one worker, two coins, two transactions, one crash; no late requests; and the chat screen, an image bubble and the own profile, see below | `TypeOK`, `NetworkHoldsOnlyLatest`, `SentNamesItsCell`, `LandsOnce`, `ScreensTellTheTruth` hold |
| `publication_late` | a text, late requests, one crash; an incoming message that may also come by LoRa, two overlapping sweeps, one crash | `SentIsOnChain`, `JournalTruthful`, `ReservedIsOnChain`, `CommitIsSurfaced`; `GoneWasSafe`, `WatchedRowCanEnd`, `ReceivedHasManifest`, `StrandedIsHealed` hold |
| `publication_overlap` | a response, two overlapping sweeps | `AtMostOneCell` is violated |
| `publication_failed` | a text, one transaction | `FailedIsOffNetwork` is violated |
| `publication_stranded` | a text, one transaction | `QueuedTextIsTaken` is violated |
| `publication_envelope` | a text, two transactions | `EnvelopeIsStable` is violated |
| `publication_reserved` | a text, one transaction | `ReservedOnce` is violated |
| `reclaim_alone` | one batch call at a time, two messages, two reclaims, one worker, late requests, one fault | `TypeOK`, `SubmittedIsMarked`, `FundedOnce`, `GoneIsReclaimed` hold |
| `reclaim_overlap` | two overlapping batch calls, two messages, two reclaims; and six more components, see below | `ReclaimedIsGone`, `ReleasedOnce`, `CapacityIsKept`, `TransportsHold`, `LimitsHold`, `VaultFileIsSound`, `ForegroundTypeOK` hold |
| `device` | eleven components, see below | `TypeOK` and fifteen properties hold |
| `reclaim_unreleased` | one batch call at a time, one message | `SomeCallerWins` is violated |
| `reclaim_abandoned` | two overlapping batch calls, one message | `AbandonedIsOff` is violated |

The properties of the components that run side by side:

| Property | Module | What could break it |
|---|---|---|
| `GoneWasSafe` | `Inbox` | the sender's cell goes before the message is stored; a row called reclaimed whose cell is there |
| `WatchedRowCanEnd` | `Inbox` | a watch whose row no longer accepts `remote_reclaimed`, so that it never ends |
| `ReceivedHasManifest`, `StrandedIsHealed` | `Inbox` | a heal that loses the attachment; a row nobody finishes |
| `CapacityIsKept` | `Wallet`, `Ledger` | a send that is refused after another one; a profile or message cell spent by the wrong flow; a cell smaller than its data; a balance called available that selection cannot use; a transfer history whose transactions do not add up to the balance; categories that sum to more than there is; a move refused that should be funded |
| `TransportsHold` | `Relay`, `Endpoints` | a cursor past a row that was not handed on; an endpoint left too early, or another one after a restart |
| `LimitsHold` | `RateLimits` | more passes than the allowance; one contact's spam shuts out another |
| `VaultFileIsSound` | `VaultFile` | a file that does not open with the password its user was last told; damage sealed in; costs without a bound |
| `ScreensTellTheTruth` | `ChatScreen`, `ImageBubble`, `OwnProfile` | a message on its way called failed; a text sent twice; an image called gone that is there; a card whose id nobody scans for; a second profile cell |
| `WalletIsWhole`, `StoredWalletSurvives` | `Session` | a finger that opens another wallet; a database of another wallet; a stored wallet replaced |
| `LockedIsTornDown` | `Session` | a vault that locked itself while the app was frozen, and a database that stays open |
| `SweepsFollowOn`, `SessionIsSwept` | `SweepLoop` | two sweeps of a loop, a loop that stops; a lease that keeps a live session from its worker |
| `AnnouncedOnce`, `WaitingIsTold` | `LockedProbe` | a sighting recorded that was not announced, or announced again; a message never announced because another tag fails |
| `UnitsAreExclusive`, `WaitersAreServed` | `Database` | two transactions at once, one on a closed handle; a waiter behind one that threw |
| `ImagesAreSafe` | `Attachments` | chunks reclaimed behind the receipt of the envelope; capacity released twice |
| `TrustFollowsSpends` | `Rotation` | a successor believed for what it says of itself |
| `OneConversation` | `ContactBook` | a scan, a form and an arriving message that make two persons of one |
| `ReconcileIsSound` | `ReferenceClient` | an accounting that passes over a transaction made twice |
| `StoredIsWhatWasSent` | `Wire` | a size the sender lets out and the recipient refuses; a cell shown to the wrong person |
| `PlatformKeepsItsWord` | `Bridges`, `Scheduling` | a late result given to another call; a bitmap used after release; a tick that is not held |

`SubmittedIsMarked` is what lets the winner of a commit settle its rows: a row
back at `reclaim_queued` refuses the move to `reclaimed`, and the call would end
between the compare-and-set and the release. It holds for the intended single
caller only: with two, one may abandon a second reclaim of the same row and
requeue it under the first. `TypeOK` of `Reclaim` says, among others, that the
bucket is never overdrawn.

`LandsOnce` is refinement: `Publication` implements `OnceOnly` with the
committed cells of a message and "shown as sent" as the abstract state. It is
checked in the calm instance, where it holds because recovery always starts at
the journal's latest record and that record is the only transaction of the
message that can be in play (`NetworkHoldsOnlyLatest`).

### What the violations show

* **A response published twice** (`publication_overlap`). Two sweeps list the
  same queued row, both find no journal record, both build, and both commit.
  The lease does not keep them apart: it is re-entrant for one `engineId`, and
  `syncNow` is called by the background tick and by the wallet screen without
  going through the foreground loop's in-flight guard. `workers.ts` says
  duplicate runs "converge on one response".
* **A broadcast message marked failed** (`publication_failed`). `broadcast`
  becomes true only when `sendTransaction` answers, or when the resume's wait
  has seen the commit. A lost answer, or a deadline in that wait, marks a
  message failed whose transaction is in the pool. The retry then adopts the
  journaled transaction, so in the calm instance no second cell appears.
* **A queued text nobody takes** (`publication_stranded`). The chat screen's
  comment says the workers retry it; no worker lists queued texts.
* **The envelope id changes on a rebuild** (`publication_envelope`). The code
  draws a fresh one; the comment says it is stable. `SentNamesItsCell` shows the
  consequence is contained: when a row says "sent", its ids are those of the
  cell that landed.
* **Capacity reserved twice** (`publication_reserved`). The worker finishes a
  row whose monitor is still waiting, and both reserve.

* **A reclaim nobody settles** (`reclaim_unreleased`). The node rejects a reclaim,
  the batch is abandoned and requeued, and the next run builds the same
  transaction again. Its record is still `abandoned`, so when it commits the
  compare-and-set from `submitted` changes nothing: no caller wins, and no
  capacity is released. `GoneIsReclaimed` shows that the rows still come to
  their end through the dead-cell branch; the ledger does not.
* **A pending reclaim abandoned** (`reclaim_abandoned`). Two calls rebroadcast one
  forgotten reclaim; the second is told that the pool already has it, which the
  pattern of `monitor.ts:144` takes for inputs spent elsewhere.

`NetworkHoldsOnlyLatest` and `AtMostOneCell` also fail with late requests: a
delayed request makes the rebroadcast be refused as a duplicate, the refusal
matches the "spent elsewhere" pattern (`monitor.ts:144`), and the record is
abandoned while its transaction is in play. This is why the theorems about them
assume none. `JournalTruthful`, which holds with them, is one-sided: a record says
committed only of a commit, and goes on to say so only as long as nobody writes over
it; that no live record is written off is part of `NetworkHoldsOnlyLatest`.

What the other modules had to exclude, because the code does it:

* `CommitIsSurfaced` leaves out a record of which the pending worker holds the answer
  `rejected` while the transaction, delivered again by a late request, has been
  committed: `markState` (`workers.ts:699`) then writes over `submitted` or
  `committed`, and no pass returns to the record (`HoldsOutdatedAnswer`).
* `TicksEndAlone` (in `PlatformKeepsItsWord`) allows an entry to outlive its tick
  when the UI thread came to the start of its task after the tick had ended.
* `OnlyOutdatedTapsUndo` (in `ScreensTellTheTruth`) leaves out a tap on a bubble
  that was older than its row: `chat-screen.tsx:243-279` then marks the row
  failed though it is pending or available.
* `DatabaseIsTheWallets` (in `WalletIsWhole`) leaves out a device on which the
  local data was reset: the database is opened again under a key of zeros.
* `KeyBlobIsTheFiles` (in `VaultFileIsSound`) leaves out a death between a wipe's
  two deletions, and a `changePassword` that outlives a lock and a wipe.
* `RestartKeepsTheChoice` (in `TransportsHold`) leaves out a load that overlapped
  another caller's report, and a failed write.
* `NothingPassedOver` leaves out rows past the cap, and a row that arrives under a
  tag already asked for while another one is still to be asked.
* `LimitsHold` allows one message and one burst more for each call begun while
  another is under way: `consume` reads and writes over several awaits. Its claim
  about spam leaves out calls cut short between the two writes.
* `StoredIsWhatWasSent` leaves out an image whose thumbnail is above the
  recipient's limit, which nothing bounds on the way out.
* `AnnouncedOnce` counts a repeat only if no tick was cut short and no other
  writer ran beside it.
* `BurstIsTaken` (in `CapacityIsKept`) leaves out builds that overlap, and those
  after a lost answer, an eviction or a restart, which empty or mislead the cache.
* `FundedWhenDue` (in `CapacityIsKept`) leaves out adjustments that a refresh
  crossed, a publication out of capacity that a reclaim has freed and the ledger
  not yet released, payments by others, and what follows a lost adjustment: each
  flow advances its row first and no later pass makes up for a death after that.
  A refresh puts the totals right and leaves the split as it is when the sum fits.
  It also leaves out a wallet whose row was written and whose balance row was not:
  the row is not looked at again and every adjustment fails.
* `OneCellUnlessCut` (in `ScreensTellTheTruth`) leaves out calls that ended between
  the profile's transaction and its row: the next tap makes a second cell.

They are listed so that the properties are not read for more than they say. Two
of them sit beside a comment that promises more. `workers.ts:781-784` says the
refresh leaves reserved and reclaimable alone, where `setChainBalances`
(`balances.ts:90-98`) rewrites both when their sum is not what the chain holds.
`messaging.ts:403` journals the profile's signed bytes "for resume", which no code
does under that purpose.

### Bounds, and why they are enough

* `MaxTx = 2`: the second transaction is what every duplication needs, and a
  rebuild after an abandon; with one, the failure and reservation runs already
  show what they show.
* `Coins = {k1, k2}`: two builds can either collide on a coin or not.
* `MaxCrashes` counts crashes, locks and failed worker runs together; one can
  strike between any two steps. A behaviour with more of them is a sequence of
  recoveries from states the one-crash run already visits, except for the bounded
  counters; the theorems do not depend on the bound.
* `MaxReserved = 2`, and `MaxCount = 2` in `Reclaim`: "more than once" is all that
  is asked.
* `Reclaim` has two messages, so that a reclaim may cover one or both, and two
  reclaims may cover different, equal or overlapping sets. `MaxFaults` counts
  crashes, failed requests, missing signatures and cells of unknown status. The
  overlap run has none, the network's own losses (`Reject`, `Forget`) and
  deadlines aside, to keep two calls over two messages small.

* `Inbox`: one message is enough, since rows of different messages meet only in
  the contact; two sweeps, because a third could only repeat what one of two
  does at a step; one crash.
* `Session`: two wallets, so that something of a former one can be left behind;
  one process death. `VaultFile`: two vaults, two edits under way, two begun, one
  fault; three edits and two faults were explored once and hold as well.
* `SweepLoop`: two sessions, so that a sweep can outlive its own; `Database`: three
  units and two closers; `LockedProbe`: two cells, two epochs, one disturbance.
* `Attachments`: two uploads, two collectors, two faults. `Rotation`: three profile
  cells, a chain of two links or a fork. `ContactBook`: two rows, every source of
  them once. `ReferenceClient`: two faults in the whole run of a client.
* `Wire`: every value that meets a limit is taken at, below and above it; three
  epochs, so that two clocks can be apart. `Bridges`: three calls, five steps of
  the ladder. `Scheduling`: four unlocks over the releases, three ticks, two
  failing calls.
* `Wallet`: two transactions and one fault, for any two builders. `Relay`: two
  rows, a cap of one, two engines, one fault. `Endpoints`: two callers, a threshold
  of two, three endpoints, five failures, two restarts or failed writes.
* `RateLimits`: limits 2 and 4, over two contacts and strangers, seven calls
  of which one overlaps, one tick of the clock each way. Seven is what it takes for
  the bounds to bite: the common bucket empties and the next call is turned away
  below its own limit, which is what the spam claim is about, and what passes
  reaches the common allowance; one more call than a contact's
  rate, refill and one overlap allow (five), or than the common rate and refill
  allow (six), would be seen. The common bound with an overlap (nine) is out of
  reach of seven calls and rests on `LimitsAreKept`. The two senders and the two
  callers are named as the messages and batches of `Reclaim` are, so that one
  symmetry serves both.
* `Ledger`: one message and one chunk group, so that each kind of adjustment can
  meet each other one; two deaths or payments; funds for both.
* `OwnProfile`: two calls, so that one of an earlier session can meet a new one;
  three profile transactions, two sessions, two faults.
* `ChatScreen`: one text and one photo, three rows and screens together.
  `ImageBubble`: two visits, three downloads, two wrong answers.

`reclaim_overlap` takes its two batch calls and its two message cells, and by the
same names the callers and the senders of `RateLimits`, to be interchangeable, `publication_calm` the two coins of its wallet (`Symmetry`): both
check safety only, and no property names one of them.

### Fairness

Weak fairness of the worker, of each call's own steps, and of the response
sender's start. The code's reasons: while the app is unlocked the engine
runs every worker again after each interval and after each failure, every RPC
has a timeout (`fetchJsonRpcTransport`) and every commit wait a deadline
(`waitForTransactionCommit`). The user and the network are not assumed to do
anything. `CommitIsSurfaced` needs only the worker.

In `Reclaim` each batch call is weakly fair, since the reclaim worker runs again
and again, and a transaction that is in the pool infinitely often is mined
(strong fairness of its commit). The second is an assumption on the network, not
on the code; without it a reclaim may be evicted and rebroadcast forever and
`GoneIsReclaimed` fails for the rows that wait behind it.

In `MCConversation` a sweep in flight goes on and the foreground loop starts
another (`SweepStep`), and of the passes that come to the heal again and again not
every one throws before it (strong fairness of `HealBegins`): what throws there is an
unanswered request or a row that another caller moved, and neither recurs for ever
while the network answers some time, an assumption on it and not on the code. That
the gateway or the sender do anything is not assumed.
In `MCDevice`: the container's poll fires, since it is an interval of the same
runtime that froze the vault's timer, and a close ends (`Session`); timers fire,
runs end because requests have time-outs, and a lease runs out (`SweepLoop`);
WorkManager repeats the tick, and the indexer, asked again and again for one tag,
and the notification service answer some time (strong fairness, an assumption on
them and not on the code) (`LockedProbe`); a native statement answers, so a unit of
work ends (`Database`). `MCScreens` and `MCForeground` state no fairness: only safety
is asked.

`CHECK_DEADLOCK` is on in the runs of `MCPublication`, `MCScreens`, `MCReclaim` and
`MCConversation`: a worker or a batch can always start another run (a user of the
screens may do nothing more, which `Rests` says). It is off in
the two runs that hold components which really stop: a client whose run is over,
a message that was delivered, a closed database.

## 4. What is proved

Each theorem holds for every value of the constants its assumptions allow, so for
any number of messages, callers, sweeps, sessions or wallets, and for every bound.

| Module | Theorem | States |
|---|---|---|
| `PublicationProofs` | `TypeCorrect` | `TypeOK` |
| | `SentRowsAreOnChain` | `SentIsOnChain` |
| | `JournalIsTruthful` | `JournalTruthful` |
| | `ReservesAreOnChain` | `ReservedIsOnChain` |
| | `OnlyLatestInPlay` | `NetworkHoldsOnlyLatest`, assuming `OneOfEach` |
| | `NeverTwoCells` | `AtMostOneCell`, assuming `OneOfEach` |
| | `SentRowsNameTheirCell` | `SentNamesItsCell`, assuming `OneOfEach` |
| | `PublicationKeepsItsPromise` | `LandsOnce`: `Publication` implements `OnceOnly`, assuming `OneOfEach` |
| | `ScreensAreTruthful` | `ScreensTellTheTruth` of `MCScreens`: chat, image bubble and own profile |
| `ReclaimProofs` | `TypeCorrect` | `TypeOK`, with a bucket that is never overdrawn |
| | `ReclaimedAreGone` | `ReclaimedIsGone` |
| | `CellsAreReleasedOnce` | `ReleasedOnce` |
| | `ReceiptsFundOnce` | `FundedOnce`, assuming `OneAcker` |
| | `SubmittedRowsAreMarked` | `SubmittedIsMarked`, assuming `OneAcker` and `OneBatch` |
| `ConversationProofs` | `SpentCellsWereSafe` | `GoneWasSafe` of `Inbox` |
| | `WatchedRowsEnd` | `WatchedRowCanEnd` |
| | `ManifestsComeFirst` | `ReceivedHasManifest` |
| | `OnePersonOneConversation` | `OneConversation` of `ContactBook` |
| | `ImagesAreKept` | `ImagesAreSafe` of `Attachments` |
| `RuntimeProofs` | `NothingOfAnotherWallet` | `WalletIsWhole` of `Session` |
| | `WalletsSurvive` | `StoredWalletSurvives`, an action property |
| | `UnitsNeverMeet` | `UnitsAreExclusive` of `Database` |
| | `LoopsNeitherDoubleNorStall` | `SweepsFollowOn` of `SweepLoop` |
| | `EachIsAnnouncedOnce` | `AnnouncedOnce` of `LockedProbe` |
| | `PromisesAreKept` | `BridgesKeepTheirPromises`, half of `PlatformKeepsItsWord`, assuming `CodesAreDistinct` |
| | `ReconcileHolds` | `ReconcileIsSound` of `ReferenceClient` |
| `EdgeProofs` | `LimitsAreKept` | `LimitsHold` of `RateLimits` |
| | `TheChoiceIsKept` | `ChoiceHolds` of `Endpoints`, half of `TransportsHold` |
| | `NoRowIsPassedOver` | `NothingPassedOver` of `Relay`, the other half |
| | `TheStoredVaultOpens` | `VaultFileIsSound` of `VaultFile` |
| `ForegroundProofs` | `TheLedgerAddsUp` | `LedgerAddsUp` of `Ledger` |
| | `WalletKeepsItsBooks`, `TheSpendsAreTaken` | the invariant of `Wallet`, and `SpendsAreTaken` from it |
| | `TheCapacityIsKept`, `TheTransportsHold`, `TheLimitsAndTheVaultHold` | `CapacityIsKept`, `TransportsHold`, `LimitsHold` and `VaultFileIsSound` of the composition that `reclaim_overlap` checks |
| | `TheForegroundIsTyped` | `ForegroundTypeOK`, with the bounds on counters, streaks, reasons and cells, of the same composition |
| `DeviceProofs` | `TheTwoEndsAgree` | `StoredIsWhatWasSent` of `Wire` |
| | `WakesAreKeptAlways` | `WakesAreKept` of `Scheduling`, the other half of `PlatformKeepsItsWord` |
| | `TrustIsEarned` | `TrustFollowsSpends` of `Rotation` |
| | `EachRunsAsAlone` | a behaviour of the composed device is one of each of its eleven components, so that what is proved of a component holds of the device |
| | `ThePlatformKeepsItsWord` | `PlatformKeepsItsWord` of the device, assuming `CodesAreDistinct` |
| `MessageStatesProofs` | `WalkIsLegal` | the publisher's path and the transition table, each taken from its own file, agree: every step of the path is accepted, and its states have no other exit but `failed` and `expired` |
| | `ReclaimIsOneWay` | from a reclaim state only reclaim states and `failed` are accepted |
| | `SentIsReachedInOrder` | `committed` is entered from `pending` only, available from `committed` only, and neither is left backwards |

### Assumptions

On constants (`...Assumption`, each evaluated by a run): that the bounds are
numbers, that the sets of actors do not overlap and that the value for "none" is
no member of them. Where something is counted or summed, that there are finitely
many of it: messages (`Reclaim`), texts and images (`Ledger`), senders and calls
(`RateLimits`). `LedgerAssumption` also says that a fee is no more than a cell,
`RateLimitAssumption` that the limits are even, positive and the contact's the
smaller one: they are 60 and 600, a minute's refill, and a step of the model's clock
is half a minute. `ChatAssumption` says that a photo and an empty input are no texts.

Four hypotheses name the circumstances a theorem is about. Where one is made, a run
or the code shows what happens without it:

* `OneOfEach` (`Publication`): requests do not outlive their callers, and at most
  one screen and one run of the response sender are active. The violations above
  show that neither half can be dropped. Workers and crashes are unrestricted.
* `OneAcker` (`Reclaim`): one receipt is handled at a time. The guard against a
  second receipt is the row's state, read before the walk; the last move of the walk
  is idempotent, so two handlers of one row would both come to `reclaimFunds`.
* `OneBatch` (`Reclaim`): batches do not overlap. Two of them may abandon a second
  reclaim of a row and requeue it under the first (section 3).
* `CodesAreDistinct` (`Bridges`): a process makes fewer than 256 calls. A scan's
  request code is its counter masked to eight bits, so two scans 256 apart share
  one.

### The inductive invariants

None of the properties is inductive, since it says nothing about what a call holds
in its local variables between two awaits. What each proof adds:

* `Publication`. `Bound`: types, and the bindings of calls in flight; a call past
  its build holds a transaction that exists and carries its message. `Evidence`: a
  call about to settle, advance a row or reserve has a committed transaction; with
  the fact that commits stay (`CommitsStay`), each advance is justified when it is
  made, however long ago the evidence was seen. `Exclusive`: a call that adopted or
  recorded a transaction is at the latest record; one that builds afresh, or is
  about to abandon or rebroadcast, has nothing of its message in play. `NotWrittenOff`:
  a worker that was told of a rejection holds a transaction that stays rejected, since
  nobody sends it again. `Naming`
  and `RowsFollowCalls`: a row carries the names of its latest record, or it stands
  at `submitting` with nothing in play, because the call that made the record has yet
  to write them or died before it did. `Promising` joins them all, and from it each step
  lands the cell of one message, shows it, or changes nothing `OnceOnly` can see.
* `Reclaim`. `Bound` and `CallsHaveEvidence` as above, for spent cells. `Once`:
  of two reclaims that share a cell one is in play at most, a transaction has one
  winner of its compare-and-set, and a released cell lies under a committed
  transaction whose record is decided and has no winner left. `Funding`: what was
  funded is past the states a receipt can start from, and so is what a batch or a
  reclaim holds. A worker's outdated answer changes none of this, since `rejected` is
  not a state anybody settles from. `Marking`: only the latest record is submitted, the batch is at it
  or nothing is, and the rows a batch has gone through are marked.
* `Inbox`. `RowsAreBacked` ties the row to its manifest, its acknowledgement, its
  watch, our receipt and the sender's cell; `SweepsKnow` says what a sweep at each
  await has read and that it is still so, which holds because no other sweep undoes
  any of it (`Keeps`).
* `Session` (`Whole`). A live key is the stored wallet's and only an unlocked vault
  has one; `FlowKnows`: an unlock derives from the file that is stored, a wipe
  has let go of every key and handle; `PromptKnows`: the slot behind an open prompt
  wraps the key of the file that was read, which the check after the prompt compares
  with the one that is stored by then; a handle is
  opened a second time under the zeroed buffer only after a reset.
* `VaultFile` (`VaultInv`). Whatever was read from storage is a file (`IsFile`): it
  opens under its own key and then some password opens its slot, or it is marked
  as damaged and does not open. A call or an edit that waits holds such a file, and
  unless an edit has outrun another, the key it holds, the key in memory and the key
  the database blob wraps are the stored vault's. Only a death between the two
  deletions of a wipe leaves a blob behind.
* `Database` (`Line`). The queue holds the callers that wait or work, each once, its
  head alone works, and a transaction is open just while its unit's body runs.
  `SweepLoop` (`Sweeping`): the in-flight flag is raised just while a sweep of the
  loop runs. `LockedProbe` (`ProbeInv`): whatever may become a record was told
  (`ToldFirst`); an answer is whole for what was told before it; while nothing
  disturbed a tick, whoever was told and can still be found is recorded
  (`NothingLost`).
* `Endpoints` (`RotatorInv`). The streak is what the callers counted; before the
  first load nothing is being written and every load under way read what is stored;
  after it the index in use is the last one on its way to storage, or the stored one.
* `Bridges` (`BridgeInv`). A result about to be handed over has the code of the call
  it goes to; an open promise has its activity, its launch or its reader. A handle
  names the bitmap made for it, the pipeline tracks every handle there is unless a
  release failed, and no recycled bitmap has a name.
* `ContactBook`. Rows have distinct profile ids, an addable scan looks at a card,
  each call of `getOrCreateForContact` holds a row that exists and a conversation
  that is its own, and an edit writes back the id the row still has.
* `Attachments`. `PostKnows`: from its commit on, the upload in hand is live, and a
  manifest that is on its way names it. `TextIsOne`, `ReceiptIsTrue`: the row, the
  manifest and the receipt speak of one upload, and only a recipient that has the
  image sends the receipt. `GroupIsConfirmed`: whoever works on the group read the
  receipt, and only the group spends chunks. `OneWinner`: a record leaves submitted
  once, for one caller.

* `ReferenceClient`. `ClientInv` ties memory to the three files: what a file says
  was broadcast or paid for was, memory and disk differ only in files still to be
  written, and a process at each await of a step knows what the step has done. `ClientSettled`: of the transactions under one label only the last may be
  in the pool, and a step that is recorded as done has none there. `ClientAccounted`
  then only needs the arithmetic of one reconcile: with a balance that moved by the
  cells and fees that are recorded, give or take one fee, a second transaction of any
  label would not fit.
* `RateLimits` (`LimitInv`). For each bucket an account: what was let through, and
  what is left in it or will be when the calls under way have written, is at most
  what the clock and the overlaps have granted; a call holds a bucket as it was when
  it was read, and of two calls under way one is counted as an overlap. The first
  bound the project had for overlapping calls, one message for each, held in the
  instance TLC explores and did not survive the proof: the call that writes last
  writes the tokens and the time it read, so that a refill is granted twice; the
  bound is now a burst and a message. For the spam claim (`SpamInv`): while calls come
  one by one and none was cut short, the bucket of the only contact that was let through
  stands as of the same time as the common one and is as far behind it as at the
  start (`Level`), so it is empty first.
* `Relay` (`RelayInv`). Whatever lies behind the saved cursor is settled
  (`SettledUpTo`), and each poll accounts for the rows its cursor has passed since
  the one it started from (`PollAccounts`): they are settled or in the list of what
  it found. `TagsAreOfTheirTime`: no row carries a tag of an
  epoch that is not in use yet.
* `Ledger` (`LedgerInv`). The categories fit the total; what the chain holds in cells
  is at least what the items claim of it; a snapshot that nothing has crossed is
  still one of this chain (`SnapshotParts`); while no adjustment was lost or
  overtaken, each category has at least what the items not yet settled will take out
  of it, and the chain at least what they will bind (`TrustedParts`).
* `Wallet` (`WalletInv`). Every cell is of the start or made by one transaction;
  builds and transactions balance, leave no cell smaller than its data and keep
  protocol cells with their flow. While nothing disturbed the wallet, whatever a noted
  transaction spent and selection could still be offered is marked as spent, and a
  build that overlapped no other holds unspent cells (`InTouch`).
  `HistoryAddsUp`: the balance is that of the first cells and the sum of what the
  committed transactions changed, each of which has an entry in the history.
* `MCForeground` (`ForegroundInv`) joins the invariants of its seven components and what
  their types need besides (`LimitBounds`, `StreakIsBounded`, `VaultBounds`,
  `LedgerBounds`, `WalletBounds`): no step of a rate limit leaves more in a bucket than
  its rate; a streak stays under the threshold while there is another endpoint to turn
  to; what the chain holds comes from the funds, the payments and the items published;
  the change of a build is at most what the wallet began with and the margin of a
  rotated profile, since every transaction costs it; no key in memory or in a file is of
  a vault not yet made. The proof found the type of `Endpoints` too narrow for a device
  with one endpoint, which has nowhere to rotate to and goes on counting; the instance
  TLC checks has two. It also asked for the arms of `After` (`Ledger`) and `TryOpen`
  (`VaultFile`) to exclude each other, since a `CASE` whose arms overlap has no
  determined value.
* `Wire` (`WireInv`). The cell on the chain is the one the sender's pipeline made of
  a draft that passed its gates, or a foreign one that the type script lets through
  (`PostedBySender`), and the outcome is the reading of that cell.
* `Scheduling`. `LeadsToWanted`: of the calls on their way to WorkManager, the last
  that decides anything decides for the tick the installed release wants, or it is
  held and none does. `TickIsSound`: a wake that ends well has a task that ended or
  was cut off, and an entry without its wake has a task that was started late.
* `Rotation` (`RotationInv`). A cell spends an older one (`Older`) and counts no more
  than its place (`SeqIsShort`); the owner's rows follow a line of spends; what is
  trusted is of the family of the first use, which a longer list of cells keeps.
* The screens. `BubbleInv`: each visit has one download at most. `OwnInv`: the
  button is off while a call of this session is under way, and a transaction that
  may be on the chain is the row's, in the hands of a live call, or was cut short.
  `ChatInv`: no row goes back to being a draft and no bubble offers one; a row that
  no second screen and no outdated tap contests is worked on by one screen, which
  knows its state (`OneWorks`); a text is in the input, in the hands of one screen, or
  in one row past the draft (`TextIsOnce`).

### Recursion in the proofs

Sums over cells, items and senders, the fold over the wakes of a release, the merge
of a page and the descent along a chain of spends are recursive functions or folds.
The library's induction theorems take an operator as a parameter, which no
installed prover can instantiate, so the first section of `EdgeProofs` does without:
a non-empty set of numbers has a least member (`LeastOfNat`, from the
well-foundedness of `<`), and what fails somewhere fails at a least place. From it
come that such a sum exists and moves by what one member moves, and, in
`DeviceProofs`, that a family is closed under spending. Proved are the facts the
invariants need, one step of the recursion at a time, and not a closed form of what
these functions compute.

### Only model-checked

* Liveness: `CommitIsSurfaced`, `StrandedIsHealed`, `GoneIsReclaimed`,
  `LockedIsTornDown`, `SessionIsSwept`, `WaitingIsTold`, `WaitersAreServed`. Fairness
  and `ENABLED` are out of the prover's reach.
* `TypeOK` of `MCDevice`, the types of its eleven components side by side. Those of a
  component are part of its invariant above as far as the invariant needs them,
  mostly without the bounds on counters.

## 5. Plan

1. An abstract specification of capacity that moves along reserved, reclaimable,
   available, implemented by `Reclaim` and `Attachments`.
2. `Publication` and `Inbox` on one response row, so that `publishText` is not one
   step there.

## 6. Not modelled

* Cryptography: pure functions over bytes. `Wire` takes of sealing that it opens
  under the keys and the header it was sealed for, and under no others.
* The Molecule bytes, the sighash stream, the CRC, hex and address formats: pure
  encodings covered by the repository's test vectors. What they reject is in `Wire`
  and `Relay` as a field of the input.
* QR rendering, the wallet screen, formatting, navigation, theming: presentation of
  state that other modules own. (What the contact and chat lists hold and open is in
  `ContactBook`.)
* The SQL of the migrations, which is one step of opening the database; the
  arithmetic of the back-off.
* The transaction-group iteration of the type script, the signing harness, the
  protocol inspector, the vector suites: no state of the system.
* The iOS shells, key derivation and the share sheet: one call, one answer.

Every component with its status, and every hazard known with the properties that
cover it, are listed in `PROJECT.json`.
