# A TLA+ verification of discrawl

discrawl mirrors Discord guilds into one SQLite database. A live *tail* listens
on the Gateway, a *sync* pages through the REST API, and both write the same
rows; around them stand a ledger of events that could not be archived, a queue
of embedding jobs, and snapshots that machines exchange through git. This
directory holds TLA+ modules of the parts whose correctness depends on the order
of steps, the TLC configurations that check them, and TLAPS proofs of the
properties that matter most.

Paths below are relative to the repository root; `PROJECT.json` maps each
definition to the lines it models.

## 1. Inventory

| Part | State it keeps | Operations | What is hard about it | What makes it correct |
|---|---|---|---|---|
| **Gateway worker pool** `internal/discord/tail*.go` | two bounded queues, one ordered worker, a pool of member workers, circuit breakers, the fatal state | enqueue, execute with deadline and grace, record a failure, open a circuit, clean up | handlers that hang; cancellation at any moment; a handler that comes back after it was given up | one ordered handler at a time; a failure is recorded, reported or the tail stops; the tail returns |
| **Live tail handlers** `internal/syncer/tail.go`, `tail_metadata.go` | the session's repair run and its mutex; the handlers write rows, `message_events`, the cursor and the ledger | message, channel, guild and member handlers; start-up import; repair timer, repair pass, bounded join | the repair runs beside the worker on the same rows and may outlive the session | recovery never takes a row back; what is traced as archived is stored; a session returns |
| **Failure ledger and replay** `internal/syncer/failures.go`, `tail_replay.go`, `internal/store/failures.go`, `integrity.go` | `failure_ledger` | record, resolve (by identity, generation, page), list candidates, replay | the same identity is recorded again while replay is at it; a replay budget that hopeless candidates could eat up | a recorded failure leaves the ledger only when the archive has its event; every candidate is reached |
| **Fallback files** `internal/store/tail_failure_fallback.go` | a directory of small files, import receipts in `sync_state` | persist, import | crash between any two system calls, power loss, two importers | an acknowledged failure survives and is counted once |
| **Message freshness** `internal/store/write.go`, `entity_state.go` | `messages`, observation sequence | upsert with an observation, mark deleted | equal edit timestamps; fetches in flight | newer versions and tombstones stay |
| **Embedding queue** `internal/store/embedding_worker.go`, `embeddings.go` | `embedding_jobs`, `message_embeddings` | queue, claim, publish, retry, release, drain, rebuild | the provider is called outside transactions; leases; crashes | no stale vector, no stale verdict, no forgotten text |
| **Writer lock** `internal/cli/sync_lock*.go` | a lock file, its metadata, a token file per live tail | acquire, activate, look at the owner, release | an owner dies at any step; metadata outlives its writer; two reads of it | one writer process at a time; a command gives way only to a live tail |
| **Channel history** `internal/syncer/message_sync.go` | page rows, per-channel cursors and flags in `sync_state` | bootstrap, forward, backfill, verify | interruption between any two pages or cursor writes; concurrent deletes and tail cursor writes | a channel called complete has no hole |
| **Collection scope** `internal/syncer/collection_scope.go`, `channel_exclusions.go`, `internal/store/integrity.go` | a decision, policy and revision per channel row; one cached catalogue per actor | decide, store decisions, admit a message, guard a transaction | channels move and vanish between admission, fetch and write; two actors decide | nothing out of scope is written; decisions follow the catalogue |
| **Channel catalogue and availability** `internal/syncer/channel_*.go`, `syncer.go`, `errors.go` | channel rows, archive cursors, unavailable markers, channel failures, `sync:last_success` | discover, crawl with a pool, mark, verify, settle, reconcile | one worker's error cancels the others; a 404 that is not for good | a success has evidence for every channel; no failure is written off or retried for ever |
| **Share publication** `internal/share/publication_*.go`, `share.go` | a git checkout, a stage, backups | export, install, roll back, commit, push | failure or crash between any two files; other writers of the checkout and the remote | a publication is whole in the tree, the commit and the remote, or the old one stays |
| **Share import** `internal/share/merge.go`, `import.go`, `rows.go` | rows, checks, merge and import records, search indexes | merge, replace, rebuild, auto-update | interruption between transaction, rebuild and record; foreign rows against local ones | the record claims what was applied; newer content stays |
| **Change feed** `internal/store/change_feed.go` | a log, generations, a floor, triggers | append, suspend, bump, repair, compact | lost triggers and tables, restored files, a clock that steps | a reader has the table or knows that it has not |
| **Members** `internal/store/member_refresh.go`, `internal/syncer/repair_lanes.go`, `reconcile.go` | member rows with their checks, member failures, a receipt | event handlers, enumeration, batched merge, replay, reconcile | requests that last minutes against live events; partial batches | no request takes a row back; a receipt means a complete pass |
| **Media cache**, **desktop import** | files and their status, a checkpoint | download, import | partial success | not modelled |
| Queries, reports, metrics, text projection, configuration, command line | none | read-only or start-up only | little | — |

### How the parts meet

The Gateway callbacks only enqueue. A worker calls the tail handlers, which
write through the store. If a handler fails, the worker calls the failure
recorder: the ledger first, a fallback file if the ledger cannot be written or a
handler may still be running. Start-up and every repair import the files, read a
page of each channel, and replay what the ledger still holds. Every message
write that changes a text retires its vector and queues an embedding job in the
same transaction; the slots of `tail --embed-live` and the `embed` command take
the jobs from there. tail, sync and embed exclude each other through the writer
lock; repair and live handlers of one tail do not. Before a handler or a crawl
writes a message it asks the scope of its channel, and the writing transaction
asks again. A sync discovers channels, stores them, and hands the selected ones
to a pool that crawls each; the repair does the same in its latest-only form and
then replays channel, member and message failures. Every row write is followed
by a trigger of the change feed; `publish` exports the tables and `update`
merges them on another machine, under the same lock.

`PROJECT.json` lists the hazards found while reading, each at the line where it
bites, with the properties that would catch it.

## 2. Modules

| Module | Models | State ↔ code | Composes |
|---|---|---|---|
| `FailureSpool` | what the fallback promises | occurrences handed in, acknowledged, counted | — |
| `TailFallback` | `PersistTailMessageFailureFallback`, `ImportTailMessageFailureFallbacks` | directory entries, what of them is on disk, receipts, ledger counts | implements `FailureSpool` |
| `TailRecovery` | message handlers, failure recorder, `runTailRepair`, replay, `keepStoredMessage` | rows, event log, ledger, fallback set, stage of worker and repair | takes a fallback import as one step, which `TailFallback` refines |
| `TailWorker` | `Client.Tail`, `runTailTaskExecution`, circuits, `cleanup` | queues, stage of each worker, each handler goroutine, the contexts | calls "a handler", whose content is `TailRecovery` |
| `EmbeddingQueue` | job queue, background slots, drain, writer lock, what a merge does to texts | jobs with lease and revision, vectors, texts, slots | the lock is one step; `TailSession` has its details |
| `ChannelHistory` | bootstrap, forward, backfill, verification and windows of one channel | rows, the six `sync_state` records, the run's stage and page, the tail | one page of a repair is `TailRecovery`'s page step |
| `CollectionScope` | scope decisions, admission, guard; channel rows and tombstones | channel rows, the actors' catalogues, what changed since they read | the write it guards is `TailRecovery`'s and `ChannelHistory`'s |
| `GuildSync` | `Sync` of a guild: catalogue, pool, markers, channel failures | channel rows, cursors, markers, ledger, workers, the channel lane | the crawl of one channel is one step, which `ChannelHistory` details |
| `TailSession` | the lock protocol and the session loop of `RunTail` | lock, metadata, tokens, the stage of each process, repair and join | what a repair does is in `TailRecovery`, `GuildSync`, `MemberSync` |
| `MemberSync` | member events, refresh, replay, reconcile | member rows, checks, ledger, receipt, the observer's stage | — |
| `ChangeFeed` | triggers, generations, repair, compaction, a reader | tables, log, floor, generations, a copy with its cursor | an import is `ShareImport`'s replacement |
| `Publication` | `publish` | tree, index, HEAD, remote, stage, backups | — |
| `ShareImport` | `subscribe`, `update`, auto-update | both archives' rows, plan, records, indexes | imports what `Publication` pushes |
| `MC…` | small instances | | |
| `TailFallbackProofs`, `TailRecoveryProofs`, `EmbeddingQueueProofs`, `TailSessionProofs`, `TailWorkerProofs`, `ShareImportProofs`, `ChannelHistoryProofs`, `CollectionScopeProofs` | theorems about the module of that name (section 4) | | |

Every module comment says what it abstracts. In all of them a SQLite
transaction is one step (the writers open the database with `synchronous=FULL`,
so a commit is durable), and between two transactions, two system calls or a
request and its answer anything else may happen. Definitions introduced by "Bug
variant" are not part of the specification: each is a plausible mistake in the
definition after it, and replacing that definition by the variant makes TLC
find a violation of a named property (`mutants` in `PROJECT.json`). They show
that the properties are sensitive to the code.

### TailFallback

One action per system call that another party can tell apart: create the
directory, sync its parent, create the temp file, rename it, fsync the
directory, acknowledge; list, remove temp files, the import transaction, remove
the committed files one by one, fsync. A fault is a call that fails or a process
that dies; a power loss sets the directory back to what was fsynced (and to
nothing if the directory's own entry never was). Names are unique, as 128 random
bits are.

`AcceptedIsDurable`: an acknowledged failure is on disk or in the database.
`RemovedOnlyAfterImport`, `AcceptedIsImported` (liveness) and `ImplementsSpool`
(refinement) complete the contract.

### TailRecovery

A message is its sequence of versions at Discord, with a timestamp per version
that need not change. The worker takes an event through refetch, write, resolve
or record. The repair fetches a page, writes it, settles the failures it
covers, imports fallback files, lists candidates and replays each with a refetch,
a write and a resolve by generation. `mode` is up, stopping or down; faults are
failed calls, stops and crashes.

`NoLostFailure`: a version an identity reported as failed is in the archive, or
the identity is still open (ledger, fallback file or in the worker's hands).
`RecoveryKeepsNewer`: no step of the recovery takes a
row back. `NoStarvation`: every open create or update is reached.

### TailWorker

Time is reduced to what the code compares: before a task's deadline, in its
grace period, after it. The race between a handler's result and the deadline,
between the deadline and the cancellation, and between the two looks at the
context are all there. `OneOrderedHandler` (no two ordered handlers, not even an
abandoned one and its successor, and no handler before the failures of the
earlier events are recorded), `FailureAccounted` and `TailReturns` are the
properties. `FailureAccounted`: a message event a worker started and left is
archived or recorded, or the tail reports that it could not be. What a handler
returns after a cancellation is covered too: `ParentMessageFailure` records it
(`tail.go:112-119`). The one exemption (`OrdinaryCompletion`) is an error the
worker took for an ordinary completion, before any cancellation (the history
variable `taken`) or once the deadline had passed, with the cancellation seen
only at its second look (section 5.2).

### EmbeddingQueue

A text is a model value, with one text longer than the provider is sent, and a
vector is the input it was computed from. A claim is the slot that drew it, plus
the revision. The lease and backoff times are Booleans that time may flip; losing
a lease that is still worked on counts as a fault. The retry or permanent
decision belongs to the worker runtime of crawlkit, which is outside this
repository, and is left open. The history variable `origin`
remembers how a message's text last came: with a job, without one, or with a
merge. `PublishedIsCurrent` holds for all, `VectorIsCurrent` for all but merged
texts (a merge leaves the old vector in place until a rebuild), and
`FailedIsCurrent` and `EverySettles` for texts that came with their job: a write
that does not queue leaves a finished job finished.

### ChannelHistory

One channel: the messages Discord has (ids in posting order, which also stand
for their times), the rows stored, and the six `sync_state` records that claim
something about them: `latest_message_id`, `backfill_cursor`,
`history_complete`, the verification checkpoint, `verified_empty` and the
certified windows. A run loads them, takes one of the routes of
`syncChannelMessages`, fetches and stores page by page, and writes each record
in a step of its own; it may fail, and the process may die, between any two.
Only one run is active (the writer lock, or the one repair of a tail), but a
tail beside it writes live rows and, without `--repair-on-start`, moves
`latest_message_id`.

`HistoryHasNoHole`: what the two cursors and `history_complete` span is stored.
It is stated for channels whose rows all came by a way that keeps account of
their neighbours. The history variable `loose` records the ways that do not: a
live row, a window, a page or bootstrap of a channel already marked complete,
and a first crawl interrupted before both cursors were set. Each of them can
leave a hole in the code as it is (section 5 and the hazards).
`VerificationEndsWhole` holds without that restriction: verification trusts its
own checkpoint only. `VerificationEnds` is the liveness of an interrupted
verification, and `HistoryIsWhole` the unrestricted claim of `history_complete`,
which fails.

### CollectionScope

Two actors, the live handler and the repair, each with its catalogue and its
place in an admission, over the channel rows of the store. A revision is only
compared for equality with the one an actor read and an observation only with
the start of its request, so both are kept as sets (`dirty`, `newer`).
`AllowedIsCurrent`: no stored "allowed" outlives a move, a deletion or a decision
made over older rows. `ContentInScope`: content is fetched under a decision that
was true at some moment of this admission, and committed under one that is true
now. `TombstoneStays`: no answer under way brings a deleted channel back.
`ScopesSettle`: when nothing changes any more, the decisions are those of the
running configuration.

### GuildSync

Runs are *latest*, *full*, *window* (`--since`) and *target* (`--channels`). A
point in time is the set of threads archived before it, since archive cursors
are only compared with archive timestamps. Two workers take channels; the first
error cancels the others. A crawl that knows the channel's last message succeeds
without a request (`known`, `NothingNew`). The lookup of an unknown channel, its
marker and the writes to its failure are steps of their own (`verdict`), and the
cancellation or a change at Discord may come between any two. `SuccessHasEvidence`: `sync:last_success` is written
only if every selected channel was crawled or has a marker or a failure.
`SettledIsGone`: a failure is written off as provider-unavailable only while
Discord does not serve the channel. `ChannelsSettle`: no failure and no marker of
a listed channel stays for ever. Two hazards remain in the code and are not
covered by these properties: an archived thread whose first crawl failed is not
revisited by routine runs, and a lost channel that is not listed keeps a pending
failure of another kind.

### TailSession

Each start of the program is one process: a tail, a messages query with
`--sync`, a command that updates the share. Taking the lock, writing the
metadata, activating a token, opening and closing the store, and each read of a
waiting query are steps; a process may be killed between any two, and its locks
go with it. Within the tail the loop, the timer, the repair goroutine, its mutex
and the five-second join are steps. `OwnerWrites`: only the lock's owner has the
store open, and a session never ends quietly over a running repair.
`RefusalMeansTail`: a query gives way only if a tail did hold the lock since its
attempt began; the one exception is another query caught in its own probe of a
token. `RepairRunsAgain`, `SessionReturns`: liveness, without any fairness of
the repair. PID reuse and torn reads of the metadata are left out; a ledger
transaction of a stray repair may commit after the close.

### MemberSync

The Gateway's member events, one observer at a time (an enumeration in pages and
batches, a replay, a reconcile) and the archive. The events go through one queue
to a pool of `Workers` that run side by side (`tail.go:177`), so of the oldest
events, one for each worker, any may be the next to be stored or to fail, two of
one user included. Time is the set
`since` of rows written or checked after the observer's request began.
`ObserverNeverOlder`: no request takes a row back, not even over an event that
changed nothing. `ReceiptIsComplete`: the receipt advances only over a complete
enumeration. `MembersSettle`: the archive converges to the guild. Two removals
are exempt, because a live row then stays for good (enumerations do not delete,
by design): one that no handler was ever told of, and one that was overtaken,
where a worker stores the user's join after the leave that followed it. The
history variable `missed` holds the users of both kinds, and
`HandlersKeepRemovals` shows the second (section 5). Adds
and updates are one kind of event; the evidence rows of guilds and channels are
not modelled.

### ChangeFeed

Stamps come in any order. A fault loses a trigger or a feed table, rebuilds a
table, imports a snapshot, or puts an earlier copy of the file back. The reader
follows `docs/guides/change-feed.md`: it replays from its cursor when generation
and entry digests prove that the cursor belongs to this history, and reads the
table anew otherwise. `CaptureIsExact`: after a capture the copy is the table,
for every cursor not itself taken between a disturbance and the open that
repairs it. `CompactionKeepsCursors`: a cursor at or above the floor stays valid.

### Publication

A tree is a function from names to contents; working tree, index, HEAD and the
remote branch are four of them. Every file of the installation is a step, each
may fail, and a kill may come between any two. Other writers push, the operator
stages work of his own. A receipt names its producer and binds one exact
manifest. Git merges by lines: another writer's edit of a manifest (`Edit`)
merges cleanly into one of ours that changes other lines, and what a rebase then
leaves is no longer the manifest that was exported. The pair is therefore checked
before each of the two pushes (`BoundPair`), and the check before the second one
is what refuses the merged manifest. The git mirror of crawlkit is external; tags and the
publisher's import mark are left out. `FailureRestores`: a failed export leaves
the tree as it was, or the backups. `CommitIsWhole`: a commit is one whole
publication and leaves staged work alone. `PushedIsExported`: a push under a
receipt delivers exactly the exported pair, also after a rebase that succeeded.
Three things the properties leave
open because the code does: after a kill between the receipt and the manifest
later bound publications are refused (`publication_provenance.go:126`); a custom
README over a committed generated one keeps the old report in HEAD of a filtered
publication; and field notes that another writer pushes before the retry are
rebased under a filtered publication.

### ShareImport

A publisher and a subscriber with observations of its own. A row is known by the
times stamped on it, and the history field `seen` says when its content was last
known to be right. Plan, transaction, index rebuild and records are steps with an
interruption possible between any two. `RecordedIsApplied`: the manifest that
lets the next merge skip shards is never ahead of the archive. `EventsOnce`: a
repeated merge adds no event twice. `ContentNeverOlder`: short of an exact import
no update replaces newer content. `UpdatesSettle`: updates bring the archive to
the last snapshot, searchable, unless it is recorded as needing an exact import
or an interrupted one has left no index (section 5). Direct messages,
attachments, guild-id repair and row validation are left out.

## 3. Runs

| Run | Shows | Bounds, and why they suffice |
|---|---|---|
| `fallback` | durability, exactly-once import, refinement and eventual import with two importers, one fault, one power loss | two occurrences of one ledger identity: their files meet in one import and in two; the directory is absent (its creation and the parent fsync are in the way) or from an earlier run |
| `recovery` | no recorded failure is dropped, recovery takes no row back, every open create and update is reached | two versions and a deletion of one message, three faults, room for one candidate per replay: the hopeless candidate is a delete of a message without a row; rows of different messages meet only in the replay order |
| `worker` | order, accounting and return of one ordered worker | three events, so that the circuit (limit 2) opens and one event is still queued; one record that cannot be persisted |
| `embedding` | currency of vectors and verdicts, every queued text settles | two slots on one message (one claim is superseded while another is fresh), four texts, one of them blank and one cut to size, four revisions, two faults, a snapshot, writers that queue and writers that do not |
| `history` | what cursors and markers claim is stored; a verification ends, whole | three messages in pages of one, one deletion, one fault, every mode, one `--since`, both kinds of tail: forward and backfill take several pages, and live rows come between them |
| `scope` | decisions, admission and guard under two actors | a category and a channel that moves out of it, one move or deletion, two policies and a restart |
| `sync` | the evidence of a success, and settling | two channels, a thread and two workers: one fails while the other is at work; one change at Discord, one fault |
| `session` | the lock protocol and the session loop | a tail, an updating command and a query: each pair contends, and the third may come between |
| `members` | the fences of refresh, replay and reconcile, and convergence | two users who join, leave and rejoin, in pages and batches of one, three changes, more workers than events, so that they are stored in any order, two faults (a handler's and its replay's), one sync or reconcile beside the tail |
| `feed` | the reader's contract | two keys, two stamps in any order, batches of two, two faults |
| `publication` | export, commit and push | two shards, three publications of four kinds, two faults, one step of the operator or another writer |
| `import` | merge and exact import | one message and one member, two publications, one exact import, one interruption |

Further configurations are run by hand, with the same modules:
`TailRecoveryEdits.cfg` (three versions; also `TypeOK`, `ArchivedIsStored` and the
inductive invariant `RecoveryInv`), `TailRecoveryPreviews.cfg` (edits whose
timestamps do not differ; `FenceInv`), `TailWorkerSafety.cfg` (`TypeOK`,
`LedgerAfterJoin`), `TailWorkerStops.cfg` (a member worker beside the ordered
one), `CollectionScopeThread.cfg` (a thread of the channel that moves; `TypeOK`),
`MemberSyncGenerations.cfg` (one user with two profiles, four changes, two
faults; `TypeOK`). All pass. Those of section 5 are violated. Larger instances of `ChangeFeed` (three stamps, or two tables, with one
fault) and of `Publication` (two outside steps) were checked in the same way.

Counters that the code leaves unbounded are capped by `MaxFaults`,
`MaxPowerLosses`, `MaxVer`, `MaxRevision`, `MaxPosts`, `MaxDeletes`, `MaxMoves`,
`MaxRestarts`, `MaxChanges`, `MaxCommands`, `MaxGen`, `MaxOutside`, `MaxTime`,
`MaxPublications` and `MaxExact`; `ReplayLimit` (25 in the code), `PageSize`
(100, and 1000 for members), `BatchSize`, `Batch`, `PageLimit`, `QueueSize`,
`FailureLimit` (3) and `Workers` (4 to 16) are the code's own limits at a smaller size. Deadlock is
checked in `recovery`, `scope`, `sync` and `members`; in the others the program
may come to rest: all calls have ended, Tail or the session has returned, the
queue is empty, nobody syncs, publishes or writes any more.

### Fairness

* `TailFallback`: a running import and the next import are taken eventually; the
  tail imports at start-up and on every repair tick. No persist call is fair.
* `TailRecovery`: worker, repair and restart. The repair is driven by a ticker,
  the restart by the service manager (docs/commands/status.md describes
  launchd). Faults are bounded, so a step that keeps being retried succeeds.
* `TailWorker`: workers and timers. No fairness of handlers: one may hang for
  good, and `TailReturns` must still hold.
* `EmbeddingQueue`: a sync or drain that runs goes on and ends, slots run, leases
  and backoffs end, and the tail is started again, with strong fairness: the
  service manager keeps trying until it gets the lock that others take in
  between. The provider's failures are bounded by `MaxFaults`.
* `ChannelHistory`: a run goes on, and somebody syncs without `--since` again and
  again (a schedule, or the repair ticker of a tail), with strong fairness since
  windowed runs may come in between.
* `CollectionScope`: the live handler and the repair go on, and a sync is started
  again and again, with strong fairness since messages and restarts come in
  between.
* `GuildSync`: a run goes on, latest-only runs are repeated (the repair ticker or
  a schedule), and the retry window of a marker passes.
* `TailSession`: every process goes on, a cancelled Tail returns, the timer
  fires. A repair need not end.
* `MemberSync`: the workers take events and some event in hand is handled, the
  observer goes on, the tail is started again, a day
  passes.
* `ShareImport`: a command goes on, the archive is opened again, and updates that
  pull are started again and again (strong fairness: other commands come first).

## 4. Proofs

The proofs hold for every value of the constants that satisfies the named
assumptions in the modules: any number of occurrences, importers, messages,
versions, slots, texts, processes, tasks, pages, rows, faults. Each inductive
invariant was checked by TLC before it was proved, on the instance of the run or
a larger one; a proof has one lemma or step per action.

**`TailFallbackProofs`.** `FallbackSafety`, `RemovalFollowsImport` and
`FallbackImplementsSpool`. They are theorems of `SteadySpec`, which adds
`FolderStays` to `Spec`: in the initial state the directory is there from an
earlier run, or no power loss is left to come. Without it the statement is false:
only the call that created the directory syncs its parent
(`tail_failure_fallback.go:515`), and if that call dies first, the next one
acknowledges a file in a directory whose own entry is not on disk.
`AcceptedIsDurable` is not inductive: an
import may remove a file, so one needs to know that what an import removes is in
the receipts (`GhostsAreImported`, `ImportsHoldRealFiles`), that an acknowledged
call has renamed (`CommittedAfterRename`, `RenamedIsListed`), and that the
directory stays (`FolderStays`). Their conjunction is `IndInv`. The refinement maps a persist call to handing in
at its rename and to acknowledging at its return, and the import transaction to
counting.

**`TailRecoveryProofs`.** `RecoveryNeverRegresses` holds for any timestamps; its
invariant `FenceInv` says that everything held came from Discord (`FromDiscord`)
and that whoever holds a fetched version of a row older than the stored one has
a fence on it (`RepairFenced`, `WorkerFenced`). `NothingIsLost` (`NoLostFailure`
and `ArchivedIsStored`) assumes `OrderedEdits`, that newer versions have newer
timestamps. Without it the statement is false: an update whose timestamp equals
the stored one is dropped by the fence when an older page was written while its
handler ran, and is still traced as archived (`write.go:666`). Its invariant `RecoveryInv` adds that an identity about to be resolved, by the
worker (`WorkerSettles`) or the repair (`RepairSettles`), is settled in the row.

**`EmbeddingQueueProofs`.** `OnlyCurrentIsPublished`, `VectorsStayCurrent` and
`FailuresStayCurrent` are theorems of `Spec` without further assumptions: with
snapshots merged and with writers that do not queue. The history variable
`origin` says in the properties what these two do: a merge replaces a text and
leaves its vector (`share/rows.go:242`), a write without a job leaves the verdict
of the old one. The inductive
invariant is `TypeOK` with `LockInv` (one owner), `SlotInv` (a busy slot belongs
to a running tail, and while its claim matches the job, the text it read is the
text there is) and `DrainInv` (the drain works only under the lock, and what it
listed is unchanged). `SlotInv` is the point: a claim outlives the transaction it
was drawn in, and only the revision and the token tie it to the text.

**`TailSessionProofs`.** `OnlyTheOwnerWrites` (`OwnerWrites`) and
`RefusedByATail` (`RefusalMeansTail`). Neither is inductive. That a process with
an open store owns the lock needs the stages between the attempt and the release
(`LockInv`). That a refused command met a tail needs three things together: only
commands that are no tails look, and at a tail's token (`LookInv`); a locked
token belongs to a session that has reached its Gateway, or to another command's
probe (`TokenInv`); and whoever finds the token locked has waited while that
tail had the lock, since the tail takes its token in a later step than the lock
(`SinceInv`). `RepairInv` ties mutex, run, result and the active flag of a
repair: it is what keeps a session from ending quietly over a run it has started.

**`TailWorkerProofs`.** `OrderedOneAtATime` (`OneOrderedHandler`),
`MessageFailuresAccounted` (`FailureAccounted`) and `LedgerOnlyAfterJoin`
(`LedgerAfterJoin`). The invariant says where an event can be: queued once, in
the hand of one worker of its class, or done (`HandInv`, `QueueInv`); what the
classification of an execution tells about its handler (`ExecInv`: only one
reported as detached or not joined may still run); and that an ordered event
which still runs, or whose failure is not recorded, is the one the ordered worker
holds, or that worker has stopped for good (`PendingInv`). The last one is the
point of the cleanup order: a worker that gave a handler up may not take another
event. The exception in `FailureAccounted`, an error taken for an ordinary
completion with the cancellation seen only afterwards, is the case of section 5.2
and stands in the theorem. That there is no other rests on `GraceInv` (a worker
waits out a grace period only when the deadline has passed) and on `taken`: a
worker that takes an error in time and outside `taken` has seen the cancellation,
and keeps the error for `ParentMessageFailure`.

**`ShareImportProofs`.** `RecordNeverAhead` (`RecordedIsApplied`),
`EventsNeverTwice` (`EventsOnce`) and `MergesNeverGoBack`
(`ContentNeverOlder`). The record is a claim about the archive made in one run
and relied on in another, so the invariant follows it through: snapshots are
ordered in time and carry only older share states (`PublisherInv`), content is
known to be right no later than its fence says (`ArchiveInv`), and a merge skips
only rows that the archive has and adds events only to a table without any, from
its plan until the record is written (`ImportInv`).

**`ChannelHistoryProofs`.** `CursorsClaimNoHole` (`HistoryHasNoHole`),
`VerificationLetsGoWhole` (`VerificationEndsWhole`), `CheckpointIsTrue`
(`CheckpointCovers`) and `WindowsAreWhole` (`WindowIsWhole`), for any number of
messages and any page size. Below the invariant are facts about the pages Discord
serves (`BeforeIs`, `AfterIs`: a page is the unbroken stretch next to its
position, and a short one is all there is) and what a page adds to a stretch that
is already stored (`PageCovers`, `LastPage`). They need that a set of ids has a
least and a greatest member, and that a part of a finite set is not larger. The
invariant has three accounts of coverage that do not trust each other.
`CheckpointInv` and `VerifyInv` hold whatever others do to the shared cursors: a
verification speaks only of what is above its own position. `WindowInv` is the
same for a window and its `until`. `SharedInv`, `ForwardInv`, `BackInv` and
`BootInv` (together `NoHoleInv`) are about the shared cursors and hold while no
verification is pending and `loose` is unset. They say at every stage of a run
what is already stored and not yet claimed: rows come before the cursor that
claims them, `latest_message_id` may lag behind the crawl but never leads it, and
until the backfill has written its first cursor the oldest row stands in for it
(`LowMark`), which is how a full run takes missing cursors from the rows.
`ZeroInv` is the fact that makes this work: an empty `latest_message_id` means an
empty channel, unless a row came by one of the ways that set `loose`.

**`CollectionScopeProofs`.** `StoredDecisionsCurrent` (`AllowedIsCurrent`),
`ContentOnlyInScope` (`ContentInScope`), `DeletedStaysDeleted`
(`TombstoneStays`) and `TypeCorrect`, for any finite set of channels, any
ancestry (cycles and missing parents included), any policies and any number of
moves and restarts. `ScopeAssumption` asks that the channels are finite, which
they are in a table, and that no channel is called `None`.

Underneath are facts about the ancestry walk: `Climb` is a recursive function
bounded by the number of channels, so that it exists at all (`ClimbExists`) and
that it depends only on the rows it passes (`ClimbLocal`) are arguments by a
least counterexample. From there, a channel in scope stays in scope as long as
the rows above it stay (`ScopeLocal`, `KeepsIf`), and this is what each write has
to account for: `Written(S)` says of a write that only channels of `S` may lose
their scope, and one lemma per write of the store (`UpsertWrites`,
`DeleteWrites`, `SeedWrites`, `GuildWrites`, `SetWrites`) shows that `S` is within the
rows whose decision it invalidates and whose revision it changes.

None of the three properties is inductive. `AllowedIsCurrent` is about to be
broken whenever an actor holds a decision it has not written, so it needs
`CatalogInv`: a decision an actor has read is current, or the row's revision has
changed since and `SetChannelScopes` and `scopeCacheStale` refuse it. An
admission spans several transactions, so `ContentInScope` needs what is true at
the moment the catalogue is read (`SinceInv`). `TombstoneStays` needs everything
that may still speak of a deleted channel (`DeadInv`): no event on its way says
it is there, and an actor that has an answer about it, or has it in its listing,
also has it among the rows written since its request started, so that
`UpsertObservedChannel` drops the answer. That the deletion is the last event of
a channel is `QueueInv`; that the request misses no write in between is
`StepObserves`. `RowInv` (what is not known is blank) and `PlaceInv` (who is in an
admission has a channel) complete the invariant `IInv`, which TLC checked on two
channels, two moves or deletions and a restart.

Left to TLC, because the proof system does not reach it: the liveness
properties (fairness and ENABLED). Induction over data is only there in the form
of a least counterexample (`Least` in `ChannelHistoryProofs` and
`CollectionScopeProofs`), which these modules need for ends of sets and for the
ancestry walk and nothing else. The safety properties of `GuildSync`,
`MemberSync`, `ChangeFeed` and `Publication` are model-checked only. A proof of
`FailureRestores` and `CommitIsWhole` would follow the backups and the index
through every step of an installation, and needs the files still to be installed
as a set: the provers know nothing of the sequence of those that a filter keeps.

## 5. Where the code promises less

Each of these is a disagreement between the code and a line of its docs, comments
or tests, and a configuration to be run by hand shows the trace.

1. *A deletion without a row leaves no tombstone* (`TailRecoveryRevived.cfg`,
   `RecoveryKeepsDeletion`; `internal/store/write.go:646`). A page fetched before
   it inserts the message as live. `docs/guides/ingestion-integrity.md:167`:
   "recovery cannot overwrite a newer local observation, message deletion, member
   change or channel tombstone."
2. *A returned failure is dropped on cancellation* (`TailWorkerCancelRace.cfg`,
   `ReturnedFailureKept`; `internal/discord/tail.go:115`), when the context ends
   between the classification of the execution and the worker's second look at
   it. `internal/discord/client_test.go:2038` asserts one record call under
   `TestTailParentCancellationPreservesReturnedMessageFailureExactlyOnce`.
3. *A windowed sync seals a hole* (`ChannelHistoryHole.cfg`, `HistoryIsWhole`;
   `internal/syncer/message_sync.go:464`). A channel that was complete while it
   was empty gets messages, and the next sync carries `--since`. It declines
   verification and stores its window; the rows keep every later run from
   verifying, and `history_complete` keeps them from going back. The comment at
   `message_sync.go:460` says "a stranded channel is still repaired by the next
   unwindowed run"; see also `docs/commands/sync.md:75`.
4. *A thread archived between two runs is not found* (`GuildSyncArchived.cfg`,
   `ArchivedBetweenRunsFound`; `internal/syncer/channel_catalog.go:359`). The
   cursor of an archive list moves while the catalogue is read, before the
   threads it found are stored: a run that dies in between has passed them, and
   no later routine run asks for them. `docs/commands/sync.md:91` and
   `docs/guides/sync-sources.md:67` say of the cursor that routine refreshes
   "discover threads archived between runs".
5. *Full runs stop discovering* (`GuildSyncFull.cfg`, `FullRunsDiscover`;
   `internal/syncer/syncer.go:383`, `storedb/queries.sql.go:592`). The backlog
   query also lists channels with a tombstone. Their crawl is refused by the
   scope and leaves no marker, so the backlog never consists of marked channels
   only and the run never gets to discovery. `docs/commands/sync.md:88`: "When
   only unavailable channels remain in the cached backlog, it also discovers new
   channels".
6. *An interrupted exact import leaves the archive without search*
   (`ShareImportInterrupted.cfg`, `OpenIsSearchable`;
   `internal/share/import.go:130`, `internal/store/store.go:810`): the indexes
   are dropped and their version stays, so the next open does not rebuild them.
   `CHANGELOG.md:550` says of a cancelled import that "large SQLite and FTS
   writes can roll back and close cleanly"; `docs/commands/update.md:26` that
   `--force` rebuilds the search indexes.

The assumptions named in section 4 (`FolderStays`, `OrderedEdits`), the history
variables `origin` and `loose`, and the exceptions named in section 2 mark the
other places where the code promises less than one might expect.
One of them has a configuration of its own: `MemberSyncOvertaken.cfg`
(`HandlersKeepRemovals`) is violated, since `tail.go:407` and `tail.go:361` hand a
leave and the join before it to different workers and `UpsertMember`
(`write.go:399`) has no fence. With `Workers = 1` the property holds; no line of
the docs promises it.
`docs/commands/sync.md:90` gives five minutes for a window that is fifteen in the
code and in the guide.

## 6. Not modelled

* Read-only parts: queries, search, reports, digests, metrics, formatting.
* Start-up only: configuration, credentials, most migrations.
* Parsing: the desktop cache, message text projection. Texts and payloads are
  model values.
* The media cache, and attachments beyond their scope check.
* File modes and ACLs of the fallback directory.
* Guild rows and roles, replay of guild and channel metadata, pruning of resolved
  ledger rows, the emptied-message branch of `keepStoredMessage`.
* The platform variants of the writer lock, which implement the same lock.

## 7. Plan

Done, in this order: `TailFallback`, `TailRecovery`, `TailWorker`,
`EmbeddingQueue`, `ChannelHistory`; `CollectionScope`, `GuildSync`,
`TailSession`, `ChangeFeed`, `Publication`, `ShareImport`, `MemberSync`; proofs
about `TailFallback`, `TailRecovery`, `EmbeddingQueue`, `TailSession`,
`ShareImport`, `TailWorker`, `ChannelHistory` and `CollectionScope`.

Left:

1. Proofs: `Publication` (`FailureRestores`, `CommitIsWhole`).
2. That `TailSession` implements the one-step lock of `EmbeddingQueue`.
3. The media cache and the desktop checkpoint.
