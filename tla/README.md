# wamux: TLA+ models and proofs

wamux is a daemon that runs many WhatsApp accounts behind one Unix socket. This
directory holds TLA+ models of it, the TLC configurations that check them on
small instances, and TLAPS proofs of the properties that matter most. Paths below
are relative to `src/crates/wamux/src/`.

## The system and its parts

| Part | Where | Model |
|---|---|---|
| Group commit: one connection, one transaction, one COMMIT for the writers of all accounts | `storage/group_commit.rs`, `group_commit_reconcile.rs` | `GroupCommit`, on the engine `BatchConn`, against the promise `AtomicBatches` |
| Event publisher, replay ring, send echo | `state/event_publisher.rs`, `event_bridge.rs`, `event_ring.rs`, `send_echo.rs` | `EventStream` |
| Subscription to one account | `services/event_service.rs` (`forward`) | `EventStream`, on the channel `Broadcast` |
| Connecting, stopping and logging out accounts; connection budget and state | `state/account_registry.rs`, `account_handle.rs`, `event_bridge.rs` | `AccountLifecycle` |
| Account directory (create, resolve, list, delete), all-accounts subscription | `state/account_registry.rs`, `storage/*/accounts.rs`, `services/event_service.rs` | `AccountDirectory` |
| Store encryption, key rotation, blob format upgrade | `storage/store_encryption.rs`, `convert.rs`, `bincode_upgrade.rs` and their SQL | `StoreEncryption` |
| Signal, app-state and protocol stores | `storage/sql/`, `storage/turso/`, `storage/statements/` | `SqlRows` (SQL values and conflict rules), `StoreStatements` (one definition per SQL constant), `StoreBase`, `SqlStores` and `TursoStores` (the methods of each family), `Stores` (any calls, in any order) |
| Media spool and transfers | `spool/`, `services/media_*`, `domain/media_transfer.rs` | `MediaSpool` |
| Socket, serving, shutdown | `main.rs`, `transport/`, `server.rs`, `daemon_runtime.rs` | `SocketBind` |
| Pairing streams | `services/account_service.rs` | `PairingStream`, on `Broadcast` |
| Message, group, contact, newsletter and call services | `services/`, `domain/`, `error.rs`, `wamux-types` | `RequestSteps` (conversions, errors), `MessagingPlans` and `DirectoryPlans` (one plan per RPC), `Requests` (running a plan) |
| Composition of the last three | | `Daemon` |

The parts meet as follows. A process binds its socket and serves; an RPC resolves
an account in the directory, connects or stops it, or calls the library through
its client. The library's run loop emits events, which update the connection
state (`AccountLifecycle`) and go through the account's publisher to its ring and
broadcast (`EventStream`). The library persists through the stores, whose writes
on SQLite and Turso go through group commit (`GroupCommit`). `Daemon` composes
the life of processes with the streams and requests they serve; `AccountDirectory`
composes the directory with the streams that follow it. The other models take
their neighbours as nondeterministic input.

`PROJECT.json` gives the source lines of every definition, the hazards found in
the code with the properties and theorems aimed at them, and every part with its
status.

## Group commit

`GroupCommit` has the fields of `BatchState` (`open`, `jobs`, `waiters`,
`job_open`, `in_flight`), the FIFO lock (`holder`, `queue`), the pending slots
and their `drained` notification (`slots`, `woken`), and where each caller is
(`pc`). The lock holder runs sequential code between awaits, so a single
variable `step` names the await it is at and `op` the operation it is in. A job
is one write; readers call `lock`, maintenance calls `lock_autocommit`. Every
caller calls once, so a finished behaviour stops and deadlock is not checked.

A future may be dropped at any await (`DropQueued`, `DropListening`,
`DropHolding`). A statement awaited by a dropped future may have run
(`DroppedRuns` contains `TRUE`: sqlx-sqlite runs it on a worker thread) or not
(`FALSE`: an engine that runs nothing once the future is gone).

`BatchConn` is the engine and is external. It assumes that ROLLBACK ends any
open transaction, and that RELEASE and ROLLBACK TO of an existing savepoint fail
only together with an automatic rollback of the whole transaction.

`AtomicBatches` is the promise: jobs join one at a time, a batch becomes durable
or is lost as a whole, nobody is told "ok" unless durable. The refinement maps
`batch` to the writes below the savepoint and `told` to `result`.

Two variables chosen in `Init` and never changed say what a behaviour may
contain: `faulty` (statements fail) and `leaving` (futures are dropped). One run
so covers all four environments. Some properties hold only in some of them and
say so in their definition:

- `RefusedNotDurableApart` excludes faults and drops together, and needs an engine
  whose failing SAVEPOINT leaves the transaction open; see the divergences.
- `RanIsKept` and `UnknownIsDurable` are about an engine without faults. A fault
  may roll back writes that already joined the batch.
- `CapRespected` is about behaviours without drops. A `finish` dropped while its
  RELEASE runs can leave a job in the transaction that is not counted.

## Event path

`EventStream` models one account. Publishing is split where the code is: queue,
take, stamp, push to the ring, broadcast. A panic costs one job. Events are
reduced to a kind, which tells apart what `replayable` does (bulk events never
enter the ring). A subscription subscribes, takes its snapshot, replays it, and
follows the broadcast, skipping numbers at or below the highest replayed one. A
gap marker carries a count in the code; the model keeps the set of events it
stands for, so that losses can be matched with markers. `from` is a history
variable.

`Broadcast` is tokio's channel and is external: a sequence and cursors, with a
capacity after which a receiver is told that it lagged.

`LossIsMarked` allows one exception because the code has it: an event at or below
the highest replayed number. `KeptExactlyOnce` says when that exception is
harmless: the stream started with the oldest event ever kept.
`ShutdownEndsReading` is about clients that keep reading; a forwarder blocked on
the outlet of a client that neither reads nor hangs up does not look at the
shutdown and is left to the drain deadline.

## Account connections

`AccountLifecycle` has, per account, the slot (`running`), the client and the
state watch; per connection, the bot, its supervisor and its owner; per RPC, a
program counter and its locals. A step ends at an await and between a read of
the state and the write decided on it. Library events and bot exits come at any
time. Building more than `MaxConns` connections is the one bound.

Again two settled variables: `calm` (no bot exits before `set_running` has
recorded it, none outlasts `graceful_stop_timeout`) and `leaving` (clients drop
their calls); the constants `Calm` and `Leaving` say which values a run explores.
Properties that fail outside them name them; the failing case is among the
divergences below where a comment of the code promises otherwise. `restored` is a
history variable: the state a failed connect put back, which it may have read while
another call was at work. A logout finds the client, awaits the library's unlink and
then stops whatever connection is there by then, as the code does, so a connect may
come in between.

## Account directory

`AccountDirectory` has the accounts table, the two maps of the registry and the
broadcast of created handles. Every access to a map is a step, since the maps are
sharded and the runtime has several threads; the order in which `insert_handle`
and `delete` touch them is the code's. A store write may fail, and then may have
taken effect or not; the client of a delete may leave while the bot is stopped; a
crash cuts everything, after which `load_existing` rebuilds the maps from the table.
An all-accounts stream subscribes, lists shard by shard, attaches one forwarder per
account and follows the creations; it is explored in behaviours of its own
(`watched`), in which no bot is connected and nothing restarted.

Three history fields mark what the code does not protect from, and the properties
exempt exactly that: `hist.crossed`, a reference that a new account took over while
the delete of its former owner was about to remove it blindly (the reference may
then be missing until a restart, but never leads to another account); `hist.late`, a
connect that overlaps a delete of its account; and `hist.unsure`, an account whose
row was written or erased by a call that went no further (a row without a handle, or
a handle without a row, until a restart). Bots that exit by themselves are in
`AccountLifecycle`.

## Store encryption

`StoreEncryption` has the marker row (`state`, `verifier`, `format`), the
migrations applied, the progress table and one blob per account and column, each
with the key it is sealed under and its format; a blob sealed twice is a state of
its own. A process starts, migrates, upgrades the blobs, resolves its key against
the row, converts, decrypts or rotates account by account, scrubs and serves. It
may fail or die at every step, and either family may resume. `shared` is settled:
one process on a file store, one at a time on Postgres, or a crowd of them there.
One process at a time is a premise. It is the operator's rule (`cli.rs`: "stop the
daemon first"); the code opens a SQLite file in WAL mode without an exclusive lock
and does not enforce it. `WayOn` is about keys and progress: a structured blob that
does not decode fails every start at the upgrade, whatever the key.
Key ids are taken to be distinct; the three reads of `open_cipher` are one step;
a served account writes all its columns at once; refusals of a dirty or changed
migration are left out.

## Stores

Each SQL constant is one definition that says what the statement does to a table:
its binds, its conflict target and what the conflict updates. Each store method of
both families is a composition of them, with the sealing at a row, the codec of ids
and the chunking of lists. `Stores` makes any calls through either family, and
compares what is read with an abstract map of what was said (`rows`). A run looks at
one group of tables at a time (`focus`). A call that fails takes no step, which is
what group commit promises; most `updated_at` columns, the length check of an
identity and the 32-byte filter of an index are left out; received tokens are not
empty. `put_tc_token` replaces a row whatever its age, so the order by time that
`TokensNewest` shows begins anew with each put. On Postgres two overlapping takes
may hand out one payload twice and the second DELETE may remove a message stored
again meanwhile: `TakenOnce` is about the engines with one connection.
`NextPrekeyFree` holds for ids below the sign bit of the column.

## Media spool

`MediaSpool` has the shared budget, and per transfer its reservation, its file and
the blocking task that writes it, which goes on when its call is dropped. Uploads
are staged chunk by chunk, padded and sealed, checked and handed to the library,
which may read the file in several attempts from any offset. Downloads are fetched
into a bounded file, retried, and streamed back. A call that is dropped gives its
reservation back at once, although a thread of the library may still have the file
and go on writing it (`library`, until `LibraryEnds`); `Covered` bounds such a file by
the limits instead of the reservation, and `LeftIsFreed` says when a file is closed
only for those the library does not hold. `Accounted` is about a limited
spool (`max_bytes # 0`): the unlimited mode lets the counter wrap, and nothing
reads it. Two transfers run at a time; block, MAC and limits are scaled down, and
the width of the counter with them (`U64Max`).

## Daemon: socket, pairing streams, requests

`SocketBind` follows a process through `serve`, one step per system call on a
shared name: the probe, the store, the second probe, the private directory, bind,
chown, chmod, rename, the drain, the unlink and the bounded wait for the blocking
pool. Processes share the path and reuse process ids; some crashed before the
behaviour begins and left a socket or a directory. `since` and `met` are history
variables for the races no probe can exclude.

`PairingStream` is one call of PairWithQr or PairWithCode: the stored identity,
the subscription made before the connect, and the relay with its four endings
(an update that ends it, hang-up, shutdown, account gone). The connect finds the
account running, by another call, and does nothing then, or starts its bot. The
stream runs inside a serving process and sees that process's shutdown. `StreamEnds`
promises that a stream hands over the first ending update and ends, unless the
broadcast lost that update to a lagging relay: the relay cannot know what it lost,
and such a stream stays open until another ending update, a hang-up or the shutdown.

A request is a plan: the sequence of steps of its handler, in the code's order.
75 RPCs are 78 plans, because some take more than one way through their handler. A step
converts a field, resolves the account, calls the library, echoes or answers, and
`Requests` runs the plan with one malformed field, any state of the account, any
library error of at most two causes, a panic, or a client that leaves. A group or
channel call may also be refused by the library itself, before WhatsApp is asked.
CreateGroup, JoinWithInvite and PreviewInvite tell that refusal apart; for every
other call it is an opaque error, answered unavailable (`error_group_tests.rs:38`,
`wamux-types/src/newsletter.rs:11-13`), and `HonestErrors` exempts it. One request
at a time; what a message contains, and what an answer shows of it, is data.
While votes are tallied the client may learn mappings, so votes only become
openable.

`scene` chooses what a behaviour of `Daemon` follows: processes that start and end
together, or one serving process with a pairing stream, or one with a request. A
request watches no shutdown, so in its scene the process serves on; being cut is
its client leaving, at any step. `Emits` bounds the events the account publishes to
one of each sort the relay tells apart. The listener is open until the server ends.
The peer allowlist is a pure check and left out.

## Runs

| Run | Instance | Properties |
|---|---|---|
| `gc_safe` | 3 jobs, 1 reader, 1 maintenance caller, cap 2, drops and faults | `ImplementsAtomicBatches` (refinement), `AckedDurable`, `RefusedNotDurableApart`, `UnknownIsDurable`, `CapRespected` |
| `gc_live` | 3 jobs, cap 2, drops and faults, fair | `EveryCallEnds` |
| `es_safe` | 1 subscription, 1 echo, 4 events, ring 3, broadcast 2, outlet 1 | `RingKeepsLatest`, `EchoOut`, `KeptExactlyOnce` |
| `es_live` | the same with 3 events, fair | `EchoReleased`, `HangUpEnds`, `CatchesUp`, `ShutdownEndsReading` |
| `al_serial` | 1 account, 1 caller, 2 connections, no budget, all kinds of behaviour, fair | `CountsSupervisors`, `CallEnds`, `SlotReleased` |
| `al_overlap` | 1 account, 2 callers, 2 connections, no budget, calm or not, no client leaves | `CountedOnce`, `BotsAreCounted`, `SlotIsLiveWhenCalm`, `StateTruthfulWhenCalm` |
| `ad_all` | 2 callers, 1 stream, 2 accounts, 1 reference, creation channel of 1, 1 restart, fair | `AtRestExact`, `FollowedOnce`, `NoneMissed`, `EventuallyAttached` |
| `se_all` | 2 processes, 2 keys, 2 accounts, 3 columns (1 structured), 2 migrations | `SealedAsMarked`, `WayOn`, `ScrubbedUnlessCut` |
| `st_all` | 2 accounts, 2 or 3 ids, 2 payloads, 1 key, chunks of 2, 3-bit ids | `ReadsBack`, `TokensNewest`, `TakenOnce` |
| `ms_all` | 2 of 2 uploads and 2 downloads, limits 0 and 6 with media of at most 3, fair | `Accounted`, `LeftIsFreed` |
| `dm_all` | 2 processes and a crashed one, 2 pids; a stream with 2 events, broadcast 1, channel 1; any request with 2 votes and 2 queries; fair | `SignalledExits`, `StreamEnds`, `RefusedSendsNothing`, `EchoedOnce`, `HonestErrors`, `NoSilentLoss` |
| `gc_lost_told` | as `gc_safe`, sqlx-sqlite (`DroppedRuns = {TRUE}`) | ends in a violation of `RefusedNotDurable`, the finding of `PROJECT.json`; `{FALSE}` is violated too |

The comment above each property says what it claims and which code it is about.

The bounds were chosen so that the cases meet: three jobs and a cap of two give a
full batch with a job behind it, and a drop, a reconciler and a later victim; four
events against a ring of three and a broadcast of two make both overflow; two
connections are a bot left behind and its successor; two accounts over one
reference are an owner and the one that takes over; a spool of six holds one
full transfer and refuses a second; two daemons and a dead one with two pids make
a stale socket, a leftover directory of the same pid and a race of two binds.
`al_overlap` keeps clients from leaving for cost: overlapping calls and clients that
leave meet in the theorems. Its states are compared through a `VIEW` without
`asked`, which no step and none of its properties reads. TLC does not exclude a behaviour that
needs more than these bounds; the theorems have no such bounds.

**Properties outside the configurations.** The passing configurations name 38
properties. The modules define more, each of which held on the instance of its run:
the ones proved (below), the `TypeOK`s, and `RanIsKept`, `CountedDurable`
(`gc_safe`); `RetentionKept`, `ListsAgree`, `NextPrekeyFree`, `NoOrphans`,
`Isolated` (`st_all`); `Streamed` (`ms_all`); `NothingSkipped`, `EndsThere`,
`ShapeFirst` (`dm_all`). Adding the name to the INVARIANTS of that configuration
(PROPERTIES for `RanIsKept` and `Isolated`) checks it again.

**Fairness.** Only the daemon's own tasks are fair, weakly: the runtime polls every
ready task, statements return, blocking tasks end, a grace period or a deadline
passes. One bound is the library's: a stop awaits `client.shutdown()` without a
timeout (`state/account_handle.rs:134`; only the wait for the supervisor has one),
and `CallEnds` and the `stop_all` of `SignalledExits` take it to return. No caller
has to start, no client has to read or hang up, no future is ever dropped for
certain, no process is killed for certain, and no bot has to exit. In the directory
only the tasks of the streams are fair: no call has to end. `CatchesUp`,
`ShutdownEndsReading` and the last part of `StreamEnds` take the client's reading as
a premise. Deadlock is checked in the account, directory and encryption runs; the
others really stop, as their configurations say.

## Divergences

Behaviours of the code that a comment of it rules out. They were found in the
models; none was reproduced on the running daemon. The first is a run of its own;
the others are reproduced by giving a configuration the named property alone.

| Property | Configuration | What happens |
|---|---|---|
| `RefusedNotDurable` | `gc_lost_told` | after an automatic rollback and a drop at ROLLBACK TO or RELEASE, the next job commits alone and is told it failed |
| `RefusedNotDurableApart` | `gc_safe` with `Aborting = {"Savepoint"}` | a SAVEPOINT that fails and takes the transaction along (#229) makes `start_job` return its error with the batch still open (`storage/group_commit.rs:166-174`); the next job runs outside any transaction, its RELEASE commits it alone, and the failing COMMIT tells it that it failed: "a failed COMMIT fails the whole batch" (`storage/group_commit.rs:14`) |
| `ExactlyOnce` | `es_safe` with `Sender = {}` | an event published between subscribe and snapshot but not in the snapshot is skipped as a copy: "upgrades that overlap to exactly-once" (`services/event_service.rs:119-121`) |
| `CountsSupervisors` | `al_overlap` | two overlapping connects leave the budget one too high for good: "a live replace shouldn't happen" (`state/account_handle.rs:100`) |
| `OneBot` | `al_overlap` | the same two connects run two bots of one account until the second is recorded |
| `SlotIsLive` | `al_serial` | a bot that exits before `set_running` leaves a finished one in the slot, and later connects do nothing: "Clears the running slot" (`state/account_handle.rs:113`) |
| `Reachable` | `al_serial` | a connect during `on_bot_exited` loses its client (`state/account_handle.rs:112-115`), and a disconnect cannot reach its bot |
| `LeftBehindWasAsked` | `al_serial` | the same connect is stopped without its client: the stop asks nobody and leaves a bot behind that goes on: "shutdown already requested the exit" (`state/account_handle.rs:127-128`) |
| `TerminalKept` | `al_serial` | a logout becomes terminal between the check and the write of a supervisor or a stop: "a stop after a logout must not overwrite it with DISCONNECTED" (`state/account_handle.rs:153-154`) |
| `StateTruthful` | `al_serial` | a connect dropped while the bot is built leaves the account CONNECTING: "Restore the exact prior state on failure" (`state/account_registry.rs:198`) |
| `RunAgainScrubs` | `se_all` | after a failed scrub the error says "run again" (`storage/sql/convert.rs:199-203`), but the next start finds the store encrypted and does not scrub |
| `MigratesAlone` | `dm_all` | two daemons started together both open the store: "a second daemon stops before it runs migrations on the live one's store" (`transport/uds_listener.rs:88-91`). What does hold is `OpensUnserved` |
| `AllSendsEchoed` | `dm_all` | a caller that hangs up during the library's send leaves a message without an echo: "every one that puts a message in a chat" (`wamux-proto/proto/events.proto:54`) |
| `DropCloses` | `ms_all` | "Dropping it ... closes the unnamed file and gives the reservation back" (`spool/upload.rs:20-21`): while a blocking write is in flight, the file closes only when that write returns, after the reservation is back. `LeftIsFreed` shows that it does close |

One more is visible in the plans and has no property: DeleteMessage answers with
the key of the message deleted while its echo carries the key of the revoke
(`services/messaging_service.rs:191-212`), although `send_echo.rs:34-36` says that
"the echo and the response can never disagree". `EchoedOnce` exempts it.

## Proofs

Every safety property that a run checks is also a theorem, for every value of the
constants, except those named at the end. Drops, faults, crashes, timeouts and
early exits are allowed unless the property itself, or a hypothesis shown below,
says otherwise. The assumptions on constants are the named `ASSUME`s of the
modules. Each module states its inductive invariant first, and has one lemma per
action or group of actions.

**`GroupCommitProofs`.** `IndInv` adds to `TypeOK` the shape of the engine's state,
what the batch knows of the connection, the mark of the awaited statement, which
operation each step belongs to, what the connection holds at each step, and where
the writes of each answered or waiting job are (`Accounted`). `ConnectionKnown`
carries the argument: a drop leaves exactly the mark from which the next holder
reconciles. From it follow

- `TypeCorrect`, `AcknowledgedJobsAreDurable` (`AckedDurable`), `BatchesStartClean`
  (`StartsClean`), `HalfJobsAreNeverCommitted` (`NoHalfJobCommitted`),
  `GuardsAreIsolated` (`GuardIsolated`), `ConnectionIsKnown` (`ConnectionKnown`);
- `GroupCommitIsAtomic` (`ImplementsAtomicBatches`), with `RefInv`: a caller is in
  the queue once, a job before its RELEASE is in no transaction, and the savepoint
  holds writes of its job only. Every statement then maps to a step of
  `AtomicBatches` or to a stutter, dropped ones included;
- `CapIsKept` (`CapRespected`), with `CapInv`: the transaction holds no more jobs
  than were counted, and the count is at the cap only while it is committed;
- `UnknownMeansCommitted` (`UnknownIsDurable`): without faults a statement fails only
  where it finds nothing to act on, so the failing probe of a COMMIT proves that the
  COMMIT ran (`CalmConn`);
- `RefusedJobsStayOut` (`RefusedNotDurableApart`), assuming
  `"Savepoint" \notin Aborting`; the divergences show that without it the property
  is false. Two arguments: without faults as before, without drops because a batch
  whose transaction is gone is discarded before the lock is released (`Stays`).

**`EventStreamProofs`.** `IndInv` ties the number being stamped to the length of the
broadcast and bounds the ring by it; per forwarder it orders what was delivered,
what is pending and what the cursor has passed.

- `TypeCorrect`, `BroadcastInStampOrder` (`StampOrder`), `RingInStampOrder`
  (`RingOrdered`), `StreamsNeverRepeat` (`NoDuplicates`), `LossesAreMarked`
  (`LossIsMarked`);
- `EchoesAreOut` (`EchoOut`), with `EchoInv`: the one job of a send is in one place,
  and nothing of it is out before its last step;
- `RingHoldsTheYoungest` (`RingKeepsLatest`) and `YoungRingLosesNothing`
  (`KeptExactlyOnce`), with `KeptInv`: what the ring lacks is below all it holds, a
  snapshot is a run of the events that may be replayed, and what was replayed of it
  has no hole.

**`AccountLifecycleProofs`.** The first invariant counts: a connection about to be
spawned is new and no other call's, `connected` is the number of connections spawned
and not released, and together with the connects admitted but not counted it stays
below the cap plus the number of calls. The second (`Tied`, `LiveSlots`) ties slot,
bot, supervisor, owner and the locals of every call. Both are inductive however calls
overlap.

- `TypeCorrect`, `ReleasedOnce` (`CountedOnce`), `BudgetIsSoft` (`SoftBudget`),
  `TakenSlotIsLive` (`SlotIsLiveWhenCalm`), `BotsBudgeted` (`BotsAreCounted`): a
  running bot has a supervisor that waits for it and is counted, also when its slot
  was overwritten or a stop gave it up.

**`AccountDirectoryProofs`.** `DirInv` says which uuids have been drawn, what each call
relies on between its steps, that an account is announced once and found until a
delete, how rows, handles and references differ by the calls under way, and, per
stream, where each announced account is.

- `NeverFollowedTwice` (`FollowedOnce`), `StreamsMissNothing` (`NoneMissed`),
  `ExactAtRest` (`AtRestExact`), `CreatedStaysFound` (`CreatedIsFound`),
  `DeletedNeverFound` (`DeletedStaysGone`), `BotsHaveAccounts` (`BotHasAccount`),
  `RestartsHeal` (`RestartHeals`). The bounds on accounts and restarts are constants
  like the others. What the invariant trusts excludes `hist.unsure`, which grows only
  in the step that loses a call after its write.

**`StoreEncryptionProofs`.** The invariant relates the row and the progress table to the
key of every blob, and the place of the one process that is at work to what it has
checked: past the check of its key, the row names that key, and between two accounts
the progress table separates those turned from those to turn. A failure or a death
changes only the place of the process, so whoever comes next finds the row it needs.

- For stores that one process has open at a time: `StoreInvariant`,
  `BlobsAreSealedAsMarked` (`SealedAsMarked`), `DaemonsReadTheirStore`
  (`ServesReadable`), `OnlyTheKeyWrites` (`OnlyItsKeyWrites`), `AlwaysAWayOn`
  (`WayOn`), and `SealedStoresAreScrubbed` (`ScrubbedUnlessCut`), with `ScrubInv`:
  old bytes are left only where a process still has its scrub before it, or a run
  was cut;
- for any number of processes: `BlobsKeepOneFormat` (`OneFormat`),
  `BornEncryptedIsEmpty` (`BornEmpty`).

**`MediaSpoolProofs`.** `SpoolInvariant`, `FilesAreCovered` (`Covered`), `CdnSeesChecked`
(`CheckedBeforeCdn`), `AttemptsReadFromTheirStart` (`AttemptsStartRight`), for any
limits and any number of transfers. The invariant says per place of a transfer how
its file, its size and its reservation compare, also while a blocking task or a
thread of the library outlives its call.

**`RequestsProofs` and `DaemonProofs`.** For the socket, the invariant (`Local`) says for
each place what the process has finished on its socket, whether its socket may be at
the path or in its directory, and that a listening socket at the path is one it has
seen come after its probe. It is stated over the place as a parameter, so that a step
of one process needs one argument for itself and one for all the others. For the
requests, the plans come first: a handler is a concatenation of parts, and the rules
on parts (`Pre`, `Does`, `Body`, `Sends`) give for each of the 78 plans that its checks
and its account come before every call, that it sends once at most and echoes right
after, that it answers last, and how it reads library errors. The plans of
`aggregate_poll_votes` and `resolve_lid_pn` grow with `Votes` and `Queries`, which are
any numbers. The invariant then places the running request in its plan.

- `SocketInvariant`, `SocketsAppearFinished` (`PathShowsFinished`),
  `LiveSocketsAreSafe` (`LiveSocketSafe`), `StoresOpenUnserved` (`OpensUnserved`),
  `NothingStaleIsInTheWay` (`AloneStarts`), `EndedLeavesNothing` (`LeavesNothing`), for
  any number of processes; `PairedStreamsAreRefused` (`NotSilent`);
- `RequestInvariant`, `MalformedSendNothing` (`RefusedSendsNothing`), `SendsEchoOnce`
  (`EchoedOnce`), `RetriesAreHonest` (`HonestErrors`), `VotesAreAccountedFor`
  (`NoSilentLoss`).

**Only model-checked.** Every liveness property: fairness and ENABLED are beyond the
prover. `Accounted` of `MediaSpool`: the sum of the reservations over the transfers is
a fold, and what it does when one of them changes needs an induction over sets that
the prover cannot apply. `CountsSupervisors` and `StateTruthfulWhenCalm` of
`AccountLifecycle`: the first holds only while calls do not overlap, the second was
not attempted. `ReadsBack`, `TokensNewest` and `TakenOnce` of `Stores`: the
methods chunk lists and fold statements over them, with the same obstacle. Among the
properties outside the configurations, those listed in the section on runs.

## Not modelled

- The event mapping (`domain/event_mapping.rs` and the `*_update.rs` beside it) maps
  one library event to one wire event and keeps no state.
- What makes a jid, a number or a phone well formed, the building of messages, the
  projection of answers, and the byte layouts of blobs: encodings. The order in
  which they are refused is modelled.
- Store maintenance (analyze, vacuum) changes no row. Engine dispatch and file modes
  carry no control; Postgres transactions go through a pool and are the database's.
- Configuration, command line, logging, counters, and the test harness.
- Bot options, and the library itself, appear only through the calls made to it and
  the events, errors and exits it causes.
- No module composes connections with the directory step by step: a connect is one
  step of `AccountDirectory`, and its detail is in `AccountLifecycle`.
