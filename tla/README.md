# agent-hub: a TLA+ verification project

agent-hub is a message bus for coding agents. A hub (an HTTP service over Redis,
with PostgreSQL as history) keeps messages, presences, ownership claims, tasks and
threads; command-line and MCP clients talk to it, retain what they could not
deliver in a private journal, and a background task replicates the hub to a cloud
Worker. This directory holds TLA+ modules for the parts whose correctness depends
on interleavings, failures and retries, the TLC configurations that check them on
small instances, and TLAPS proofs.

## 1. Inventory

| component | state | operations | talks to | what is hard |
|---|---|---|---|---|
| outbox client (`outbox.rs`, `outbox_client.rs`, `server_mode.rs`) | requests, attempts, dispositions | submit, flush, flush_pending | hub `/replay` over several routes | crash at any point, lost and late replies, order, expiry against attempts |
| journal file (`outbox.rs`, `outbox_client.rs`, `outbox_private.rs`) | records of a private file, its lock, its name | open, load, append, sync, rotate, retire, status | other processes, the file system | torn writes, failed syncs, a rename under a process that waits for the lock |
| outbox hub (`outbox_hub.rs`, `outbox_replay.lua`, `outbox_pg.rs`, `http.rs`) | replay memo, presence marker, stream, ack keys, claims hash, PG rows | `/replay`: accept, script, persist, finish_claim | Redis, PostgreSQL, the claim code | duplicates, a script that fails half way, PG failing after Redis, a claim that is admitted once |
| claims (`channels.rs`, `ops/claim.rs`) | one hash per resource, a resolution record | claim, renew, release, resolve, list, read | Redis, one command at a time | read-modify-write races, death between DEL and HSET, TTL rounding |
| posting, notifications, inbox (`redis_bus.rs`, `ops/inbox.rs`, `ops/message.rs`) | stream, notification streams, lanes and cursors | post, batch, check_inbox, reset, summary | Redis, PgWriter | cursor shared by sessions, bounded scans, trimming, expiry |
| ack deadlines (`redis_bus.rs`, `ops/ack_deadline.rs`) | pending keys, deadline records | post, ack, overdue-acks | Redis, key by key | a listing that overlaps posts, acks and expiries |
| PgWriter, backfill, reconciliation (`postgres_store.rs`, `http.rs`, `reconcile.rs`) | queue, batch, circuit breaker, counters, plan | send, flush, shutdown, backfill, sync, reconcile | PostgreSQL, the Redis stream | drops while the breaker is open, shutdown and flush against late writes |
| event streams (`http.rs`) | per-agent senders, bounded channels, the bridge's subscription | connect, replay, register, push | Redis Pub/Sub, SSE clients | replay against registration, full channels, a lost subscription |
| end of the service (`http.rs`) | stop flag, join set of blocking workers, subscriber count | spawn, stop, clear, shutdown | all streams and workers | registration against stop, a worker pinned by a full channel |
| cloud sync (`cloud_sync.rs`, `sync_store.rs`) | cursor file, bounded outbox, rejection receipts, dedup markers | tick: push, push presence, pull, pull presence | Redis, Worker | crash between acknowledgement and save, overflow, rejection, order of presence ids |
| cloud Worker (`cloud/agentbus/src`) | messages, pending acks, presences | sync push/pull, posts, batches, notifications, acks, alarm | hubs, its own clients | deduplication, retention, a route that stops between two calls of the object |
| cloud token tool (`cloud_tokens.rs`) | local map, client file, staged token, recovery item, deployed secret, backups, evidence | mint, rotate, write-client, activate, bw-upsert, wrangler-put, revoke | vault, Worker | overlapping processes, evidence out of date, a step failing after the ones before |
| hub selection and dispatch (`hub*.rs`, `link_route.rs`, `remote_dispatch.rs`) | cached route in a file, backend in memory | resolve, call, invalidate | candidate hubs | stale caches, reused addresses, a machine that moves |
| channels, tasks, threads, subscriptions (`channels.rs`, `ops/*.rs`) | lists, streams and JSON values in Redis | post, read, push, pull, join, leave | Redis | read-modify-write of a thread |
| CLI, MCP, settings, output, export | little or none | delegation, parsing, formatting | all | mostly data handling |

What makes each of the modelled components correct:

* **outbox**: a request takes effect at most once; it is settled once, and the
  verdict is true; requests of one journal take effect in order; a request that
  expired on the client never reached the hub; no old presence returns; a claim is
  reported as applied only while its lease is held; nothing stays in the journal
  forever.
* **claims**: two conflicting claims are not both granted; nobody is promised what
  another agent still counts on; a lease lasts until (the last second of) its end;
  a resolution stays on record.
* **journal file**: what was retained or sent is in the synced part of a file that can
  be read again; what was sent never expires; a rotated file owes nothing.
* **PgWriter**: a message that was handed over is stored, queued or counted as dropped;
  an answered flush means settled; the queue drains and the backfill repays the debt.
* **inbox, event streams, acks**: a cursor or an event id covers only what was
  delivered; every notification is read in the end; the overdue list is exact.
* **end of the service**: no worker and no open stream outlives it, and a client that
  does not read holds up no worker.
* **cloud sync and Worker**: no cursor passes a message that is not on the other
  side; each message is there once and in order; nothing leaves that must stay, and
  nothing comes back as an echo; a pulled presence hides no newer local one; recipients
  of a pulled message are notified; everything arrives once failures stop.
* **token tool**: nobody who had access loses it; what is deployed can be restored.
* **hub selection**: no fallback or cloud while a better hub answered all the time, no
  claim to anybody but the authority, one hub behind a named authority.

## 2. Modules

    OutboxBase      requests, clock and replay calls, shared by both ends
      OutboxClient  journal state, submit, flush, transport          (client)
      OutboxHub     memo, script, persist, finish_claim, other writers (hub)
        OutboxReplay   client + network + hub; properties, fairness, refinement
          ReplayContract      the abstract promise it implements
          MCOutboxReplay      instances for TLC
          OutboxReplayProofs  types, at most once, the contract, order, acks, grants, presence
    Claims          claims of one resource, one Redis command per step
      MCClaims      instances for TLC
      ClaimsProofs  types; grants, promises and leases of serial operations
    CloudSync       sync engine, hub stream and Worker; TLC checks it directly
      CloudSyncProofs   types, both cursors, order, what leaves
    HubParts        the parts below, next to each other
      OutboxJournal   the journal file under OutboxClient's `status`
      PgWriter        write-behind, breaker, backfill, flush, shutdown, reconcile
      Inbox           notification stream, lanes, cursors, summary
      MessageAcks     posts that ask for an ack, deadlines, overdue listing
      PresenceSync    announcements, presence push and pull of several hubs
      EventStream     SSE streams of an agent: replay, bridge, last event id
      ServiceStop     Pub/Sub workers, open streams and the graceful shutdown
      CloudStore      the Worker's own clients: posts, notifications, acks
      CloudTokens     the token tool
      HubSelection    candidates, routes, caches, claim authority
      MCHubParts      instances for TLC
      ClientProofs    proofs about OutboxJournal and HubSelection
      MessagingProofs proofs about Inbox, MessageAcks and PresenceSync
      ServiceProofs   proofs about ServiceStop, EventStream and PgWriter
      CloudProofs     proofs about CloudStore and CloudTokens
        HubPartsProofs  all of them next to each other

`HubParts` is a sum: the models share no variable, `HubInit` chooses one of them and
the others stay as they begin, so a behaviour of `HubSpec` is a behaviour of one part
and every property of a part is checked on exactly the behaviours of that part. One
run then covers all of them.

Definitions named `X_Something` next to `X`, with a comment that starts with
"Mutation", are wrong variants of `X`; they are not used by any specification and
document which bug each property catches.

### OutboxClient

`status[<<c, n>>]` is what the synced records of journal `c` say of request `n`:
`absent`, `queued` (a Queued record), `attempted` (an Attempted record), or one of
the four dispositions. It survives a crash. `sess[c]` is the process that holds the
journal's lock, with its position in `Journal::flush`, the `now_ms` and the limit
the flush was given and the route it is on; a crash resets it. Because the lock is
exclusive one session per journal is enough for any number of processes.

| action | code |
|---|---|
| `SubmitSend/Ack/Presence/Claim`, `Enqueue` | `submit`, `Journal::enqueue`: append, sync, then flush in the same process |
| `FlushPending` | `flush_pending` |
| `ExpireLocally`, `SupersedeLocally`, `MarkAttempted` | the three branches of the loop in `Journal::flush` |
| `CallRoute`, `Timeout`, `Receive` | `HubTransport::replay` over the routes, `DurableReplayTransport`, and the match on the answer |
| `FinishFlush`, `ClientCrash` | end of the loop; death of the process |

### OutboxHub

A call goes through `sent`, the script (one atomic step: Redis runs Lua alone), and
then `persist` or `admit`, `dispatch`, `finish`, before `reply`. Between these steps
other handlers, other clients and the clock interleave. `log` is a history variable:
the effects in the order Redis performed them. `memo`, `marker`, `live`, `ackDue`
and `lease` are the Redis keys, `pgRows` the rows in PostgreSQL.

| action | code |
|---|---|
| `Unavailable`, `Refuse` | `ensure_writes_allowed`, the error statuses of `http_replay_handler` |
| `ReplayKnown` … `ReplayClaim` | the branches of `outbox_replay.lua` in order |
| `ReplayAborts` | the script fails after the reservation; what it wrote before stays |
| `Persist` | `outbox_pg::persist` with its failures and its timeout |
| `AdmitClaim`, `DispatchClaim`, `ClaimFails`, `FinishClaim` | `accept` after `claim_admission`, and `finish_claim` |
| `DirectPresence`, `DirectClaim`, `ReleaseClaim`, `HashExpires` | writers that do not use the outbox, and the early end of the claims hash |
| `LoseCall`, `LoseReply`, `HubCrash` | network and process failures |

### Claims

`hash` is the Redis hash of one resource, `due` its TTL, `resolution` the record of
`resolve_claim`. `proc[p]` is a process in one of the operations, with the claims it
has read (`view`). Each step is one Redis command of `load_active_claims`,
`persist_claims` or of the operation itself. `told` is a history variable: what an
agent was last told of its claim. Two more are history: `lost`, agents whose claims a
process had deleted and not yet rewritten when it died, and `missed`, agents that a
resolution went against and whose message failed or was never sent.

| action | code |
|---|---|
| `Start`, `Begin` | a call of one of the operations |
| `Load`, `Prune`, `DropClaims`, `DropResolution`, `Refresh` | `load_active_claims`, command by command |
| `Mutate`, `WriteClaim`, `ExpireClaims`, `ReleaseLast` | the decision in memory, then `persist_claims`: `DEL`, one `HSET` per claim, `EXPIRE` |
| `RecordResolution`, `ExpireResolution` | the resolution record of `resolve_claim` |
| `Answer`, `Tell`, `TellFails` | the end of a read; `resolve_claim` after it has read the state back: one direct message per claimant, of which each may fail |
| `ScanResolution` | `list_claims` on the resolution key |
| `Crash` | the process dies, or a command fails and the error is returned |

### CloudSync

`eng` is the engine of `cloud_sync.rs` with its position in a tick; a stop of the hub
resets it. `file` is the cursor file (`None` before the first run). `stream` holds
every entry the message stream ever had, `trimmed` how many of them MAXLEN has
dropped; `gone` is a history variable, the ones dropped before they were acknowledged.
`rows` and `top` are the messages table of the Worker. `late` holds batches whose
answer the engine does not wait for any more, and which may still be handled at any
time. A stream id is a position of `stream`, and the outbox, a batch and a page are
sets of ids: the code keeps all of them in the order of the ids and takes from the
front (`First`).

| action | code |
|---|---|
| `Start`, `Crash` | `start`, `initial_cursors`, `Engine::new`; the process stops, or `shutdown` ends `run` |
| `StartFails`, `Restart` | the client cannot be built or the cursors cannot be loaded, read or saved: sync stays disabled until the process is replaced |
| `Poll` | the sleep in `run`, after a tick or an error |
| `Read` | one round of `push_messages`: `messages_after`, `enqueue`, overflow |
| `Push`, `Answer`, `PushFails`, `PushTimesOut` | `flush_outbox` to its await, the Worker's `syncPush` and `message_outcome`, and what can go wrong |
| `Acknowledge`, `RetainBatch` | `flush_outbox` after the await: receipts, cursor, `save_rejection_cursors`, `persist` |
| `CaughtUp` | the end of `flush_outbox` and of the round |
| `Pull`, `Ingest`, `Notify`, `PageDone`, `IngestFails` | `pull_messages`, `syncPull`, `ingest_synced_message` |
| `CallFails` | a failed read of the stream, presence push or pull |
| `Post`, `Elsewhere`, `LatePush` | other writers of the stream, other origins, a late request at the Worker |

### OutboxJournal

`jfile[f]` is the sequence of records of inode `f`, `jdirty[f]` how many of the last ones
no sync covers, `jactive` the inode that the path names and `jretired` the ones renamed
to an archive. `jproc[p]` is a process in `submit`, `flush_pending`, rotation or
`status`. Four variables are history: `jkept`, requests whose `enqueue` returned; `jsent`,
requests given to the transport; `jbare`, those of them whose attempt was not on the disk
when they were sent nor at any sync since; `jdone`, requests whose settlement was written.

| action | code |
|---|---|
| `JCall`, `JOpen`, `JBusy`, `JLoad`, `JLoadFails` | `open_journal_until`, `Journal::open`, `load`: lock, identity of file and path, torn tail |
| `JFull`, `JWrite`, `JTornWrite`, `JSync`, `JSyncFails` | `enqueue`, `append` and its failures |
| `JStart`, `JNextRequest`, `JSend` | `Journal::flush`: expiry, attempt, transport, disposition |
| `JInspect` | `status`, rotation and the retirement of a previous scope: inspection and rename under one lock |
| `JProcessStops`, `JMachineStops` | a process dies; the machine loses what is not synced |

### PgWriter

The channel, batch, timer and counters of `pg_writer_task`, the breaker with its health
probe, `flush_and_wait_async`, `shutdown`, the backfill monitor of `http.rs`, `sync` and
the reconcile commands. `wrefused` are the messages whose INSERT PostgreSQL refuses for
their data: such a row opens the breaker and is counted (`Refusals`, `WPersist`), and
every pass over the stream ends at it (`Reached`, in `WFillInsert`, `WSync` and
`WReconcileApply`), as the `?` in `sync_redis_to_postgres` does. `wstop.before` and
`wflush[i].before` are history: what had been handed over when a flush or the shutdown was
requested.

### Inbox, MessageAcks, EventStream

`Inbox`: notifications are positions of `inotes`, `ifirst` the first that trimming and
expiry left; `icursor[l]` is the cursor key of a lane; a session reads the cursor, scans
pages up to the scan limit and saves the cursor in separate steps. `ISaveLost` is a SET
that Redis applied while the call sees an error: the cursor has moved and nobody gets what
the call had gathered (`ilost`, history). `MessageAcks`: the
steps of a post and of an acknowledgement are single Redis commands, and `overdue-acks`
scans the keys and reads them one by one. `EventStream`: the steps of a post
(stream, publication, notification), the bridge between subscription and channels, and a
client that reconnects with its last event id.

### ServiceStop

`vphase` follows `start_http_server` from the signal to its return; `vtasks` is the join
set of `PubSubWorkers`, `vjoin` what `shutdown` took from it; `vwork` the position of each
blocking worker; `vconn` a request to `/events` or `/events/:agent_id` from its handler
to the end of its body, with the fill of its channel; `vmap` the senders in
`agent_connections`; `vcount` the subscriber count.

| action | code |
|---|---|
| `VAsk`, `VSignal`, `VClear`, `VReturn`, `VClearAgain`, `VShutdown`, `VEnd` | the control action "stop", `process_stop_signal`, the graceful-shutdown future, the lines after `serve`, `PubSubWorkers::shutdown` |
| `VConnect`, `VSpawn`, `VReplay`, `VRegister` | `http_sse_handler` and `PubSubWorkers::spawn`; `http_sse_agent_handler` |
| `VBegin`, `VOpen`, `VOpenFails`, `VLoopEnds`, `VGetMessage`, `VReadFails`, `VSend`, `VPush`, `VRetry` | the loops of the workers, `send_pubsub_event`, `push_notifications_to_agent_connections`, `wait_for_retry` |
| `VTake`, `VBodyEnds`, `VLeave` | the response body and its client |

### PresenceSync, CloudStore

`PresenceSync` has for each hub its key, its table with serial ids that commit in any
order, its cursor and its engine: `PPushRead`, `PPushSend`, `PPushDone` are
`push_presence` (the Worker stores only the rows of a batch that are `Valid`, the engine
logs the rejections and moves its cursor past the batch), `PPull`, `PApplyGet`,
`PApplyCas` the merge of pulled rows with its compare-and-set. `CloudStore` has the
Worker's table, its pending acks, requests whose copies are under way and clients that
follow their notifications: `SSend`, `SHandle`, `SHandleFails`, `SRead`, the four calls of
an acknowledgement route, `SSweep` (the alarm).

### CloudTokens

A map is a set of tokens `<<identity, k>>`. Each command of the tool is a process that
goes through the steps of its function: `TBegin`, for a revocation `TRead`, then `TLock`, and
`TBackup`/`TStore`/`TStage` (mint, rotate), `TWriteClient`, `TPublish`/`TUnstage` (activate),
`TEdit` (recovery item), `TBefore`/`TUpload`/`TAfter`/`TLocal` (upload, revocation with its
live checks). `TEvidence` is the operator who writes evidence or a selection into the
manifest; `TFails` ends a process at any step.

### HubSelection

`rcands` are the candidates as configured, `rserves` who answers at each, `rfile` the
cached route, `rmem` what a serving process keeps. A resolution goes `RBegin`, `RProbe` or
`RProbeFails`, `RSucceed` or `RExhausted`, for a serving process `RKeep`; then the call
succeeds or fails (`RCallDone`, `RCallFails`). `RRecall` is a call that finds the backend
in memory. `RChange` and `RMove` are hubs that come and go and networks that change.
`steady` is history: the candidates that would have been accepted at any time since the
resolution began.

### What is abstracted

* Payloads, names and formats. A request is its operation, agent, times and, for an
  ack, its target. Request identity is `<<journal, sequence>>`; the fingerprint check
  for colliding identities is part of `Refuse`.
* In `OutboxHub` there is one exclusive resource and the claim code is one step; the
  steps inside it are the subject of `Claims`.
* All sends ask for an ack; the 300 s life of `pending_ack` is not modelled, the keys
  are present until the ack deletes them.
* The notification stream and the publication that the script also writes are part of
  the effect.
* `HSET`s of one rewrite come in any order (in the code by age of the claims).
* A direct message of a resolution that was posted counts as what its claimant was told.
* In `CloudSync` a message of this hub is `open` (internal), `private` (it may not leave)
  or `bad` (the Worker rejects it each time, as `buildSyncPushItem` does); pulled messages
  are addressed to one agent, since a broadcast is not notified; a message's identity is
  its position, so that two different messages with one id, which the Worker reports as a
  conflict, do not occur. The retention of the Worker's table, the 30 days of a dedup
  marker, the row for PostgreSQL and a loss of power (the cursor file is renamed without a
  sync) are left out, as are the counters of the status. A save of the cursors is one
  step, since both writers rename a complete file.
* An ordinary presence is not refreshed while it is live (a bound of the model).
* `OutboxJournal`: the number of faults is bounded; a rename is durable; taking the lock
  and loading are one step, as are a call of the transport and its answer.
* `PgWriter`: a row is its message, a write that fails may have stored it or not; the
  connection pool and the readers are left out.
* `MessageAcks`, `PresenceSync`: clocks of processes and hubs are equal; a SCAN is one step.
* `EventStream`, `ServiceStop`: one agent; connections of "all" are left out.
* `CloudStore`: a message's id is its seq; rate limits and the listing by tag are left out.
* `CloudTokens`: one operator machine, previous maps are kept as backups; an upload that
  times out has landed or not, never late; evidence is true when it is written.
* `HubSelection`: head starts bound nothing, so in a race any probe of the stage may end
  next; an invalid configuration is Offline without a probe; both caches of a process
  are dropped in one step; no candidates at all (the local mode) is left out.

## 3. Runs

| run | instance | checks |
|---|---|---|
| `outbox_messages` | 2 journals, 2 calls at once, 3 requests, 2 routes, PostgreSQL, 2 faults | `AtMostOnce`, `AppliedIsDurable`, `UnattemptedHasNoEffect`, `InSequence`, `AckStaysAcked` |
| `outbox_presence` | 2 journals with different clocks, 3 presences, lifetimes 1 and 2, clock to 3, flush limit 1, 1 fault | `TypeOK`, `PresenceNeverRegresses` |
| `outbox_claims` | 1 claim request, 2 agents, ordinary claims and releases, 2 instants to a second, clock to 4, 2 faults | `GrantIsCurrent` |
| `outbox_live` | sends, presences and claims in one journal, 1 fault, fair | `EverySubmissionSettles`, `KeepsPromise` |
| `outbox_superseded` | 1 claim request, delayed dispatch | violates `SupersededHoldsNoGrant` |
| `claims_serial` | 2 agents, 3 modes, one process at a time, 1 death or failed message, all operations | `TypeOK`, `NoConflictingGrants`, `PromisesDoNotConflict`, `LeaseKeptToLastSecond` |
| `claims_exclusive` | 2 processes, claims only | violates `ExclusiveHeldByOne` |
| `claims_resolution` | claim, resolve, list | violates `ResolutionIsKept` |
| `sync_push` | 4 messages of all kinds, batch 2, outbox 3, ledger 1, stream of 3, 2 faults, 1 stop | `TypeOK`, `CursorMeansReplicated`, `CloudInStreamOrder` |
| `sync_live` | 2 entries of the stream of all kinds, 2 rows of other origins, batch, outbox and page 1, 1 fault (a failed start too), 1 stop, fair | `OnlyOwnMessages`, `PullCursorMeansStored`, `EveryMessageReplicates`, `EveryRowArrives` |
| `sync_notified` | 1 row of another origin, 1 stop, no fault | violates `StoredIsNotified` |
| `hub_parts` | each part of `HubParts` with the budgets of `MCHubParts`, fair | all parts: `HubTypeOK`; journal: `RetentionIsDurable`, `SentNeverExpires`, `RetiredOwesNothing`; writer: `NoSilentLoss`, `FlushMeansSettled`, `QueueDrains`, `DebtIsRepaid`; inbox: `NothingSkipped`, `EveryNotificationIsRead`; acks: `OverdueIsExact`; presences: `PulledIsNewer`, `PushedRejectedOrLate`; events: `LastIdMissesNothing`; stop: `NothingOutlivesService`, `StopCompletes`; Worker: `CloudDelivery`; tokens: `CloudAccessKept`; routes: `AuthorityFirst` |

**Why the bounds are enough to be interesting.** Two calls at once let a call that
the client has given up race the retry of the same request, the only way one request
can be at the hub twice; two faults let a lost reply meet a second failure. Two
requests of one journal and one of another are needed for order and for an ack of
another agent's message. The clock runs past every lifetime of `outbox_presence` and
`outbox_claims`, so that requests and keys expire while calls are under way, and
`Retention` is the longest lifetime, as `LifetimeAssumption` (24 h for both in the code)
says. The marker of `outbox_presence` outlives that clock; what happens after it is gone
is covered by the theorem `PresenceInOrder` only. With
two instants to a second a lease can have less than a second left. In `claims_serial`
three operations suffice for a claim, a rival, and a renewal, release, resolution or
read by either, and the one fault is a death anywhere or one message of a resolution that
fails. In `sync_push` four messages against an outbox of three and batches of
two make the outbox overflow, a batch leave something queued, the ledger fill up and
the stream drop what was not pushed, and two faults let a batch that timed out arrive
after its retry has failed too. In `sync_live` pages of one row make the engine follow
`has_more`, and the rows of this hub lie between those of others.

In `hub_parts` a budget says how often each operation and each fault of a part may
happen, and a part has a few budgets that mix them:

* journal: two processes, two scopes, two inodes, five records; two submissions, or one
  with flushes, rotations or a status, with one fault or a tick of the clock, so that a
  torn append or a failed sync meets another process, and a rotation meets a process
  that already has the old file open. One budget has two faults: a process that stops
  between writing and syncing, and then the machine.
* writer: up to three messages of two posters, batches of two, a backfill page of one on
  a stream of two, so that a dropped message lies behind pages that need nothing or
  falls out of the stream; an outage, a flush, a stop or a `sync` in between; in two starts
  PostgreSQL refuses the first or the second message, so that debt lies before and behind
  a row that ends each pass.
* inbox: two sessions, two lanes, pages of two and scans of three against a run of three
  notifications that do not match; a reset, an expiry, a failure (of a command, or of the
  reply to a SET) or two summaries.
* acks: two messages posted alone or together, one acknowledged, one listing, clock to
  the end of the retention. Presences: two hubs with two processes, lifetimes 1 and 2 and
  one of 3 that the Worker rejects,
  late commits, a repeated batch (three hubs take too long for this run and were
  checked by themselves). Events: history and channel of two against three
  messages, two connections, a lost subscription.
* stop: one `/events` stream, one stream of an agent and the bridge, channels of one
  event and replays of none, one or two (longer than the channel, as 500 against 128 in
  the code), two events with a client that leaves or one with a failure; a stop at any time.
* Worker: batches, a key that two origins share and knocks; three sends, or two with an
  acknowledgement, and a repeated request or a sweep; pages of one row.
* tokens: nothing deployed; a deployed map the tool does not know; one that it does; an
  uploaded rotation; an identity with two tokens. Two processes, one failing step.
* routes: two routes to the authority, a fallback and the cloud, with none, one or both
  authoritative routes down; two rival authorities; candidates without names. One session
  that exits and one of a serving process, three networks; hubs that change, a move, a
  timeout.

**Deadlock** is not checked in the outbox and claims runs: with the clock, the requests
and the faults bounded those instances end. Nor is it in `hub_parts`, where
a part stops when its budget is used up; `QueueDrains`, `EveryNotificationIsRead` and
`StopCompletes` say what such an end must look like. It is checked in the runs of
`CloudSync`, whose engine polls for ever.

**What the four violations show.**
* `outbox_superseded`: `accept` computes how many seconds of the lease are left and
  dispatches; the claim code counts them from its own clock. When the request expires
  in between, `finish_claim` answers Superseded and the lease stays, granted. The same
  happens to a contested claim, whose answer carries a suggestion that the hash never
  holds, once its rival leaves. The comment at `outbox.rs:240` says a superseded
  request has no new side effect.
* `claims_exclusive`: `HGETALL` … `DEL`, `HSET` of two processes interleave; both are
  told granted (`channels.rs:140`: "Exactly one agent may hold the resource").
* `claims_resolution`: `list_claims` scans `bus:claims:*` and prunes the
  `…:resolution` record as an empty claims hash (`channels.rs:1592`: "Stores resolution
  metadata for audit").
* `sync_notified`: the script stores the dedup marker with the stream entry, the
  notification follows in a second step. If the hub stops in between, the next pull is
  a Duplicate and the cursor passes the message; `check_inbox` never shows it
  (`sync_store.rs:126`: "Per-recipient notifications are still appended").

**Fairness** (`outbox_live`). Handlers of the hub run to their end unless it crashes
(threads of the blocking pool, bounded PostgreSQL calls); a client that waits gives up
at its deadline; a journal with retained requests is flushed again (every submission
and `flush_pending` do, and operators are told to run it); the clock runs. Faults are
bounded, which is the usual assumption that failures stop for long enough. `Aborts` is
off in this run: a script that fails half way leaves a send pending for good, by
design (`outbox_replay.lua`, lines 8 to 10), and its journal waits for an operator.
In `sync_live` the engine's own steps are weakly fair, and nothing else is: `run` loops
for as long as the hub is up, each of its calls has a timeout, and the service unit
starts the hub again after it stopped. Nothing restarts a hub that runs with sync disabled
after a failed start: `Restart` is not fair, and `EveryMessageReplicates` and
`EveryRowArrives` have the premise `SyncComesBack`, that sync is enabled again and again.
Failures and stops are bounded.

In `hub_parts`: `WriterFairness` says that a poster that has added a message hands it
over, that the task and the backfill monitor run, that an outage ends and that the
health probe closes the breaker; `InboxFairness` that a call which has begun goes on and
that a polled lane is polled again whenever a session is free (strongly, since the other
lane also occupies the sessions); `StopFairness` that as long as some task or thread of
the service can go on, one does. Nothing is assumed of SSE clients. The fairness of a
part that stays as it begins is not asked for (`HubFairness`).

## 4. Proofs

Every safety property that a passing run checks is also a theorem, for every value of the
constants that satisfies the named assumptions of the modules: any number of clients,
processes, hubs, requests, faults and instants. Those assumptions say what the
constants are (numbers, finite sets, positive lifetimes) and three facts of the code: no
request lives longer than the retention of its memo (`LifetimeAssumption`, 24 h for
both), an outbox holds at least a batch (`SyncAssumption`, as `Engine::new` sees to), and the
items of a request to the Worker have an order (`StoreAssumption`). Each property speaks
of what a user sees; what makes it inductive is where the processes are and what they
have read.

| module | theorem | states |
|---|---|---|
| `OutboxReplayProofs` | `TypeCorrect`, `EffectsAtMostOnce`, `SettledAppliedIsDurable`, `NothingBeforeAttempt`, `EffectsInSequence`, `AckedForGood`, `GrantsAreCurrent`, `PresenceInOrder`, `PromiseIsKept` | `TypeOK`, `AtMostOnce`, `AppliedIsDurable`, `UnattemptedHasNoEffect`, `InSequence`, `AckStaysAcked`, `GrantIsCurrent`, `PresenceNeverRegresses`, `KeepsPromise` |
| `ClaimsProofs` | `ClaimsTypeCorrect`; with `Serial`: `SerialGrants`, `SerialPromises`, `SerialLeases` | `TypeOK`; `NoConflictingGrants`, `PromisesDoNotConflict`, `LeaseKeptToLastSecond` |
| `CloudSyncProofs` | `SyncTypeCorrect`, `CursorIsHonest`, `NothingElseLeaves`, `OrderIsKept`, `PulledIsStored` | `TypeOK`, `CursorMeansReplicated`, `OnlyOwnMessages`, `CloudInStreamOrder`, `PullCursorMeansStored` |
| `ClientProofs` | `RetainedIsDurable`, `SentIsNotExpired`, `RetiredIsSettled`, `AuthorityComesFirst` | `RetentionIsDurable`, `SentNeverExpires`, `RetiredOwesNothing`, `AuthorityFirst` |
| `MessagingProofs` | `InboxTypeCorrect`, `InboxSkipsNothing`, `AcksTypeCorrect`, `ListingIsExact`, `NothingOlderComesBack`, `OnlyRejectedOrLateRowsAreLost` | the types, `NothingSkipped`, `OverdueIsExact`, `PulledIsNewer`, `PushedRejectedOrLate` |
| `ServiceProofs` | `StopTypeCorrect`, `NothingOutlives`, `EventsTypeCorrect`, `LastIdIsHonest`, `WriterTypeCorrect`, `WriterLosesNothing`, `AnswerMeansSettled` | the types, `NothingOutlivesService`, `LastIdMissesNothing`, `NoSilentLoss`, `FlushMeansSettled` |
| `CloudProofs` | `AccessIsKept`, `DeliveryIsKept` | `CloudAccessKept`, `CloudDelivery` |
| `HubPartsProofs` | `PartsTypeCorrect`, `PartsKeepTheirPromises` | `HubTypeOK`; all invariants of the ten parts, of `HubSpec` |

### The outbox

* **Types.** `TypeOK` alone is not inductive: `NextRequest` subtracts one from what is
  left of the limit, and `FinishClaim` stores an answer that only a finished dispatch may
  have. `TypeInv` adds `LimitLeft` and `FinishAnswers`.
* **At most once.** `AtMostOnce` speaks of the log only. `OnceInv` adds: an effect has
  a memo (`EffectHasMemo`); a handler between admission and the end of `finish_claim`
  works on a reserved request, which before the dispatch has no effect
  (`WorkIsReserved`); and no two handlers are admitted for one request
  (`OneAdmission`). A script that appends to the log requires that there is no memo,
  hence no earlier effect; a dispatch requires an admission, hence none either. The
  memo of a claim may expire (`HasMemo`), but only after the request itself, when the
  script answers Superseded before it reserves: `Expired` and the retention make
  `Fresh` imply that there never was a memo.
* **Order and truth of the answers.** `JournalInv` says where a flush is: requests are
  numbered as they come, all before the head are settled, a call is of a request whose attempt
  is recorded, and a flush waits for the answer to its own head. `ToldInv` says that
  what calls and memos tell of a request is true of the log and of PostgreSQL. The part that
  is easily overlooked: an answer Superseded may still be under way when the retry of the
  same request arrives, so it must mean that no later call can have an effect either
  (`Closed`: a memo, or the request is expired). With it `InSequence` is inductive, because
  a request takes effect only while everything before it in its journal is settled.
* **The contract.** `PromiseIsKept` is the refinement: under `ReplayInv` (the four
  invariants together) every step of `Next` is a step of `ReplayContract` or leaves
  `Outcomes` and `Dones` alone. `HubPromise` and `ClientPromise` do the two sides.
* **Grants.** `GrantIsCurrent` is an action property of the step that answers. A fresh
  grant is compared with the lease in that step; a cached one is answered from the memo
  while the lease is still that of the request, and `MemoTold` says that the memo of a
  grant does not outlive the lease it was given.
* **Presence.** The script compares with the marker, which expires. `PresenceInv` says
  that the marker names a presence that took effect (`MarkerTrue`) and that every
  presence in the log is covered by it or is so old that no valid request can be older
  (`MarkerCovers`, `Faded`); this is where the marker's lifetime, the expiry of the
  request plus the retention, is used.

### Claims

`ClaimsTypeCorrect` holds for any number of processes. It needs that the lease times in
the hash are bounded (`Bounded`), so that the greatest of them, from which
`claims_hash_ttl_seconds` takes the TTL, exists. The other three have the hypothesis
`Serial`: at most one process is in an operation. That is not an assumption about the
deployment; two processes do break them, which is what `claims_exclusive` shows.
`SerialInv` relates the hash to what the one process has read or is writing: the hash has
nothing that the view has not (`Within`), during a rewrite what is not yet written is in
`todo`, a view that is written grants nothing twice (`Clean`, `GrantsAlone`), what an
agent was told is in the hash or about to be written (`Promised`), while a resolution
writes to the claimants all who count on a claim are the winner or still to be reached,
missed or lost (`Told`), and the TTL of the hash
reaches each lease but for its last second (`DueCovers`).

### Cloud sync

* **The push cursor.** `CursorMeansReplicated` speaks of the file only; what the file
  will say next is in the engine. `CursorInv` adds: what was read past the cursor is
  queued, at the Worker or dropped (`QueueInv`); what the stream drops before it is
  read is counted (`TrimInv`); the cursor in memory means what the one in the file
  does (`EngineInv`); an answer accounts for its whole batch (`AnswerInv`); a receipt
  the engine knows is in the file and not beyond either cursor (`LedgerInv`); and the
  positions are in order (`PositionsInv`). The file may be ahead of memory (a save
  that reports an error after the rename) or behind it (one that failed): `LedgerInv`
  is what makes a restart from an older file safe, because everything between the two
  cursors is then at the Worker. The lemmas `LastIsGreatest` and `FirstIsPrefix` say
  that a batch is a prefix of the queue, so that moving the cursor to its last id
  passes nothing that is still queued.
* **What leaves, and in which order.** `OwnInv` follows a message through the outbox, the
  batches under way, the receipts and the table. `OrderInv` says of each row and of each
  late batch that all that should have left before it is in the same batch, at the
  Worker or lost (`Preceded`): a late batch is then harmless whenever it arrives.
* **The pull cursor.** `StoredInv` says that the dedup markers and the pulled entries
  agree and always are a front of the Worker's table (`CaughtUpTo`), and that a page with
  what was stored of it covers the table up to its end (`PageInv`).

### The parts of the hub

* **Journal** (`ClientProofs!JournalInv`). Every file reads as `load` demands but for a
  torn last record (`FilesOK`); files are renamed in order and the path names the last
  (`PathOK`); one process has the lock, and it has it of the file that the path names
  (`OneLock`, `ProcOK`); the record it is about to write continues that file (`Fits`).
  Then what was acknowledged or sent is in the synced part (`KeptOK`, `SentOK`), and what
  is settled is remembered in `jdone`. `jbare` and `jdone` came out of this proof: without
  them the three properties are false (section 5).
* **Selection** (`SelectionInv`). All that would have answered a resolution all the time
  is among what it has not tried (`SteadyIsLeft`), so the first success has the best
  rank and giving up means that nobody was there; a claim has authorities on its list
  only.
* **Inbox** (`InboxInv`). `KeptCover`: what a session keeps, with what was returned or lost
  with the reply to a SET (`IGiven`), covers the stream from its cursor on, so saving the
  cursor passes nothing else.
* **Acks** (`AcksInv`). Deadline records outlast the window (`RecordsLast`), a complete ack
  clears its keys (`CleanClears`), and a listing under way has found or will read all that
  was owed when it began (`OwedIsFound`) and never what was over (`OverStays`).
* **Presences** (`PresenceInv`, one `HubOK` for each hub). `PulledIsNewer` compares a pulled
  row with the hub's own announcements only: with three hubs, rows of two others may
  follow one another in either order, and the property is stated accordingly.
* **Stop** (`StopInv`). Nothing is assumed of the length of a replay. A running worker is
  registered or waited for, the stop flag is never taken back, and after a clearing no
  sender comes, so no worker is added behind the shutdown's back.
* **Event streams** (`EventsInv`, `ConnOK`). Ids in a channel and in the rest of a
  replay follow each other without a gap and begin where the client is or where the stream
  begins; events without an id do not move it.
* **Writer** (`WriterInv`). Requests travel through the queue of the writes: what a flush
  or the shutdown counts on is settled, in the batch or before its request in the channel
  (`FlushCovered`, `StopCovered`).
* **Tokens** (`TokensInv`). One process holds the lock; until the tool uploads,
  evidence is about the deployed map (`FirstUpload`); what a revocation has read stays true
  while it holds the lock (`RevokeHeld`); a retired token in the local map is not its
  identity's only one. `DeploymentRecoverable` says that what the tool deployed is covered
  by one recovery item or backup, not by several together.
* **Worker** (`StoreInv`). Rows are numbered as they come, a follower has read nothing
  behind its cursor, and a route that deletes a pending ack has checked its caller and
  stored the acknowledgement.
* **All together.** The parts share no variable. `StepOfEach` says that a step of
  `HubSpec` is for each part a step of its own or a stutter, so `PartsInv`, the
  conjunction of the ten invariants, is inductive, and the theorems hold of the very
  specification that `hub_parts` checks.

### What is only model-checked

Liveness under fairness, which is beyond this prover: `EverySubmissionSettles`,
`EveryMessageReplicates`, `EveryRowArrives`, `QueueDrains`, `DebtIsRepaid`,
`EveryNotificationIsRead` and `StopCompletes`. And the four violated properties, which are
counterexamples and have nothing to prove.

## 5. Limits and what is not modelled

What the models show of the code beyond their properties, and what a reader should not
take them to promise:

* **Writer.** The count of dropped writes may be decremented by rows that were never
  dropped, and stays non-zero after `agent-bus sync`. A control action flushes before it
  blocks writes: a write accepted in between is not flushed. What is sent while the task
  does its last flush is abandoned (`QueueDrains` allows it), and `flush_and_wait` of such
  a task returns as if it had been answered (`FlushMeansSettled` speaks of answers only).
  A row that PostgreSQL refuses while it is up (a NUL character in `thread_id`, tags or
  metadata passes `validation.rs:104-107`) opens the breaker for everybody, and each
  backfill pass, `sync` and reconciliation ends at it: what was dropped behind it in the
  stream is not repaid until the stream has lost the row. `DebtIsRepaid` speaks of the
  messages that a pass reaches.
* **Journal.** `append` syncs the record it writes and `load` syncs nothing. A process that
  writes `attempted` and dies before the sync leaves a record that the next process reads
  and acts upon: it sends the request without a sync (`outbox.rs`, 717 to 797), while
  `docs/durable-outbox.md:5` says "Writes append and sync a stable request ID before
  attempting transport". If the machine then stops, a request that may have taken effect
  is queued again or gone, and can be settled as expired. `jbare` marks such requests, and
  `RetentionIsDurable` and `SentNeverExpires` speak of all others. A settlement that is
  lost the same way after the file was rotated leaves a request pending in an archive:
  `RetiredOwesNothing` asks that it was written (`jdone`). `OutboxClient` starts from what
  the records say and takes them as synced, so this gap is outside `OutboxReplay`.
* **Acks.** An ack that comes between the stream entry and the deadline record leaves an
  acknowledged message listed until its record expires; a post whose publication fails is
  stored and never tracked. `OverdueIsExact` asks for acks completed before the listing
  and deadlines that were written.
* **Inbox.** A cursor whose SET was applied while the reply was lost has passed messages
  that no call returned (`ops/inbox.rs:166-175`; `orchestrator_summary` the same way), and
  so has a response that is lost on its way to the client. `NothingSkipped` and
  `EveryNotificationIsRead` allow exactly what such a call had gathered.
* **Claims.** An agent that a resolution went against goes on with its claim when its
  message fails or the process dies before it (`channels.rs:1649-1679`, best effort):
  `PromisesDoNotConflict` excuses the agents that nobody reached and those whose claim was
  lost in a rewrite (`Unaware`), and no others.
* **Presences.** A row that commits after one with a higher id is never pushed, and neither
  is one that the Worker rejects, which is only logged (`cloud_sync.rs:813`);
  `PushedRejectedOrLate` allows exactly these. A pulled row with a shorter lifetime can expire
  and leave the key empty. A presence that an agent sets at the Worker is left out.
* **Event streams.** A notification between replay and registration is missing from the
  open stream until the client comes back. A replay longer than the channel (500 against
  128) is sent before anybody can read it and blocks the handler until the client gives up
  (`http.rs:1604`); such a handler also holds up the graceful shutdown (`VReplay`; it is
  among what `StopCompletes` calls unread). A client that stops reading holds up the
  graceful shutdown, though no worker (`StopCompletes`).
* **Worker.** Deduplication ends with the retention of the row, pending acks are not
  swept with it. A storage error between two statements of one post
  (`do-buslog.ts:383-433`, not a transaction) is not among the faults of `CloudStore`.
* **Token tool.** There is no compare-and-set across machines; the lease is external.
  `write-client` may replace a working credential that is not in the local map. After an
  upload of a revocation whose outcome is unknown, an upload on new evidence can bring
  the retired token back.
* **Hub selection.** The network is read when a resolution begins: a move in between
  stores the route under the old one. A resolution that overlaps a failed call can put
  the dropped route back for its time to live (the comment in `remote_dispatch.rs` says a
  stale route can never survive a live proof).
* **Sync.** The stream may drop entries that were never pushed (`gone`); the code makes
  no promise about them. A hub whose first steps fail (the client cannot be built, the
  cursor file cannot be read, the tails cannot be read or the first save fails) runs on with
  sync disabled and nothing retries (`cloud_sync.rs:1284-1299`); no message arrives until
  somebody restarts it.

Not modelled at all (see `components` in `PROJECT.json`): direct and group channels,
task queues and subscriptions are single Redis commands; a thread is read, changed and
written back without a guard, so that overlapping joins are lost, and the code states
nothing about it; the Worker's claim object, whose mutations the routes switch off;
argument checks, parsing, formatting, credentials, settings, export and the command
line, which are data handling without interleaved state. About half of the Rust lines
are tests inside the source files, and most of the rest is such data handling: the
lines that the map names are a small share of the files for that reason.

## 6. Plan

The models are complete as planned and every safety property of a passing run is proved.
What is left:

1. Claims of more than one process: which weaker statement survives the interleavings
   of `claims_exclusive` (what the next rewrite by one process restores).
2. Action properties with a proof: that cursors and saved files never move back, that a
   settled request stays as it is, that a retired journal is never written again.
3. Shared lemmas for least and greatest elements and for fronts of a sequence, which
   `CloudSyncProofs`, `MessagingProofs` and `CloudProofs` each state for themselves.
