# HopWatch: TLA+ models

HopWatch watches a Meshtastic LoRa mesh. It takes packets from MQTT brokers and from a station
node on the local network, stores what it learns in MariaDB, folds it into rollups, raises
alerts, and, when an administrator arms it, transmits. This directory models the parts of it
whose correctness depends on interleaving, failure, ordering or bounds, checks them with TLC on
small instances, and proves results that matter with TLAPS for every value of the constants.

## The system

Three long-running processes that share nothing but the database.

| Process | Code | State of its own | What it does |
|---|---|---|---|
| ingest | `src/src/ingest/` | broker connections, dedup cache, batch queue, node socket | decodes, deduplicates and stores packets |
| worker | `src/src/worker/` | a `busy` flag per loop, transport connections | TX loop (10 s), rollups and alerts (60 s), analyses and retention (slow) |
| web | `src/src/app/`, `src/src/auth/` | the live hub; otherwise none beyond a request | pages, the API, settings, queueing and cancelling of sends |

They interact through tables only: `tx_outbox` (web and worker jobs insert, web cancels, the worker
drains), `settings` (web writes, ingest and worker poll), `node_lease` (who may open the station
node's only TCP session), `receptions`, `packets` and the side tables (ingest writes, worker folds
and reads), `live_events` (everybody writes, the web's hub polls), `schema_migrations` (ingest and
worker at their start).

### Components, the state they keep, and what makes them correct

* **TX outbox** (`worker/tx.ts`, `db/tx.ts`, `lib/txstate.ts`). Rows of `tx_outbox` with a state, a
  packet id and an attempt count. Correct when a row is transmitted by one claimer at a time, under
  one packet id, a bounded number of times, never again after an interrupted send, never while
  disarmed, within the rate limit, and is judged on evidence about its own packet. Hard: every await
  of the tick lets the web process, the mesh or time in.
* **The station node's users** (`db/nodelease.ts`, `ingest/nodeConnector.ts`, `node/*.ts`). One lease
  row; the receiver's socket, timers, `yielded`, `stopped`; the session of an operation with its
  timers and frames. Correct when holders never overlap, an expired lease is taken over, the receiver
  stands down and comes back, and an operation reports what it did.
* **Ingest** (`ingest/index.ts`, `dedup.ts`, `batch.ts`, `pipeline.ts`). Dedup cache, batch queue,
  packet and reception tables. Correct when copies of one packet become one row with one reception
  per gateway and one set of side rows, and nothing accepted is lost but by the counted overflow.
* **Settings and the ingest daemon's reload** (`db/settings.ts`, `db/appsettings.ts`,
  `ingest/index.ts`). Broker rows, keys, one overrides document, a revision; the daemon's copies
  and connectors. Correct when a saved edit comes into force and no connector is doubled or leaked.
* **Rollups and retention** (`worker/rollups.ts`, `worker/retention.ts`, `db/partitions.ts`). Two
  watermarks, hourly and daily tables, partitions. Correct when raw data is never dropped before it
  is folded and the daily rows are the sum of the hourly ones.
* **Patch and text feed, forwarding, automatic senders, alerts** (`worker/patch.ts`, `textfeed.ts`,
  `forwarding.ts`, `autoresponder.ts`, `spamnudge.ts`, `traceroute.ts`, `adminscan.ts`,
  `weatheralerts.ts`, `automations.ts`, `alerts.ts`). Markers and cursors in the database. Correct
  when each event produces its output, once unless a failure falls between the act and its mark,
  and no sender is quicker than its cooldown.
* **Live events** (`lib/livehub.ts`, `app/api/v1/live/stream/route.ts`). A cursor, a floor, the set of
  ids handed out, the subscribers. Correct when every event reaches every viewer once.
* **Migrations** (`db/migrate.ts`). Records of complete and partial files. Correct when what is recorded
  is in the schema, and a restart gets every process up.

`PROJECT.json` lists every component with its status, and every hazard at its line with the
properties that cover it.

## The modules

| Module | Models | Kind |
|---|---|---|
| `TxOutbox` | `worker/tx.ts`, `db/tx.ts`, `lib/txstate.ts`, the TX loop of `worker/index.ts` | detailed specification |
| `TxPromise` | what the outbox promises about one message | abstract specification |
| `NodeLease` | `db/nodelease.ts` | detailed specification |
| `NodeConnector` | `ingest/nodeConnector.ts`, with a lease holder and the node as environment | detailed specification |
| `NodeSession` | `node/transport.ts`, `readconfig.ts`, `writeconfig.ts`: one session on the node | detailed specification |
| `PacketStore` | `ingest/pipeline.ts`: `applyEnvelope` as an operator on the tables | pure operators |
| `Ingest` | `ingest/dedup.ts`, `batch.ts`, the handlers and the shutdown of `ingest/index.ts`, over `PacketStore` | detailed specification |
| `Reload` | `reload()`, the poll and the watchdog of `ingest/index.ts`; the saves of `db/settings.ts`, `db/appsettings.ts` | detailed specification |
| `Rollups` | `worker/rollups.ts`, `worker/retention.ts`, `db/partitions.ts` | detailed specification |
| `Relay` | `worker/patch.ts`, `worker/textfeed.ts` | detailed specification |
| `Forward` | `worker/forwarding.ts` | detailed specification |
| `AutoTx` | the seven duties of the worker that queue sends of their own accord | detailed specification |
| `Alerts` | `worker/alerts.ts`, the fan-out of `worker/delivery.ts` | detailed specification |
| `LiveHub` | `lib/livehub.ts`, the stream route, the writers and the trimming of `live_events` | detailed specification |
| `Migrate` | `db/migrate.ts` in several processes | detailed specification |
| `TxOutboxProofs`, `TxVerdictProofs` | theorems about `TxOutbox`, the second extending the first; the refinement of `TxPromise` | proofs |
| `NodeLeaseProofs`, `IngestProofs`, `LiveHubProofs` | theorems about those modules | proofs |
| `NodeProofs` | theorems about `NodeConnector` and `NodeSession`, and about `MCNode` | proofs |
| `MigrateProofs` | theorems about `Migrate` and `Reload`, and about `MCPlatform` | proofs |
| `WorkerProofs` | theorems about `Rollups`, `Alerts`, `Relay`, `Forward` and `AutoTx`, and about `MCWorker` | proofs |
| `MC*` | instances for TLC | instances |

An `MC` module with a variable `scene` puts several instances side by side: a behaviour chooses a
scene at its start, every action belongs to one of them, the variables of the other modules stay as
they are, and each scene has the fairness of its own module. `MCTxWorkers` holds two instances of
`TxOutbox`, `MCIngestCopies` two of `Ingest`, `MCNode` the users of the station node (`lease`,
`late`, `yield`, `kick`, `session`), `MCPlatform` what the processes share (`migrate`, `live`, `window`,
`reload`), `MCWorker` the worker's loops (`fold`, `carry`, `forward`, `send`, `alert`).
A property of such a module says in its comment whose it is. The constants of the scenes that
theorems are about are constants of the `MC` module, and the configuration gives them their values.

A name with an underscore in it (`claimForSend_Unguarded`, `Verdict_NakFirst`) is a deliberately
wrong variant of the operator before the underscore: what a plausible bug would make of it. No
specification uses these; they show for each property that it notices the bug.

### TxOutbox

`st`, `pid`, `att` are columns of `tx_outbox`. Timestamps appear only as what the code asks of them:
`cooling` (younger than the backoff), `inHour` (inside the limiter's window), `inWatch` (inside the
confirmation window); `BackoffElapses`, `WatchElapses` and `WindowElapses` let them expire. A worker
has a place in the tick (`pc`) and what it holds in memory: the configuration it read, the rows it
listed (`snap`, `todo`), the utilisation, the row it claimed and the packet id it encoded. One
action is the code between two awaits that another process can slip into: `ReadConfig`,
`ListWatchable`, `reconcileConfirmations`, `ListPending`, the guards (`SkipCooling`,
`StopAtRateLimit`, `RefuseMuted`, `HoldBusy`), `claimForSend`, `Encode`, `Airs`, `PublishSucceeds`,
`PublishFails`, `RecordSent`. `TickAborts` is a database error anywhere in a tick, `Crash` the end of
the process, `failInterruptedSends` and `StartUnreconciled` the two ways a worker starts.
`air` records what aired under which id, `airCount` and `hourAir` how often; they are history.
Payloads, keys, the audit log and the announce job are left out. `TxPromise` gives each row a
verdict; `PromiseKept` instantiates it with `outcome` computed from `st` and `message` from `air`.

### NodeLease, NodeConnector, NodeSession

`NodeLease`: one tick is 5 s, so TTL 45 s, renewal 15 s, timeout 30 s and grace become 9, 3, 6 and 1.
`left` is `expires_at - UTC_TIMESTAMP()`: all processes read the database's clock. A renewal is a
message on its way (`flight`) that may fail or arrive late; release, acquire and the holder may fail.
`Punctual` keeps time from passing a deadline of a live process. `bare` is a caller that runs
unserialized after a database error, as the code does on purpose.

`NodeConnector`: one action is one callback up to its next await: timers (`RetryFires`,
`WatchdogFires`), socket events (`NodeAccepts`, `ConnectFails`, `Close`, `onData`), the two halves of
`checkLease`, `stop`, `requestNodeReconnect`. The environment is an operation that takes the lease,
waits the grace and opens its own session; a node that keeps one client and force-closes the previous
one, and may go down with or without telling its client; a database that may fail a read.
Assumptions: the backoff's length is abstracted; `destroy()`'s close event precedes any later
callback; what takes minutes (watchdog, idle timeout) happens when nothing that takes seconds is
outstanding (`Slow`); the grace outlasts a poll (`noticed`); the dynamic import in the first connect
handler takes no time.

`NodeSession`: an errand is a send, a read, a write of any set of sections (one of which the node may
not have) or a prune. The client has a phase, what the dump has reported, and armed timers; frames
travel in two sequences. An armed timer may fire at any time, since the node may be slow. `Done` is
the code's `done()`: it settles the promise, ends the socket, and for a send and a prune starts the
next attempt. The node (external) dumps in any order, may drop commands without a passkey as newer
firmware does, may not report the end of its dump, and may fall silent.

### PacketStore and Ingest

A transmission is a `mid`, the pair (from, mesh packet id); `NoId` is packet id 0. A copy has a
gateway, a form (JSON, protobuf or RF; decodes or not; names its channel or not; can be written or
not) and an rx time. `packets` is a function of (mid, first_seen_at) with the claim flag and the
counters, `receptions` one of (packet, gateway, rx_time). `applyEnvelope` is the whole function of that
name: the rolling lookup, the upsert, the RF upgrade or the insert, the side-table claim, the
traceroute fold. `Ingest` adds `DedupCache` (`seen`, `Claim`, `evict`), the queue, the timer and the
flush: chunks, a transaction that copies the store, commit, rollback and one retry per item, `drain`,
shutdown, kill and restart. A delivery's dedup and enqueue are one step (one turn of the event loop).
Assumptions: the window does not change while running; `affectedRows = 1` means inserted; a
JSON copy parses exactly when the packet is no traceroute; a rejected `getConnection()` in a flush
started by the timer or by `enqueue` is an unhandled rejection and ends the process; no message
arrives once the shutdown began, so `drain`'s 100 rounds are never exhausted. Telemetry values,
positions, identity history and link aggregates are data left out.

### Reload

A broker row, the keys or a tab of the overrides document is the number of the edit that wrote it;
the revision is a counter that a request advances in a step of its own. `saveOverrides` reads the
whole document and writes it back (`ReadOverrides`, `WriteOverrides`). The daemon's reload is one
action per await (`getChannelKeys`, `effectiveConfig`, `getRuntimeBrokers`, `RestartConnectors`,
`NodeReceiver`), each of which may fail where the code lets it. `open` are the MQTT clients that run,
`conns` the list that the code keeps: a leak is a difference between them. Assumption: a poll or a
heal does not begin while another one is under way; the timers leave 5 and 30 s for it and do not wait.

### LiveHub

A row of `live_events` is free, open (inserted by an uncommitted flush), in or out (trimmed or rolled
back): ids are taken in order and become visible in another. The hub's `cursor`, `floorId`,
`delivered`, `subs`, `timer`, `started` are the module's variables; a poll is three steps (`PollStarts`,
`liveEventsSince`, `FanOut`), a viewer's request two or more (`Connect`, `maxLiveEventId`, `Seeded`)
with an abort between any two (`Close`). Assumptions: the ids taken while a flush is open stay within
the look-back, which is what `LOOKBACK_IDS` is sized for; retention deletes what hundreds of polls
could have seen (`TrimLiveEvents`).

### Migrate

A file is a sequence of statements that fail when repeated ("once") or do not ("again"). Every process
reads both kinds of records at its start and goes on from what it read, whatever the others do
meanwhile. A failed statement is recorded as progress in a step of its own; a kill or a lost reply
leaves no true record.

### Rollups

The unit is the hour; a day has `DayLength` hours. A row is reduced to the number of receptions in it;
the statistics are functions of the same rows. The fast loop's fold (`foldReceptionHour`,
`foldOtherHours`, `MarkHour`) and the slow loop's duties (re-fold, daily fold, retention) interleave
statement by statement; a statement may fail, and then the next duty goes on, and the process may be
restarted, whereupon retention runs first. Assumption: passes take minutes, so none is under way
when the hour ends (`HourEnds`); what is longer shows as `missed`.

### Relay, Forward, AutoTx, Alerts

`Relay`: `patch.ts` lists candidates by age and transport, publishes or queues, then marks; `textfeed.ts`
publishes, then marks, and leaves a row to the next tick when the broker is down. The two steps are
actions of their own. `Forward`: the cursor, the first pass, the filter of repeats and the LIMIT, with
one target call that is external. `AutoTx`: each duty lists its candidates, checks, queues and marks in
steps between which time passes and statements fail; most are marked by the outbox row itself.
`Alerts`: what a rule's query returns is a set that changes at will, also between two awaits of the pass.

## The runs

| Run | Instance | Asks |
|---|---|---|
| `tx_faults` | 1 worker, 2 rows, 2 attempts, 2 listed, cap 1, 1 fault | may faults, cancels and switches cost a second packet id, too much airtime, a resend, an uncounted send, a send while disarmed or cancelled? |
| `tx_verdicts` | 1 worker, 2 rows in flight, one wants an ack | are rows judged on their own evidence, finally, and as `TxPromise` allows? |
| `tx_workers` | `two`: 2 workers, 1 row, mute, a restart; `live`: 2 rows, 1 listed per tick, 1 send per window, a crash | can a row be sent by two workers at once? does every queued row settle? |
| `node` | `lease`: 2 callers, operations up to 120 s, 1 fault; `late`: the same with 2 faults, so that a lease is lost; `yield` and `kick`: 3 sockets, 2 faults; `session`: 2 sections and one the node lacks, 2 attempts, 2 faults | exclusion, retention, fencing; does the receiver let go, stay away, come back, leave nothing behind? is what is reported true? does everything end? |
| `ing_copies` | `copies`: 2 gateways, 1 packet id, 3 copies in 3 formats, 5 clock steps, 3 clocks, cache of 2, restarts; `retry`: 2 packets (1 traceroute), 3 copies, batches of 2, 2 faults | one transmission, one packet, one reception per gateway? are counters, claims and folds exact after any failure? |
| `ing_flow` | 5 copies, good and bad, batches of 2, queue of 3, any 1 fault | who loses what, and does everything end? |
| `platform` | `migrate`: 2 processes, 2 files of 3 and 2 statements, 2 faults; `live`: 2 viewers, 4 events, look-back 3, 2 rows a poll; `window`: 6 events, look-back 2; `reload`: 2 brokers, 2 tabs, 2 edits, 2 requests, 1 fault, a heal, a restart | is the record of migrations true and does everybody come up? is an event handed out once, late rather than never? does a daemon at rest run what is saved? |
| `worker` | `fold`: 5 hours of days of 2, 2 receptions, 1 fault; `carry`: 2 messages, 1 fault; `forward`: 4 messages, 2 texts, 1 fault; `send`: 2 nodes, 2 texts, 4 instants, 1 fault, each duty on; `alert`: 2 rules, 2 keys, 3 changes, 1 fault | is anything lost, doubled or too soon, whatever fails between two steps? does every job go on? |
| `tx_cancel_lost` | 1 worker, 2 rows, cancels and a busy channel | expected violation, see below |
| `ing_outage` | 1 refused connection | expected violation |
| `live_stall` | look-back 3, 2 rows a poll | expected violation |
| `hot_reload` | 1 edit, 1 failed query | expected violation |

What they show: in the instances above, every property of the passing runs holds in every reachable
state or fair behaviour, and each is violated as soon as one operator is replaced by its wrong variant.

The bounds and why they are enough. Two rows are needed for one to overtake, starve or be mistaken
for the other, and the code treats rows uniformly beyond their order; two attempts distinguish a
first, a last and a forbidden one; a cap of one is full after one send. Symmetry is used over packet
ids only, in runs without liveness: nothing compares ids. Three sockets are the old, the current and
the next one of a reconnect race. Two gateways and three copies give a superseded copy, its successor
and a repeat, twice around a batch boundary; a clock of five steps with a window of two reaches both
ends of the lookup range and one step beyond; the cache of two entries evicts with the third. A queue
of three with batches of two has a full batch, a rest and an overflow. Two migration files with both
kinds of statement in both places have a repeat that fails, a repeat that does not, and a file boundary
in front of each. A poll of two rows in a look-back of three can be full and can overlap; with a
look-back of two and six ids, ids leave the window and are forgotten. Three days of two hours have a
day that is expired, one that is complete and the current one, and a pass of two hours leaves one
over. Two brokers and two tabs give an edit that must not touch the other one. One fault at a time in
the lease, the flow and the worker's loops: two lost renewals in a row do lose the lease (below), and
the theorems cover any number of faults where they apply. Deadlock is checked in every run in which
the system cannot come to a stop; in `platform`, `worker` and `hot_reload` it can, when the bounds on
edits, events or time are used up.

### Fairness

* `TxOutbox`: weak fairness on the worker's start and its steps (systemd restarts it, `setInterval`
  fires, a publish attempt ends at its deadline), on the backoff and on the rate window. Nothing is
  owed by users, the mesh, the administrator or faults. `EveryRowSettles` assumes the queue
  armed and the channel quiet: otherwise rows are meant to wait.
* `NodeLease`: time passes, and a live process takes its next step; a renewal on its way arrives or
  fails. `NodeConnector`: timers fire, socket events are delivered, queries are answered, operations
  end and a node that is down comes back. Leases, clicks and faults are owed by nobody.
  `NodeSession`: armed timers fire; nothing is owed by the node.
* `Ingest`: an armed timer fires, a running flush and `drain` go on. No arrival is owed.
* `LiveHub`: the interval fires and polls end; strong fairness on `liveEventsSince`, since a poll's
  query may fail but not for ever. Nothing is owed by viewers, writers or retention.
* `Migrate`: every process takes its next step, also after it failed (`Restart=always`).
* `Reload`: the poll fires, its awaits end, and a web request that wrote goes on to the revision.
* `Rollups`, `Relay`, `Alerts`: the intervals fire and their statements are executed.
  `Forward` and `AutoTx` have safety properties only.

## What the checks found

Four disagreements have a run of their own:

* **A cancelled message can still be sent** (`tx_cancel_lost`). The channel-utilisation guard writes
  `held`, and the mute guard `failed`, by id only. A row the user cancelled after the tick listed it
  becomes `held` again and is sent by a later tick.
* **One refused database connection loses the whole backlog** (`ing_outage`). `getConnection()` is
  awaited outside the inner `try` of `flush`, so neither the chunk nor the chunks behind it are
  retried or logged, and the rejection of `void this.flush()` is unhandled.
* **The live feed stands still under load** (`live_stall`). Each poll reads the oldest 500 ids above
  `cursor - 2000`; once 500 of that window have been handed out, every poll returns the same 500,
  the cursor stays, and nothing new is read until the worker trims the table.
* **A reload that fails is not repeated** (`hot_reload`). The fingerprint is remembered before the
  reload it announces, so one failed query leaves the daemon on the old brokers until the next save.

Others were met while modelling. They bound what the passing runs claim; each is stated as a
definition next to the property it would strengthen, is false of the model, and is the note of a
hazard in `PROJECT.json`:

* The rate limiter forgets packets that aired and were then refused by a NAK or failed by a restart
  (`worker/tx.ts:321` says they count "whatever happens next"): `AiringsWithinCap` is false, only
  `CountedWithinCap` holds.
* With two workers, the hold guard's unconditional write can release a row the other is sending:
  `ClaimExclusive` holds only without holds (the premise of its theorem, too).
* Two lost renewals in a row lose the lease under an operation longer than the TTL, such as a
  publish with its five attempts: `NeverLosesLease` is checked with one fault.
* After one "connect now" on a live connection, the old socket's close handler starts a second
  reconnect chain, and the two evict each other: in the scene `kick` the link only keeps coming back.
* One failed lease read, or two polls answered out of order, brings a yielded receiver back over a
  running operation: `HolderUndisturbed` is checked with a database that answers, one poll at a time.
* A write that the node drops in its 1.5 s linger is reported as done (`WrittenMeansTaken`).
* A traceroute whose first copy was JSON never reaches the topology (`TracerouteFolded`), and a text
  whose channel was named by an earlier, undecodable copy keeps no channel (`TextKnowsChannel`).
* Days that the daily fold passes before their hours are folded are never added up
  (`DaysAlwaysAddUp`); `DaysAddUp` holds while the watermark passes no day with such hours before it.
* When the station node uplinks what it sent for us, a message is carried across although it was heard
  on both sides (`OwnUplinkPreventsDoubling`).
* A rule limited to channels passes over a text that another channel repeated first: `EveryTextForwarded`
  is checked without such a limit.
* The re-confirmation of an admin probe looks at the last answer, not the last probe
  (`ReconfirmedRarely`).
* Two processes that migrate at once and a failed statement can leave a record that no restart gets
  past (`RecoverableByRestarting`); `EveryoneStarts` excuses that combination.
* Two saves of the overrides document at once lose one of them (`SavesSurvive`).

## What is proved

Every theorem holds for all values of the constants that meet the named assumptions of the module
(`RowAssumption`, `TimeAssumption`, `PacketStoreAssumption`, `FilesAssumption`, ...): any rows, ids,
workers, gateways, copies, queue and cache sizes, processes and files, any number of faults.

| Theorem | States | Premise |
|---|---|---|
| `TxTypeCorrect` | `[]TypeOK` | |
| `TxClaimExclusive` | `[]ClaimExclusive` | no hold is ever written |
| `TxOnePacketPerRow` | `[]OnePacketPerRow` | one worker |
| `TxAirtimeBounded` | `[]AirtimeBounded` | one worker |
| `TxEvidenceBacked` | `[]EvidenceBacked` | one worker |
| `TxCountedWithinCap` | `[]CountedWithinCap` | one worker |
| `TxVerdictsStand` | `VerdictsStand` | one worker |
| `TxNothingAirsUnasked` | `NothingAirsUnasked` | one worker; neither a mute nor a hold |
| `TxPromiseKept` | `PromiseKept` (the refinement of `TxPromise`) | one worker |
| `LeaseTypeCorrect` | `[]TypeOK` | |
| `LeaseFenced` | `Fenced` | |
| `LeaseSoleHolder` | `[]SoleHolder` | operations shorter than the TTL |
| `LeaseNeverLost` | `[]NeverLosesLease` | operations shorter than the TTL |
| `IngestRowsStayApart` | `[]RowsStayApart` | |
| `IngestQueueNeverStranded` | `[]QueueNeverStranded` | |
| `IngestSuppressedIsCovered` | `[]SuppressedIsCovered` | |
| `IngestOneOfEach` | `[]OneOfEach` | working clocks agree to within a window (`Spread <= Window`) |
| `IngestStoredAddsUp` | `[]StoredAddsUp` | |
| `MigrateTypeCorrect` | `[]TypeOK` | |
| `MigrateNoneSkipped` | `[]NoneSkipped` | |
| `NodeStandsDown` | `[]StandsDown` | nobody clicks "connect now" |
| `NodeLinkWatched` | `[]LinkWatched` | nobody clicks "connect now" |
| `NodeHolderUndisturbed` | `HolderUndisturbed` | no clicks, no failed lease read, one poll at a time |
| `NodeReportIsTrue` | `[]ReportIsTrue` | `Configuration` |
| `PlatformNobodyLeaked` | `[]NobodyLeaked` | `Sizes` of the hub |
| `PlatformAtMostOnce` | `[]AtMostOnce` | `Sizes`; nobody arrives while another viewer seeds the hub |
| `PlatformQuietMeansCurrent` | `[]QuietMeansCurrent` | `Brokers` |
| `PlatformTypesOK` | `[]TypesOK` | `Sizes` of the hub, `Brokers` |
| `HubMemoryBounded` | `[]TypeOK` of `LiveHub` | `Sizes` |
| `WorkerHoldsDoubling` | `[]HoldPreventsDoubling` | `Messages` |
| `WorkerForwardsEveryText` | `[]EveryTextForwarded` | `Settings`; the rule is for all channels |
| `WorkerNeverTooSoon` | `[]NeverTooSoon` | `Senders` |
| `WorkerNothingTwice` | `[]NothingTwice` | `Messages`, finitely many messages, `Kinds`, `Bounds`; the cooldown of replies covers the window (`CooldownCovers`) |
| `WorkerNothingDroppedUncounted` | `NothingDroppedUncounted` | `Hours` |
| `WorkerDaysAddUp` | `[]DaysAddUp` | `FoldLimits` |
| `WorkerTypeOK` | `[]TypeOK` of `MCWorker` | `FoldLimits`, `Messages`, `Settings`, `Kinds`, `Bounds` |
| `ForwardAnyRule` | what holds of a rule with a limit | `Settings` |
| `AlertsToldOnce` | `[]ToldOnce` of `Alerts` | `Bounds` |

The inductive invariants, and why the properties need them:

* `TypeInv` = `TypeOK` and `MemoryOK`: a worker inside a send has a row, and from `Encode` on an id.
* `ExclusiveInv`: a row somebody transmits is `sending` or `failed` (a restart may fail it under the
  worker's hands), so the claim's state test refuses everybody else; a verdict list never holds a
  row in transmission.
* `SoleInv`: with one worker, the ids a row aired under are the recorded one (`AirPid`), every airing
  is paid for by a recorded attempt or by a row that can never be listed again (`AirPaid`), and the
  snapshot of a row that is still listed agrees with the table where it matters (`SnapshotFresh`).
* `WatchInv` adds to it that the list a tick judges is not stale: the rows in it are still `sent` or
  `heard`, as they were read, because nobody but the worker moves a row that has been sent. With it,
  `EveryMove` lists the ways in which any step can move a row (`RowMove`); that verdicts are final,
  that no interrupted row comes back and that evidence stands is then read off that list.
* `AiredInHand`: what a worker reports as handed over has aired. Evidence and the refinement rest on
  it: a row may only become `sent` when its message is not empty.
* `TickArmed`: a tick past the gates read a configuration that let it pass, hence the kill switch
  needs to look at the tick's own copy only. `Unrefused`: no guard writes its refusal; that is the
  premise under which a cancelled row stays cancelled, and `tx_cancel_lost` shows why it is needed.
* `LimitInv`: what the tick has counted covers what the table shows, strictly so between the publish
  and its recording, where the row is counted by the tick and not yet by the table.
* `TokenInv`: a caller has a token exactly while it works under the lease, and no two have the same.
  Fencing follows, since every write names its token.
* `LeaseInv` adds the arithmetic `left + age >= TTL` of a holder: with operations shorter than TTL,
  `left` is then positive, so the conditional update of `acquireNodeLease` cannot succeed.
* `StoreInv`: everything in memory names a delivered copy, and rows are apart in the database and in
  the open transaction, so commit and rollback both preserve it. The lemma behind it is about
  `FirstSeen`: a new row is only made where the lookup range, two windows back and one forward,
  is empty, and its bucket start lies at most a window back.
* `DedupInv`: every cache entry stands for an accepted or shed copy of at least its rank.
* `SoundInv` says what the database and the open transaction hold, each by itself. Counters and side
  tables follow the rows (`CountersMatch`, `SideTablesMatch`); the time of a reception is determined
  by packet, gateway and the gateway's stamp (`RxTrue`), so a second copy finds the row of the first;
  and the one row of a packet heard by working clocks starts in the bucket of one of the stamps,
  which lies in the lookup range of every other (`OneRow`). The transaction only adds to the database
  (`Keeps`), so a commit, a rollback, and an individual retry all lead from one sound store to
  another, and what the flush has passed is stored in the transaction it is about to commit.
* `MigrateInv`: everything a process remembers (where it is, the partial rows it read at its start) and
  everything recorded is behind what has been applied (`Behind`, `PartialBehind`). A process's
  memory may be stale, but applied statements are never undone, so what was behind stays behind;
  `Reached` states that in a form that only grows.
* `ConnInv`: the connector has at most one socket that it names; any other has been destroyed and
  waits for its close event (`OneSocket`), a return is planned only when none is left (`Planned`), and
  timers and flag are those of the named socket (`Timers`). A click breaks `OneSocket`: it creates a
  socket over one whose close event is still to come. `Told` adds what the connector knows of the
  lease; a grace longer than a poll then keeps the receiver away from the operation's session.
* `SessionInv`: `Dumping` says that "complete" is the last word of a dump and that a request for the
  dump is alone on its connection, so whatever follows "complete" finds a node that is done;
  `Handing` ties every way of reporting success to `handed`; `Writing` says that a write has either
  handed all of its frames over or left the node untouched. A write is refused, cut off or timed out
  before it acts, hence in the second case. `Opening` is needed for the eviction of the connection
  before: an attempt that still waits for its socket has no timers and has said nothing.
* `HubInv`: one viewer at a time seeds the hub, and before anybody is subscribed (`Seeding`); ids the
  hub has forgotten are ids it does not read again (`Reach`); what a connection was handed lies above
  the floor and is remembered or out of reach (`Handed`); history lies at or below the floor (`Past`).
  With a second viewer arriving while the first one seeds, being subscribed no longer means that the
  hub is started: hence the premise about `Overlap`, which the instances of `MCPlatform` meet.
* `SetInv`: while there is no revision the daemon has not seen and none about to be announced
  (`Settled`), what the reload under way has read so far is what the tables say (`Known`), since every
  write is announced after it and the revision only grows; at rest that is everything, unless the
  reload was cut short. The connectors are one for each enabled row of the rows read last
  (`OnePerRow`, `Built`), and their clients are those that run (`Wired`), also around a heal, whose new
  connector takes the place of one for the same row.
* `CarryInv`: a copy that came within the hold is a reception for good (`HeardKept`: only the station's
  own uplink is ever replaced in place), so a pass that listed its candidates finds the other
  transport's copy when it looks (`ListedRightly`).
* `FwdInv`: the cursor, the page under way and the counts agree, and of any equal texts behind the
  cursor the first one was sent, is history, or was none of the rule's (`Covered`). The duplicate
  query asks for an earlier equal text, so the argument takes the least such copy in the window; the
  lemma about pages (`AscendingLists`) says that a page holds a text only if it holds all before it.
* `AlarmInv`: between the notification and its row an alert is `InHand` of exactly one pass; what was
  told and has no row is in hand or was paid for by a failure.
* `SendInv`: the row that the tick is about to queue is due (`Due`). For replies, nudges and automations
  the cooldown was looked up since the last await; welcomes and traceroutes are listed once, so their
  whole batch must stay due while rows for its first members are queued, which holds because no
  subject is listed twice (`Batched`). The rows that wait and those the batch will still add
  (`Bounded`) are what the backlog limit bounds: the rows of other duties may pile up.
* `Typed` and `Answered`: what a batch lists stays in its table and, for replies, in the window
  (`Listing`); a message is dated at most `Ahead` after now, and an answer queued while its message
  is in the window, so a second answer would come before the cooldown of the first is over.
* `Paid`: broadcast alerts and admin probes are queued and marked in two steps. A round that is queued and not
  marked is a debt; while no failure falls between the two steps it is the round in hand. A failure
  makes at most one debt, and a repetition settles the debt of its subject, so the repetitions and
  the debts together never exceed the failures.
* `RoundInv` is the same account for the patch and the feed: the copies published, numbered, exceed
  the messages marked by one while a candidate is between its two steps (`Unmarked`), and otherwise by
  no more than the failures.
* `FoldInv`: an hour at or below the watermark to which no reception can come any more is in the tables
  (`CountedOnce`). It was folded once when the watermark passed it, perhaps too early; hence the
  hour that closes in the current hour is counted only when the re-fold has passed it (`Redone`), which
  goes down from the watermark it has read, and hours the fast loop adds above that one in the
  meantime are closed when they are folded or not yet due. Hours below the first one with receptions
  are empty when the watermark jumps over them (`FastFolds`). A partition is dropped at days before
  the watermark and before the cutoff, and the lemma about days (`DaysGoOn`) turns that into hours
  that are closed.
* `DayInv` adds the daily fold. A day is left behind (`LeftBehind`) when the watermark, or the pass
  under way, is past it; from then on it is `Settled`: it lies two days back, so its hours are past every
  late reception and every re-fold, and each of them is folded or empty; hence its sum stays what
  was written. A sum is the number of pairs of an hour and a number up to its count, so it is bounded by
  the receptions there have been (`Tables`) without an induction. When a pass would leave a day behind
  whose hours the hourly fold has still to come to, the history variable `ahead` records it, and the
  theorem no longer speaks of that behaviour. This includes the days before the first one
  summed: a fold that failed before its mark and a reception two hours late can put an hour there.

The last step is the same for every scene of an `MC` module: the scene is chosen at the start and
stays, so the invariant of the component holds of it (`NodeScenes`, `HubScenes`, `SetScenes`,
`ScenesStay`). Where
a theorem of another module is used, `LateSame`, `HubSame` and `NarrowSame` identify the definitions
of the two instances.

The premises beside the constants' assumptions say that sizes are natural numbers (`Sizes`, `Bounds`,
`Messages`, `Settings`, `Senders`, `Kinds`, `Brokers`, `Hours`), that late receptions fall into hours that are
folded again and raw rows are kept for longer than that (also `Hours`), that the model's tags differ (`Tags`), that a node has
finitely many sections and an errand at least one attempt (`Configuration`), or which part of the environment the property
excludes; "What the checks found" tells why it must. `FoldLimits` asks that late hours are re-folded for
at most a day (`refold_hours` is 6 unless it is set, and may be set to 168). `CooldownCovers` asks that
`auto_responder.cooldown_s` is at least the five minutes for which a message is looked at plus what
a gateway's clock may be ahead: the default of 300 s leaves no room for the latter. `StoreAssumption` and
`IngestAssumption` place `MIN_PLAUSIBLE_MS` after the epoch (in the code it is in 2020) and the bound
of the clock, `MaxTime`, not before it.

Only model-checked: every liveness property, since fairness and ENABLED are outside what the proof
system handles. No definition here is recursive.

## Not modelled, and why

* **Meshtastic codec** (`meshtastic/*.ts`): byte formats and AES, tested by vectors. What a copy
  carries of it is an input of `PacketStore`.
* **Queries, pages, components** (`db/queries.ts`, `app/`, `components/`): more than half of the source.
  Read-only SQL and rendering: they keep no state and take no step that another process could see.
* **Periodic analyses**: statistics over real-valued data, recomputed from the tables by one process.
* **Configuration schema and backup** (`config/`), **service control**: evaluated once at a start, or one
  row compared with a start time.
* **Authentication, owned nodes, watchlist**: one or two statements per request on rows of one user.
* **Scripts and deployment**: assumed, systemd restarts what ends.

For these reasons the modelled lines stay a small share of the repository: what is modelled is the
state that outlives a request and the steps that several actors take on it.

## What is left

In the order in which it would add most: `NodeLease` and `NodeConnector` composed on one clock, replacing the receiver's
abstract lease; the new-node event of `Forward` and the network snapshots of `Rollups`.
