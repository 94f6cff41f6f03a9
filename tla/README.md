# Verification of channel-bridge

TLA+ models of the bridge in `src/src/chbridge`, the TLC runs that check them and
the TLAPS proofs about them. Paths below are relative to `src/src/chbridge`
unless they start with another directory of the repository.

The program relays messages between chat channels: it listens to Mattermost and
Slack, stores every event in PostgreSQL before anything else, handles the events
of each channel in order, and remembers in `message_links` which message is a
copy of which, so that replies, edits and deletions follow.

## The system

| Component | Code | State | Operations | Talks to | Module |
|---|---|---|---|---|---|
| Listener, reconciler | `app.py` | position in their loops | read the cursor, backfill, submit, listen | adapters, cursors, pipeline | `Intake` |
| Adapter intake | `adapters/mattermost.py`, `slack.py` | socket | `listen`, `backfill`, event keys and cursors | platforms, `Pipeline.submit` as callback | `Intake` |
| Cursors | `store/cursors.py` | `sync_cursors` | `get`, `set`, `advance` | database | `Intake`, `Topology` |
| Event inbox | `store/inbox.py` | `event_inbox`: id, status, attempts, key | `enqueue`, `claim`, `mark_done`, `mark_failed`, recovery | database | `Pipeline` |
| Worker pipeline | `worker.py` | `_running`, `_wakes`, `_group`, tasks | `submit`, `run`, `_ensure_worker`, `_worker`, `_process`, `_fail` | inbox, cursors, relay | `Pipeline` |
| Relay | `relay.py` | none between events | create, edit, delete, map a thread parent | links, guard, adapters | `Relay` |
| Attachments | `relay.py`, `transform/files.py`, `adapters/*` | none between events | order of upload and post, notices | adapters | `Attachments` |
| Message links | `store/links.py` | `message_links`: message, group, origin or replica | find, record, delete a group | database | `Relay` |
| Loop guard | `loopguard.py` | own ids | decide whether an event is dropped | links | `Relay` |
| DLQ command | `cli.py` | none | put dead rows back | database, from another process | `Pipeline`, `Revival` |
| Router, config | `router.py`, `config.py` | bridges, `endpoints` | validate, resolve, store the topology, targets | database, adapters | `Topology` |
| Migrations | `store/db.py` | `schema_migrations` | run what is missing | database | `Topology` |
| Start, shutdown | `app.py`, `cli.py`, `store/db.py` | open resources | open, release | everything | `Lifecycle` |
| Supervisor | `supervisor.py` | job states, backoff | restart a job that ended, cancel all | the jobs above | `Lifecycle` |
| Name cache | `adapters/names.py` and its callers | names with a TTL | get, put, refresh | profile lookups and events | `NameCache` |
| Adapter output | `adapters/*` | Slack's `_post_locks`, `_last_post` | send, edit, delete, classify errors | platforms | `Relay`, `RateGate` |
| Events, text, logs | `cir.py`, `transform/`, `obs/` | none | pure conversions | | – |

What is hard here:

* **Interleaving at awaits.** One event loop runs a worker per channel, two jobs
  that submit, and tasks of `slack_sdk`. Every `await` lets the others run:
  between `claim()` and `wake.clear()`, between the `get` and the `set` of a
  cursor, between posting a copy and recording it, between a lookup of a name and
  its answer.
* **Two durable effects without a transaction.** A post at a platform and its
  row, the row and the cursor, the relay's work and `mark_done`, a post and the
  files to be hung on it: a crash or a lost reply falls between them, and a retry
  repeats what was already done.
* **Delivery on several paths.** Stream, backfill, sweep, redelivery and the DLQ
  bring the same event, in different order and under different keys.
* **Self-inflicted events.** Platforms report the bridge's own posts back to it.
* **Processes on one database.** `run`, `status` and `dlq` may run at the same
  time, with different contents of the configuration file; there is no lock
  between them.
* **Things that must happen in the end.** Wake-ups, polls, restarts, sweeps, and
  the end of the process after a signal.

What makes each part correct: *pipeline* – no accepted event is lost or
overtaken, none is repeated without a fault, all are settled in the end;
*intake* – no post is passed by the cursor without being in the inbox, order is
kept, and all gets in in the end; *relay* – no copy is copied, links only join an
original with its copies, replies hang where they belong, and copies agree with
their originals when the bridge is at rest; *attachments* – a file is there or
named as missing, never both; *lifecycle* – what is opened is closed, nothing
is used after it was closed, and a job that ends comes back; *topology* – a channel has one bridge, and what was stored
can be started again; *name cache* – a wrong name is explained and not for long;
*rate gate* – posts are spaced and nobody starves. The hazards behind these are
listed, with the lines where they bite, in `PROJECT.json`.

## Modules

| Module | What it is |
|---|---|
| `Pipeline` | the inbox and its workers, with faults between any two statements |
| `DurableQueue` | what the pipeline promises: an abstract queue per channel |
| `PipelineRefinement` | the mapping from `Pipeline` to `DurableQueue` |
| `Intake` | how messages reach the inbox: both jobs, cursors, both adapters |
| `Relay` | what handling an event does to links and platforms |
| `Revival` | `Relay` composed with the inbox's DLQ and the command that empties it |
| `Attachments` | the fan-out of one message with files |
| `Lifecycle` | a process from its start to its end, with the supervised jobs |
| `Topology` | configuration files, the tables stored from them, migrations |
| `NameCache` | the name cache, lookups and profile events |
| `RateGate` | the spacing of posts to a Slack channel |
| `PipelineProofs`, `IntakeProofs`, `RelayProofs`, `AttachmentsProofs`, `LifecycleProofs`, `TopologyProofs`, `NameCacheProofs`, `RateGateProofs` | theorems about the module each is named after; `RelayProofs` is about `Revival`, too |
| `MCPipeline`, `MCIntake`, … | instances for TLC |

`Pipeline` leaves the relay's work abstract (it completes or raises). `Relay`
takes over where it stops: it starts from the queue `DurableQueue` promises, one
event at a time per channel, retried and given up in the end. `Revival` gives
`Relay` back what `DurableQueue` abstracts from, the ids of the rows, because the
DLQ command depends on them. `Attachments` opens the one step `Send` of `Relay`
for a message with files. `Intake` ends where `Pipeline` begins, with the row in
the inbox. `Lifecycle` contains the jobs of which `Pipeline` and `Intake` are the
insides, and `Topology` the endpoints they all work on.

### Pipeline

| Code | Model |
|---|---|
| `event_inbox.id / status / attempts` | `rowId`, `status`, `attempts`; `nextId` is the sequence |
| `Pipeline._group`, `_running`, `_wakes` | `group`, `running`, `wakes` |
| position of the task of a channel, the row it holds | `pc`, `cur` |
| position of `run()` or of the supervisor around it | `job` |
| `submit()` after its `await` | `submitting` |
| `enqueue` / the rest of `submit` | `Enqueue`, `EnsureAndWake`, `SubmitError` |
| `run()` | `Start`, `RequeueAll`, `SpawnAll`, `RequeueError`, `PendingError`, `RestartJob` |
| `_worker` | `ClaimRow`, `ClaimNone`, `ClearWake`, `Wake`, `Poll`, `ClaimError`, `ClaimReplyLost`, `ClaimSleepOver` |
| `_process` | `Handle`, `HandleError`, `MarkDone`, `MarkDoneError`, `MarkDoneReplyLost` |
| `_fail` | `MarkFailed`, `MarkFailedError`, `BackoffOver` |
| `chbridge dlq --requeue` | `ReviveDead` |

An action is one statement or the code between two awaits. A *reply lost* action
commits and then takes the error path, as when the connection breaks after the
commit. `handled`, `revived`, `faults` and `revivals` are history. An error of
`mark_failed` leaves the worker task and aborts the group, as a `TaskGroup` does;
`_running` keeps its members, as the code does.

### Intake

The platform is a log of posts and edits; a place in the log is a time stamp
(`update_at`, `ts`). `stream` is what the socket has pushed and nobody has read,
`cursor` the stored cursor of the endpoint, `at`, `since`, `todo` the progress of
the listener and of the reconciler, `submits` the calls of `submit()` under way,
each in the steps *enqueue*, *read* and *write* (the two statements of
`advance`). `ReadSince`, `Fetch`, `SubmitNext`, `Connect`/`SweepOver` are the
bodies of `_listener` and `_reconciler`; `MattermostBackfill` and `SlackBackfill`
compute what the two `backfill()` methods return, with their keys and cursors, as
a set from which `SubmitNext` takes the oldest post next. Mattermost's loop awaits `submit()`; Slack starts a task per envelope and
swallows its errors. `Drop`, `Resume`, `Resend`, `Post` and `Edit` are the
platforms and their users.

### Relay and Revival

`msgs` holds all messages of all channels with their thread parent; `copyOf` is
history. `links` is `message_links`, `queue` the unsettled events of each channel,
`tries` the attempts at the first one that failed or were cut off, `dead` the DLQ, `w` the local variables of
the handler of each channel: where it is (`at`), the targets left (`todo`), the
group, the mapped parent and the message it works on. Every statement and call of
`relay.py` is an action: `Begin` (guard 1), `Guard` (guard 2, bots, targets),
`RecordOrigin`, `FindParent`, `MapParent`, `Send`/`SendRefused`, `RecordReplica`,
`FindGroup`, `Lookup`, `ApplyEdit`, `ApplyDelete`, `Cleanup`. The last of them ends
in `Return`: `mark_done` settles the event (`Finish`), fails (`Fail`), or the
process dies before it (`Die`), after which a handled event is handled again. A
crash costs every event in hand the attempt that `claim()` has counted.
`replica_in` has `LIMIT 1` without an order: `MapParent` and `Lookup` choose any row. Every effect
on a channel is reported back to the bridge. A bridge is taken as active with
edits and deletions relayed; a paused bridge and the switched-off options return
before anything happens.

`Revival` adds `Revive`, the one statement of `dlq --requeue`. Rows keep their
ids and `claim()` takes the lowest, so `Reorder` puts the revived rows of a
channel before what waits there. The event a worker has in hand goes on first;
if it fails it falls behind (`held`, `Resume`). `morgue` is the DLQ in the order
of the ids, `Book` what a step of `Relay` does to these rows. `outOfTurn` is
history: the messages of which an event was revived when their newest one had been
settled already or was in a worker's hands (`LaterDone`).

### Attachments

| Code | Model |
|---|---|
| local variables of `_send_with_files` and `_transfer_files` | `h`: target `t`, file `next`, `ids`, `known` and `failed` (the two parts of the notice), the post `id` |
| `FileMode.PRE_UPLOAD` / the other order | `PreUpload`: `files` → `post`, or `post` → `files` → `notice` |
| `_precheck`, `_precheck_all` | `Precheck`, `PrecheckAll` |
| the loop over `event.files` | `PassOver`, `OpenFile`, `FileRefused`, `FileError`, `FilesDone` |
| `upload_file` of Mattermost / the three calls of Slack | `PutBytes` / `GetUploadURL`, `PutBytes`, `ShareFile`, `ShareReplyLost` |
| `send`, the edit with the notice, `record_replica` | `Send`, `SendError`, `SendReplyLost`; `EditNotice`, `NoticeError`; `RecordReplica`, `RecordError` |
| `mark_done`, `_fail` of the pipeline, a restart | `MarkDone`, `MarkDoneError`; `Fail`; `Crash` |
| `_on_edited` on a copy that carries a notice | `RelayEdit` |

`limit` is what `open()` has learnt of the server's limit (0: nothing), `size` what
the source says of a file (0: nothing) and `bytes` what it really has. `Escape` is
an error of a transfer that is no `AdapterError`. `tries` counts a crash, too: `claim()`
has counted the attempt before.

### Lifecycle

`at` is the position of the main task in `build()`, `run()` and `_release()`, or
in `chbridge status`; `pool`, `adapters`, `sessions` (Mattermost's) and `socket`
(Slack's `_socket`) are what is open and known, `abandoned` the Slack clients that
are open though `listen()` has set `_socket` to `None`. `halfOpen`, `failed` and
`listened` are history: a session whose `open()` raised, what has refused to close,
and the Slack workspaces that had a client. `job`, `flag`, `consecutive` and
`delay` are `_supervise()` and `JobState` of each job. `Connect`, `ConnectError`,
`Migrate`, `OpenSession`, `Opened`, `RouterBuilt` and `BuildError` are the start,
`Stop`, `Joined`, `Reported`, `CloseAdapter`, `ClosePool`, `CloseError` and
`CloseInterrupted` the end, `StartJob`, `EndJob`, `CancelJob` the supervisor, and
`Listen` and `LetGo` the client of Slack's `listen()`. A process that stops closing
midway is `"cut"`, one that has gone through all of it `"ended"`.

### Topology

`file` is the configuration file, `EditFile` its operator. `proc` are two
processes on one database: the bridge, and a command that goes through the same
start (`status`, or `migrate`, which stops half-way). `Load` is the validators,
`ReadApplied` and `Apply` are `apply_migrations()`, `Resolve` is `build_router()`,
`Persist` is `_persist()` in its transaction, with the constraint
`UNIQUE (platform, workspace_id, channel_id)` (`Conflict`) and the cascade to `sync_cursors`.
`Routed` is `Router.endpoint_for`, `Advance` the cursor an event leaves. A channel
can be written by its name or by its id, which the validator cannot compare, and
names are unique in a team only: `Ref` is what it compares. `stored` is history.

### NameCache

A name is the number of its changes. `entries` is the cache with the age of each
entry, `lookup` the call of `_display_name` each reader waits for (`Ask`, `Read`
at the platform, `Answer`, `LookupError`), `events` the profile events on their
way. `Refresh` is `user_updated`, which Mattermost's listener handles in order and
only while it waits for no name itself, and `user_change`, for which Slack starts
a task each. `excused` is history: users whose entry a late answer, a lost event
or one applied out of order has spoilt.

### RateGate

`queue` and `holder` are the `asyncio.Lock` of each channel, `left` the rest of the
holder's sleep, `since` the time since `_last_post`. `Arrive`, `Acquire`, `Pass`
and `Posted` are the way of a `send()`; `Cancel` is the end of the pipeline's
tasks wherever they are, after which the same adapter is used again. `quiet`,
`waited` and `ahead` are history, kept independently of what the code measures.

## Runs

All passing runs are exhaustive within their bounds.

| Run | Setting | Shows |
|---|---|---|
| `pipeline_faults` | one channel, two events, three faults of any of nine kinds, a DLQ command | `OneWorkerPerChannel`, `RepeatsNeedFaults`, `RetryBudget`: workers are registered once, a repeated handling and a spent attempt are always accounted for |
| `pipeline_queue` | one channel, two events, two crashes or failed statements, a DLQ command, fair scheduling | `ChannelFIFO`, `NoStrandedRow`, `DoneIsFinal`, `ImplementsQueue`, `EveryEventSettles`: the rows behave as `DurableQueue`, and every accepted event is settled. Not among the faults are lost replies and errors of `mark_failed` and of `pending_channels` (see below) |
| `intake_mattermost` | Mattermost, two faults, nobody posts during the handover, nobody edits | `TypeOK`, `NoLoss`, `AcceptedInOrder`, `EveryPostArrives`, `SweepsRunDry`: posts get in, in order, none is passed, and the cursor comes to rest at the last one |
| `intake_slack` | Slack, a fault, a redelivery, edits, concurrent envelopes | `CursorStored`, `MissedIsSwept`: the cursor is at a stored event wherever `submit()` is cut off, and the sweep brings what the cursor has not passed |
| `relay_three` | three channels, two posts besides one older than the bridge, at most one of them top-level, a fault at any step | `ThreadsMatch`, `Delivered`, `ComesToRest` |
| `relay_revival` | two channels, bots relayed, two posts besides one older than the bridge, at most one of them top-level, an edit, a deletion, a fault at any step, `dlq --requeue` at any moment | `NoLoop`, `LinksSound`, `ExactlyOneCopy`, `RevivedDelivered` |
| `attachments` | a message with three files (one fits, one too large, one of unknown size) to a target of each kind, with or without `relay_files`, three faults at any call or before `mark_done`, two edits | `TypeOK`, `NothingVanishes`, `NoticeTruthful`, `BodyCrosses` |
| `lifecycle` | two workspaces, four jobs, `run` or `status`, two failures or interrupts at any step, a signal at any time | `LeftOpen`, `UsedWhileOpen`, `JobsComeBack`, `StopEnds` |
| `topology` | seven files over five channels and two bridges, two edits of the file, a bridge and a command on one database, a failure | `OneBridgePerChannel`, `StartRepeatable`, `MigrationsOnce`, `CursorsKept`, `ComesUp` |
| `name_cache` | both platforms, two readers, two users in a cache for one, two changes of a name, two failures | `CacheBounded`, `NamesRecent`, `StaleIsExplained` |
| `rate_gate` | three workers, two channels, two restarts of the pipeline, sleepers woken late | `Spaced`, `WaitBounded` |

Type invariants, `HealthTruthful` of `Lifecycle` and `RoutesHaveRows` of `Topology`
are proved for all instances and not repeated in runs, where a proof module is
there.

In one run TLC finds a statement of the repository violated (quoted in
`PROJECT.json`, `findings`): `pipeline_workers_return` – after one error of
`mark_failed` no worker is ever started again, since `_running` is not cleared.

### What the passing settings leave out, and why

The passing runs switch off what is known to break their properties, so that the
rest of the design is checked for other causes. Each row can be reproduced by
changing the named constants in the cfg of the run.

| Run and change | Breaks | Cause |
|---|---|---|
| `pipeline_queue`, `Faults` with `"claim_reply"` | `ChannelFIFO`, `NoStrandedRow` | a claim whose reply is lost leaves its row 'processing' without an owner until `run()` starts again (`worker.py:117`) |
| `pipeline_queue`, `Faults` with `"mark_done_reply"` | `DoneIsFinal` | `_fail` puts a row back that is already 'done' (`worker.py:138`) |
| `pipeline_queue`, `Faults` with `"mark_failed"` or `"pending"` | `EveryEventSettles` | the worker task or `run()` ends with the error, and no worker comes back (`worker.py:106`; run `pipeline_workers_return`) |
| `intake_mattermost`, `QuietHandover = FALSE` | `NoLoss` | a post between backfill and connection is passed by the cursor (`app.py:163-165`, `app.py:177`) |
| `intake_mattermost`, `FirstRun = TRUE`, no deadlock check | `NoLoss` | without a cursor an outage is never backfilled (`app.py:171`) |
| `intake_mattermost`, `Platform = "slack"` | `NoLoss` | after a silent reconnection the next event moves the cursor past the outage (`slack.py:267`) |
| `intake_slack`, `Replies = TRUE` | `MissedIsSwept` | `conversations_history` has no replies to older parents (`slack.py:534`) |
| `relay_revival`, `SelfKnown = FALSE` | `NoLoop`, `LinksSound` | guard 2 alone does not stop a loop: it races with `record_replica` (`links.py:172`; `loopguard.py:51` and `src/README.md:30` count on it) |
| `relay_three` with `Converged` asked | `Converged` | a reply whose parent has no counterpart in the second target yet is tried again, and posts at the first target once more (`relay.py:98`, `relay.py:285`) |
| `attachments`, `faults["notice"] = 0` dropped from `NothingVanishes` | `NothingVanishes` | the error of the edit that names the lost files is suppressed (`relay.py:175`), contrary to `src/README.md:46` |
| `attachments`, `~p.edited` dropped | `NothingVanishes` | `_on_edited` sends the new text without the notice (`relay.py:308-312`) |
| `attachments`, `faults["share_reply"] = 0` dropped from `NoticeTruthful` | `NoticeTruthful` | the third call has hung the file on the message and its answer is lost (`slack.py:513`) |
| `topology`, `Blocked` dropped from `ComesUp` | `ComesUp` | see below |
| `name_cache`, `excused` dropped from `StaleIsExplained` | `StaleIsExplained` | a late answer, a lost event or one applied out of order leaves an old name up to the TTL, where `names.py:9` expects it to be refreshed at once |

Consequences of the code that need no property of their own, met while modelling:

* **Pipeline.** A wake-up that falls between the claim's answer and `clear()`
  (`worker.py:123`) is lost, and the event waits for the poll (`worker.py:28`).
* **Relay.** With one target, too, a failure after the post repeats it
  (`relay.py:113`; `docs/다자간연결통신을고려한_설계고도화.md:76-77`). A second copy that a
  retry has made is linked in its turn or not at all, so an edit or a deletion
  reaches only the copy that `replica_in` returns. A `message_created` that is
  given up is not reposted at top level. `Converged` therefore speaks of two
  channels and of behaviours without a fault, where it counts the copies;
  `Delivered` asks for one good copy in all of them.
* **Revival.** A creation that is revived after a later edit or deletion of its
  message was settled posts the stale text, or a copy nobody deletes
  (`outOfTurn`).
* **Attachments.** A transfer that fails with something else than an
  `AdapterError` – no JSON in the answer (`mattermost.py:237`) – takes the whole
  event with it, contrary to `relay.py:211-213`; every retry uploads the files
  again, and those of the failed attempt stay on the Mattermost server without a
  post. A deletion on Slack removes the post but not its files (`relay.py:323-339`).
* **Mattermost requests.** A total timeout of `aiohttp` is a `TimeoutError`, no
  `ClientError`, so `_request` (`mattermost.py:119-134`) lets it through: the
  fetch of the server's configuration can stop a start that `mattermost.py:87` means
  to let pass, and a name lookup can end the listener.
* **Lifecycle.** `LeftOpen` lists what a process leaves open. Slack's `listen()`
  disconnects its client and sets `_socket = None` on its way out
  (`slack.py:271-274`), so `close()` (`slack.py:118-123`) never closes one, and every
  end of the listener leaves another. An adapter whose `open()` fails after it has
  made its session is never closed (`app.py:88` against `app.py:93-95`). `_release`
  catches an `Exception`, which a cancellation is not, so an interrupt of a start that
  is being rewound leaves the rest open; `status` stops closing at the first error
  (`cli.py:70-73`). Slack's tasks per envelope belong to no group and may meet a closed
  pool (`slack.py:249-262`). The first restart of a job waits twice `min_backoff`. The
  exception of a job with `restart=False` is dropped, where the docstring of
  `run()` has it end the bridge; no job is added that way.
* **Topology.** A channel that moves to a bridge earlier in the file, that two
  bridges swap, or that belonged to a bridge removed from the file violates
  `UNIQUE` at every start (`Blocked`): `_persist()` goes through the bridges in
  order, and the rows of a removed bridge are never deleted (`router.py:167-168`). The same channel by name and by id in one
  bridge becomes one endpoint with two routes; two teams' channels of one name
  are rejected (`config.py:125-126`). `status` stores a changed file under the
  running bridge, whose cursor writes then violate the foreign key. A channel that
  moves loses its cursor. Nothing locks the migrations: of two processes that start
  at once on an empty database one fails.
* **Rate gate.** The lock is released before `chat.postMessage`, so two posts may
  arrive closer than the interval, or in the other order. The SDK's own retries,
  edits and deletions do not pass the gate.
* **Intake.** Stream and backfill give one Slack event two keys (`slack.py:383`,
  `slack.py:556`), where `store/inbox.py:7-10` counts on one, and a backfill returns an
  edited Mattermost post as a new one, under another key (`mattermost.py:439`): such a
  message is taken in twice. A backfill of Slack asks for 200 messages and does not follow
  `next_cursor` (`slack.py:529`); edits and deletions of an outage are never
  relayed (`mattermost.py:437`).

### Bounds

| Bound | Limits | Why it is enough |
|---|---|---|
| `MaxFaults` 1–3 | faults of a behaviour | one fault reaches each error path, two a fault during the recovery from another, the third repeats it |
| `MaxRevivals` 1, `requeued` | DLQ commands | a second one acts on rows of the same kind |
| two events in one channel | events of the pipeline | order needs two, a third adds no new pair. Channels share only `_running`, the task group and the process; `pipeline_workers_return` has two, and the proofs any number |
| `MaxAttempts` 2 | attempts | one retry and one giving up |
| `MaxLog` 3 | log of a channel | a post taken in, one missed, one that moves the cursor |
| `MaxResends` 1 | redeliveries | a resend only meets the key of its first arrival |
| `MaxPosts` 2, `MaxEdits` 1, `MaxDeletes` 1 | users of the relay | a post and a reply to it or to its copy, an edit that races with a deletion |
| `MaxRoots` 2 | users' top-level messages, the old one included | a post and a reply, to it or to the old one; a second new thread would share with the first only the queues and the workers |
| two and three endpoints | a bridge | three is the first size with a partial fan-out |
| three files, `Cap` 2, `MaxEdits` 2 | attachments | one file of each fate, several of them at one target; an edit of each copy |
| two workspaces, `MaxBackoff` 3, `MaxShortRuns` 2 | lifecycle | one open adapter while the other fails; the delay is doubled, capped and reset |
| five channels, seven files, `MaxEdits` 2 | topology | a file for each way a channel changes its bridge or its spelling; the second edit brings a channel back or moves it on |
| `Files` 2 | migrations | a process that is between two files while the other starts |
| `Ttl` 3, `Latency` 1, `MaxSize` 1, two changes | name cache | an entry outlives an answer and expires; a second user empties the cache; a late event brings the middle one of three names |
| `Interval` 3, `Lateness` 1, three workers | rate gate | a second sender may find any part of the interval gone; with three the order in the queue counts |

`CHECK_DEADLOCK FALSE` stands where the system really stops: in the relay's runs
and in `attachments`, when the users have used up their posts and edits, in
`lifecycle`, when the process has ended, and in `topology`, when a file that the
program rejects is edited no more. In the other runs sweeps, polls, restarts and the
clock never stop, and TLC looks for deadlocks.

### Fairness

* `Pipeline`: weak fairness of each worker's step, of the job and of each pending
  `submit`. The event loop runs every ready task, statements return, sleeps end.
  The job's fairness includes `Start`: a dead process is started again (the compose
  file's or an operator's restart). Nothing forces events, faults or DLQ commands.
* `Intake`: weak fairness of the two jobs and of `Resume` (the SDK reconnects, the
  supervisor restarts, `_reconciler` sleeps and goes on). `ListenerStep` includes
  what the listener submits.
* `Relay`: weak fairness of the workers together: as long as some worker can go on,
  one does. That is less than what `Pipeline` provides, which is fair to each.
* `Lifecycle`: weak fairness of the main task, of the start of each job after its
  delay and of its cancellation. Nothing forces a signal, or a job to end.
* `Topology`: weak fairness of the steps of the bridge's start: a bridge that is not
  up is started again. Nothing is assumed of the other process.

`Revival`, `Attachments`, `NameCache` and `RateGate` state safety only; that a
revived row is settled is `EveryEventSettles`, with its DLQ command, and how long a post
waits at the gate is the invariant `WaitBounded`. Faults are bounded in number;
"eventually" means once they have stopped.

## Proofs

Theorems hold for every set of events, channels, endpoints, users, senders,
workspaces and configurations, every limit, interval and number of faults and of
users' actions. They rest on the assumptions about the constants stated in the
modules; where a theorem excludes a kind of fault or a setting it says so as an
assumption of its own.

| Module | Theorem | Statement |
|---|---|---|
| `PipelineProofs` | `TypeCorrect` | `Spec => []TypeOK` |
| | `SingleWorker` | `Spec => []OneWorkerPerChannel` |
| | `RepeatsBounded` | `Spec => []RepeatsNeedFaults` |
| | `AttemptsBounded` | `Spec => []RetryBudget` |
| | `ChannelOrder` | `Spec => []ChannelFIFO` without lost claim replies |
| | `RowsHaveOwners` | `Spec => []NoStrandedRow` without lost claim replies |
| | `DoneForGood` | `Spec => DoneIsFinal` without lost `mark_done` replies |
| | `PipelineIsDurableQueue` | `Spec => ImplementsQueue` without either |
| `IntakeProofs` | `TypeCorrect` | `Spec => []TypeOK` |
| | `CursorAtStored` | `Spec => []CursorStored` |
| | `NothingPassed` | `Spec => []NoLoss` in the setting `Quiet` |
| | `InOrder` | `Spec => []AcceptedInOrder` in the setting `Quiet` |
| `RelayProofs` | `TypeCorrect` | `Spec => []TypeOK` |
| | `LoopsStopped` | `Spec => []NoLoop` if every adapter knows its own id, or bots are not relayed |
| | `LinksAreSound` | `Spec => []LinksSound` under the same assumption |
| | `RepliesPlaced` | `Spec => []ThreadsMatch` under the same assumption |
| | `PostsDelivered` | `Spec => []Delivered` under the same assumption |
| | `RevivalTypes` | `RevivalSpec => []TypeOK` |
| | `RevivalLoopsStopped` | `RevivalSpec => []NoLoop` under the same assumption |
| | `RevivalLinksSound` | `RevivalSpec => []LinksSound` under the same assumption |
| | `RevivalRepliesPlaced` | `RevivalSpec => []ThreadsMatch` under the same assumption |
| | `RevivalDelivers` | `RevivalSpec => []RevivedDelivered` under the same assumption |
| | `RevivalCopiesOnce` | `RevivalSpec => []ExactlyOneCopy` under the same assumption, for at most two endpoints |
| `AttachmentsProofs` | `TypeCorrect` | `Spec => []TypeOK` |
| | `FilesAccounted` | `Spec => []NothingVanishes` |
| | `NoticesTrue` | `Spec => []NoticeTruthful` |
| | `BodySent` | `Spec => []BodyCrosses` |
| `LifecycleProofs` | `TypeCorrect` | `Spec => []TypeOK` |
| | `OpenAccounted` | `Spec => []LeftOpen` |
| | `JobsUseOpenResources` | `Spec => []UsedWhileOpen` |
| | `HealthReported` | `Spec => []HealthTruthful` |
| `TopologyProofs` | `TypeCorrect` | `Spec => []TypeOK` |
| | `MigrationsRunOnce` | `Spec => []MigrationsOnce` |
| | `ChannelsUnique` | `Spec => []OneBridgePerChannel` |
| | `RoutesStored` | `Spec => []RoutesHaveRows` |
| | `StartsRepeatable` | `Spec => []StartRepeatable` |
| | `CursorsStay` | `Spec => CursorsKept` |
| `NameCacheProofs` | `TypeCorrect` | `Spec => []TypeOK` |
| | `CacheLimited` | `Spec => []CacheBounded` |
| | `WrongNamesEnd` | `Spec => []NamesRecent` |
| | `WrongNamesExplained` | `Spec => []StaleIsExplained` |
| `RateGateProofs` | `TypeCorrect` | `Spec => []TypeOK` |
| | `PostsSpaced` | `Spec => []Spaced` |
| | `WaitsBounded` | `Spec => []WaitBounded` |

**Pipeline.** `Structure` (types, one registered worker per channel in an open
group, a worker holds a claimed row of its own channel, ids grow) is inductive by
itself. The others strengthen it. `ChannelFIFO` is not inductive, since a row
that is 'done' while its worker believes that `mark_done` failed goes back to
'pending'; `InOrder` adds that a row that was overtaken is not held.
`RepeatsNeedFaults` needs a ledger (`RepeatsPaid`): a row that is open has as many
handlings as faults that undid them, plus the one about to be marked. `RetryBudget`
needs `AttemptsPaid`: a waiting row has an attempt left. The refinement adds
`HeldIsProcessing` and `HandledBeforeDone`, and maps each action to a step of
`DurableQueue` or to a stutter.

**Intake.** `Typed` says that every event in the stream, in a backfill, in a call of
`submit()` or in the inbox is one that the log can give rise to (`FromLog`). The
set only grows with the log, which the answer of a backfill does not: an edit moves
a post in it. `CursorAtStored` needs to know of each call of `submit()` that what it is
about to write is stored (`Stored`); when `enqueue` finds the key there already, the
row with it has the same place in the log (`KeyPlace`). The two other theorems are
about the setting `Quiet` of the run `intake_mattermost`: Mattermost, a stored cursor,
no post between the backfill and the connection – each is needed, as the table of
settings shows – and no edits, which would put rows into the inbox that are no posts.
Neither property is inductive. They follow from a statement about both: that
the inbox is the beginning of the log and the cursor not ahead of it (`Prefix`); that
is kept only if the next event either job submits is at most one further. So `Covered`
says that nothing is missing before what a job has yet to submit (`Pending`), before
what the socket has pushed (`Flowing`), and up to the end of the log while the socket
is open (`Attached`) or about to be opened (`Handed`). A crash or restart empties a
job's part of it and leaves the other's as it was.

**Relay.** `Structure` joins types, threads, rows, the queues
(`Known`: an event concerns a message of the queue's own channel) and the local
variables of each handler (`Handler`). Every step of a worker leaves the other
handlers their event, since events are only appended behind it, and only adds
messages (`Moves`, `Grown`, `Extends`); one lemma then carries the invariant for the
others, and each action needs a lemma about its own handler only. `NoLoop` is not
inductive: `Guarded` adds that a handler past its guards works for a user's message,
which is what guard 1 or the policy for bots buys, and that a message is a copy
exactly if the bridge wrote it. `LinksSound` needs `Owns`: while a handler holds a
group, the origin of that group is there. It survives the deletions of other
channels because a group has one origin (`OneOrigin`) and only the worker of that
origin's channel deletes it. `ThreadsMatch` needs `Placed`: between its two queries
and its post a handler holds the parent's group, whose rows all stand for one
message (`GroupRoot`); others may delete the group meanwhile, but a group id is
never used again, so what the handler finds there is the parent's counterpart.
`Delivered` speaks of empty queues only; `Pending` says what must be so before.
For each user's message: of the events waiting for it the creation is the first, a
deletion the last, and the last one says how the message is now (`Ordered`, and
`Fits` for the events not yet there); a message that was copied has a linked copy
in every other channel until it is deleted, and once no event of it is waiting
each copy shows it as it is (`Kept`); a handler has done for the channels it has
passed what it is there to do (`Progress`, `Work`). A message some event of which
was given up is excused. A worker writes only copies, rows and news of the message
it works for (`Effect`, `Own`), so a step needs a look at that message alone
(`PendingFromOwn`). What a handler has done when it ends is the same whether
`mark_done` settles the event, fails, or is cut off by a crash (`Ended`); if the event
is still there it is handled a second time and meets what the first has left, for a
deletion perhaps a copy without rows (`Covered`). The row of `relay_revival` with `SelfKnown = FALSE`
shows that the assumption is needed.

**Revival.** A step of `Relay` inside `Revival` is a step of `Relay`, so the lemmas
about the workers are used again; `Shelved` adds that the rows on the side are
events of their channel. `Reorder` and `Resume` change only the queue of a channel
whose worker has nothing in hand, which no part of `NoLoop`, `LinksSound` and
`ThreadsMatch` looks at (`ArrangedFacts`). For delivery, `Pending` takes two
parameters: the events that have their turn before the queue, and the messages
nothing is promised for. In `Relay` the first are none. In `Revival` (`Turns`) they
are the dead rows before the command, as they may still come back, and the revived
rows after it; a message that dies again after the command is excused. The rows
keep the order of their ids (`Sorted`), so putting them before the queue keeps the
events of a message in order. `Comes` is why the result is the newest text: a
message with a revived event is told of by an event that waits behind it, or by the
last of the revived ones. It holds after the command for the messages outside
`outOfTurn`. That set names the newest event and not just a later one: of two edits
one may be dead and the other settled. `ExactlyOneCopy` needs
`Single`: without a fault, a message whose event of posting is still queued has no
copy but the one its handler has just posted. That is so for two channels (`Short`: one
target at a time). With a third, a reply waiting for its parent's copy in one target is
tried again from the first target and posted there twice, so the theorem says how
many endpoints it is about.

**Attachments.** Two parts strengthen the properties. `Accounted` says where each file
is that the loop has passed: with a target that takes files first it has an id or an
entry (`FilesFirst`); with the other it hangs on the copy or has an entry in one of
the two parts of the notice, and exactly the files that fail `_precheck` are in the
first (`PostFirst`). `NothingVanishes` follows when the copy is recorded, as the two
parts together name what it lacks; `NoticeTruthful` since no file is done twice
(`NextUnnamed`). `Counted` relates copies to faults: a channel has at most one copy
for each fault that ended an attempt, and one more if this attempt has posted there
(`Sent`). What `_precheck_all` returns is a list built file by file, a recursive
function here; that it names the files that fail, each once, is proved by induction
over the number of files (`PrecheckAllNames`), with a set in the place of the
predicate (`SetInduction`, from `WFMin` of the library).

**Lifecycle.** `AdaptersFilled` says how much of `Needed` is in the dict at each
step of the start and `AdaptersOnce` that no adapter is there twice; `PoolOpen` says
when the pool must be there, `SessionsOpen` and `SessionsKnown` that the sessions are
those of the adapters in the dict, of the one being opened and of those that failed to
open or to close, and `FailedOpen` that what refused to close is still open and no longer
in the dict. `LeftOpen` is what they say at the end, once `JobsSupervised` has told that
Slack's clients are those of listeners, of now or before. That jobs move only under
the supervisor, and have ended when it has, also gives `UsedWhileOpen`, since the
release begins only then.

**Topology.** `Migrated` says that the files applied are `1..n` in order and that what
a process has seen is a prefix `1..k` of them, so the next one it takes is either
the next in the table, or is there already and fails. `Rows` joins the uniqueness
of the rows, that of the running bridge's routes, and that the rows of the bridges
stored last are those of their configuration; its step is two lemmas about
`Persist`: rows that were unique are so after a configuration without a conflict
is stored (`StoredRowsUnique`), and what was stored can be stored again
(`StoredAgain`).

**NameCache.** `Ages` says of each cached name, answer and event that it is no older
than the time since its user gave the name up: an entry at most `Latency` more than
its own age. `NamesRecent` follows, since a hit is younger than `Ttl`. `Explained`
extends `StaleIsExplained` to expired entries and to the newest of the events on
their way.

**RateGate.** `SleepCovers` says that who holds the lock sleeps for at least what is
missing to the interval since the last post, which a cancellation does not change.
`WaitBounded` is not inductive; `TurnsPassed` bounds the waiting time by the turns
of those who were before a sender and have passed, plus the holder's time so far.
It needs `OnePlace`: nobody is twice at the gate.

Only model-checked: liveness (`EveryEventSettles`, `EveryPostArrives`,
`SweepsRunDry`, `MissedIsSwept`, `ComesToRest`, `JobsComeBack`, `StopEnds`,
`ComesUp`), which is beyond the prover. Every invariant a run checks is stated by a theorem.

## Not modelled

Text conversions, logging, the JSON form of events, the entry point and the HTTP
and SDK calls themselves hold no state of the bridge. The retries inside one call
of the HTTP session or of `slack_sdk` are one call here. `requeue_stale`, `counterparts`,
`group_members`, `NameCache.pop` and `LoopGuard.register` have no caller; nothing
gives the reason "unsupported" to a file, since both adapters take uploads, and
nothing reads Slack's `_bot_user_id`. Reactions are only logged by the program.
Users who edit or delete a copy are left out: such an event carries the bridge as
author and is dropped by guard 1. `spikes/` are trials and
end-to-end scripts against real servers, not parts of the program.

## Plan

Done: all components with state, each in a module of its own; the compositions
inbox–relay (`PipelineRefinement`, `Revival`) and the proofs above. Left:

1. `Intake`: deletions in the stream, the page size of Slack's backfill, several
   channels of one workspace behind one listener.
2. `Revival` with two uses of the command, and with three channels under a fault.
