# A TLA+ model of dscode

dscode (`bridge/grok-leader`, published as `@hqzhao95/dscode`) joins a vendored
terminal UI to a native coding agent. This directory holds TLA+ modules of its
core logic, the configurations with which TLC checks them, and proofs that the
TLA+ proof system (TLAPS) checks.

    tlc -workers 2 -config PromptQueueSafety.cfg MCPromptQueue.tla
    tlapm PromptQueueProofs.tla

`PROJECT.json` is the index: components, runs, the source lines of every
definition, the mutated forms of definitions that each property must reject,
findings, hazards and theorems. Paths below are relative to
`src/bridge/grok-leader/` unless they start with `docs/`.

## 1. The system

    Grok TUI (Rust, vendored)
        |  leader protocol: framed ACP over a Unix socket
        |  docs/grok-leader-protocol.md
    leader: src/*.ts, one Node process, one event loop
        |  transport -> routes -> session lifecycle -> session registry
        |                              |                    |
        |                              |   controllers per session: prompt queue,
        |                              |   output, interactions, presets, children, ...
        |  direct calls and event subscriptions
    native agent DSH (an external package): agents, inbox, turns, tools, logs

    bin/*.mjs: launcher, update, uninstall. Other processes, which share with the
    leader only the installed profile on disk and its lock.

The leader is single threaded. A handler runs from one `await` to the next
without interruption, so interleavings are those of awaits, callbacks, timers
and the native agent's events. The tools in `bin` are processes that interleave
at every system call and may be killed in the middle.

### Inventory

| component | state it keeps | what is hard, and what makes it correct | modelled by |
|---|---|---|---|
| **Prompt queue** `prompt-queue.ts`, `queue-controls.ts` | admission chain and epoch, preparations, rows, edit holds, steered requests, running slot, promotion wait | preparation, turn ends, idle waits, cancels and disposal interleave; one owner per request, order of admission, no stranded queue, prompts start on an idle agent | `PromptQueue` |
| **Session registry and owned work** `session-registry.ts`, `session-work.ts`, `session-lifecycle.ts` | published owners, retiring ids, teardowns, borrowed records, timers, accepted work | a session is created and replaced over many awaits; one agent per session, no session without client, no lost work, drains end | `SessionRegistry` |
| **Session discovery** `session-discovery.ts`, `session-list.ts` | shared and settled listings, an index of rows with lanes and revisions | pickers share reads of logs that change; rows are no older than their listing, announced sessions are listed, no handle is left open | `SessionDiscovery` |
| **Commands** `session-commands.ts` | the command list under construction, accepted lines | a list is read over two awaits while its sources change; what is published is of one moment, the last change is shown | `SessionCommands` |
| **Product update transaction** `bin/update.mjs`, `bin/launcher-files.mjs` | profile entries, stage, backup, journal, profile lock | kills, power loss, failing calls, concurrent processes; always one whole release | `AtomicInstall`, `UpdateTransaction` |
| **Launcher and maintenance tools** `bin/bootstrap.mjs`, `bin/dscode.mjs`, `bin/launcher-files.mjs`, ... | places of the profile, stable entry point, link, code of a process | launches, updates and an uninstall overlap and die; the link leads to code that runs, a TUI starts on a whole release | `Launcher` |
| **Plugins and settings** `profile-plugins.ts`, `plugin-bundles.ts`, `plugin-rows.ts` | packages, manifest, bundles, rows of the profile patch | an install that fails must be undone by calls that fail; what boots next can be read, answers are about what is saved | `ProfilePlugins` |
| **Interactions and reverse requests** `native-interactions.ts`, asides, `host-services.ts` | open questions and approvals, permission mode | late answers after a cancel or a reload, half-applied permission changes; nothing is allowed that was not granted | `Interactions` |
| **Leader transport and lifecycle** `leader-transport.ts`, `leader-lifecycle.ts`, `codec.ts` | clients, frames, pending reverse requests, idle generation, quiesce and disposal promises | five ways for a reverse request to end at once; the idle exit decides after a drain; every owner drains before the process exits | `LeaderHost`, `Frames` |
| **Session output and turn notices** `session-output.ts`, `projection.ts`, `image-output.ts`, `turn-notices.ts` | replay position, followed attempt, queue of updates, image reads, usage totals; folds over events | replay overlaps live events and image reads; exactly once, in order, right totals, nothing after retirement | `SessionOutput`, `TurnNotices`, `Meters` |
| **Models and presets** `model-catalog.ts`, `session-models.ts`, `session-presets.ts` | cached catalog with overlapping reads, discoveries, writes; choices of sessions; composition of an agent | reads settle out of order, a switch over awaits must roll back; the agent is composed as its log says | `ModelSelection`, `SessionPresets` |
| **Remote channel** `remote-channel.ts` | slots and lanes of each client, calls that ran into their timeout | slots that free themselves late; bounds hold, order is kept, nothing starts for what is gone | `RemoteChannel` |
| **Children, tasks, execution** `native-children.ts`, `native-tasks.ts`, `child-history.ts` | what the client was told of each child, log reads, workflow members; reminders and jobs | events, listings, log reads and stops overlap; an ending that is told has happened, the pane follows | `NativeChildren`, `NativeTasks` |
| Session lifecycle and input | nothing besides requests in flight | users of the registry, the output and discovery | with those |
| Wire vocabulary and composition | none | names, types, wiring | - |
| Browser helper, ssh wrapper | external processes | pure I/O | - |
| Build, release and patch scripts | - | not part of the running program | - |
| Native agent DSH | external | its events and calls are modelled where a component uses them | - |
| Terminal UI | external, vendored | a client that may send anything at any time | - |

How they interact: the transport hands each ACP request to the routes, these to
the lifecycle; the lifecycle calls the registry to reserve, publish or replace
a record. A record's `retire()` disposes its prompt queue and its other
owners. The queue calls the native agent (`followup`, `steer`, `cancel`,
`whenIdle`) and is called back by the agent's events. `flush` of the session
output stands between the end of a turn and `prompt_complete`. The registry
suspends a queue during a reload through `isLive()`. The lifecycle of the
leader closes registry, catalog, transport and the owners in one step. The
services (remote calls, children, tasks, commands, discovery) share with the
rest only whether a session and the leader are live.

## 2. The modules

| module | stands for |
|---|---|
| `PromptQueue` | the queue of one session, its client, its host and the agent it drives |
| `SessionRegistry` | the records of one leader and what they own |
| `SessionDiscovery` | the session pickers and the cold inspections |
| `SessionCommands` | the command list of a session and the lines it runs |
| `AtomicInstall` | what an update promises: whole releases and single edits, at once |
| `UpdateTransaction` | processes that install releases into one profile; implements `AtomicInstall` |
| `Launcher` | entry point, launches, upgrades and uninstalls around that transaction |
| `ProfilePlugins` | the commands and switches that change the plugins of a profile |
| `Interactions` | the asks of one session's native agents, its permission mode and the clients that answer |
| `LeaderHost`, `Frames` | the socket with its clients, idle exit and shutdown; the framing of the stream |
| `SessionOutput`, `TurnNotices`, `Meters` | what a session sends to its client; the notices beside it; the cache percentage |
| `WireFormats` | what `Frames` and `Meters` promise, over the inputs of an instance |
| `ModelSelection` | the catalog of providers and models, and the choices of the sessions |
| `SessionPresets` | the preset of one session: opening, reloading, switching |
| `RemoteChannel`, `NativeChildren`, `NativeTasks` | calls through the leader, child agents, the Tasks pane |
| `MC*` | the instances TLC checks |
| `*Proofs` | theorems and proofs about the modules they extend |

**Compositions.** Where components share state they are one module (the client,
the host, the agent and the queue; transport, sessions and lifecycle; catalog and
choices). Where they share none, a product would only multiply their states:
`MCSessions`, `MCProfile`, `MCLeaderWire` and `MCLeaderServices` hold several
modules side by side, and a variable chosen at the start (`side`, `subject`,
`scenario`) says which one moves in a behaviour, so that state spaces add up. Some
of them also split one module into scenarios, each with all actions that its own
question needs.

### PromptQueue

A request is named by its place in the order of arrival. `slot`, `retired`,
`outdated` and `preparations` are the admission: the promise chain
`promptAdmissionTail`, `retire()`, the slots of an older `admissionEpoch`, and
the content preparations under way. `queue`, `held`, `steered`, `run` and
`promo` are `PromptState`; the phases of `run` are the awaits of `runPrompt`:
*active* (turn not settled), *draining* (cancelled, waiting for the activity to
end), *flushing* (output not flushed). `view` is the last `x.ai/queue/changed`.

One action per handler. `Submit`, then `Admit` (the turn of a slot in the
chain), `Prepare` (the end of `prepare()`, and all of `enqueuePrompt`: send-now,
steering or a row), one action per row control, `Cancel`, `CancelPrompt*`,
`Suspend`/`Resume` (a reload and its failure), `LoseAgent`, `Dispose` and
`DisposalDone`, `FinishRun` and `PromotionFires` (what follows the awaits).
`Promote` and `Advance` are called by handlers, as in the code, and never stand
alone. The agent (`Agent*`) is modelled from what the queue requires of it.

Left out: the text and version of a row (a control is stale or it is not);
notifications and echoes, taken never to throw or to call back into the queue.
Callbacks of `whenIdle()` run before the event loop can start another turn.
Four things the model keeps because the code does them: a combined follower
settles as cancelled; `hold_edit` for an id that is not queued lingers
(`queue-controls.ts:214`); an idle wait that rejects drops its promotion
(`prompt-queue.ts:302`); a `cancel()` or `steer()` that throws leaves a row whose
request was already rejected (`prompt-queue.ts:325`, `queue-controls.ts:154`).

### SessionRegistry

A record is one `session/new` or `session/load` together with what it owns when
it succeeds. `at` is where the request is: one phase per await of `reserved()`,
`reload()`, `activate()` and `present()`. `owner` is `records`, `retiring`,
`release` (a teardown per record) and `borrowed` (`reloadDrains`) are the maps
of the registry; `reloading` is the suspended input. `pending` and `unsaved`
are the accepted work of `session-work.ts` and what was written since the last
flush and by whom: accepted work, a prompt, or the agent in a turn of its own.
Work that was cancelled may still write until it settles.

The prompts of a record are those of `PromptQueue`; here it counts only whether
the agent runs one, and the disposal of a queue does not wait for an idle
agent. `Wake`, `Persist` and `OwnTurnEnds` are turns that the agent starts for itself
(`prompt-queue.ts:81`): it may start one whenever none runs, also between the waits of
a reload (whenIdle, flush, capture, retire) and inside them. `Flushed` fixes the
end that the capture asks for, and an agent whose store has not come that far is
`short`. Left out: what a fork, a rewind and a
replay read from the log, and the content of a presentation. The code's "initializing"
is derived: a record that is not `"done"`.

### UpdateTransaction

Each process is at a point `pc` of `installRelease` and of `withProfileLock`.
`active`, `prepared` and `backup` are directories, entry by entry; `existed` and
`journal` are the transaction file; `lock` is the profile lock, which the system
drops when its owner dies. `UndoEntry` is one entry of `rollback()`, with a
removal that may be seen half done (`Torn`); `MoveOut` and `MoveIn` are the two
renames of a move. `Fail`, `CommitFails`, `Kill` and `PowerLoss` may strike
between any two calls. What was written without a flush is torn by a loss of
power.

A rename and a journal write are atomic and durable at once. The other users of
the lock (the launcher's saved channel) replace one entry with `atomicWrite`.
Recovery may pass over a dead stage that was still preparing: the model allows
more than the code. Left out: reuse of process ids, a stage removed by half,
the choice and verification of a release.

### Interactions

An ask is an approval, an approval that only a human may give (a browser tool, a
call that a reviewer denied) or a question; a plan review is a question. `at`
is where it is: *accepted* (in `pending`, its `run()` due), *waiting* (a reverse
request of the transport), *settled* (answered or rejected, what awaits it
due), *done*. The two gaps in which a frame of the client can be handled before
the continuation runs are steps of their own: from accepted to `Run`, from
settled to `Continue`. `aborted` are the aborted controllers, `sent` the
transport's pending requests. The session is `owner`, `reloading` and `busy`
(initializing, or its preset changes), moved by `Publish`, `Reload`,
`ReloadFails`, `Retire`, `Disconnect`: what `SessionRegistry` has in detail, cut
down to what an ask can tell. `ModeNotified`, `SetModeFails`, `Publish` and `Discard` change
the permission mode, and each setter may throw, before or after it took effect.
`revoked` is history: the asks that were open when something withdrew them.

Assumed: only the bridge changes the native permission preset; a socket that is
destroyed and its `close` event are one step (`live()` is false, and no frame is read,
in between). The adoption of a mode and the publication of its record are one
step: no other record of the session exists between them. Left out: the texts
of prompts, `rejectionFeedback`, the plan mode itself (nothing here reads it), the
cancellation of queue and work by a failed change (theirs).

### LeaderHost and Frames

`conn`, `clients`, `pending`, `answer` and `aborted` are the transport: a
connection is absent, open, destroyed (its close event is due) or gone, and the
`pending` map of each connection holds the reverse requests that wait. `bound`,
`path`, `errorDue` and `failure` are the server and its socket file, which another
leader may own. `operations` and `teardowns` stand for the sessions: work admitted
for a client, and records that are being retired. `generation`, `timer`,
`draining` and `deciding` are the idle exit: each callback waits for the drain
and then compares its generation; several may be under way. `quiescing`, `cause`,
`owner`, `disposal` and `exit` follow `quiesce()` and `dispose()` of the lifecycle.
One action per handler and per settled promise. `Frames` is the codec as operators: `Header`
and `Encode` are `encodeFrame()`, a decoder is what `FrameDecoder` keeps between chunks, `Turn`
one pass of the loop of `push()`, `Push` the loop, `Receive` a connection with all its chunks. The width of
a header, the values of a byte and the limit of a payload are constants (`FramesAssumption`: every length that is allowed fits into a
header). Left out: the table of routes, the contents of messages, the heartbeat of pollers.

### SessionOutput, TurnNotices and Meters

In `SessionOutput` the durable `log` of the native agent grows while `attempt` streams
`frames`; the record replays a log (`replayed`, `restored`), then follows live events
above `lastSeq`, holds an attempt's text in `stream`, puts updates into `queue`, reads
`images`, waits for a `slow` socket, counts usage, and is retired or disposed of at
any moment. `received` is what the client got. `TurnNotices` keeps the folds of
turn-notices: `output` is what the folds of a live record hold, `cold` what a record
that is loaded now would hold after the same log; `view` and `archive` what the two
clients show. Messages are queued, cancelled, claimed and given back around turns.
`Meters` is `cacheHitPercent()`, from quotients and remainders as in the code: the binary search
(`RoundedInteger`), the decimal in which a small share of misses shows first (`Places`) and its rounding (`Loss`).
Its integers have no width: no value that the code computes exceeds the sum of the tokens by more than a
constant (`scaledDoubleGap` starts from misses that are at most a 200th of it), so doubles hold them exactly.
Left out: the throttled writing status, the decode speed, the wording of tool cards.
Natively assumed: a compaction that ends without error has a summary with its
shadowed count.

### ModelSelection

`route`, `default` are the native settings, `writes` and `news` the settings calls
and the announcements under way, `edits` what other programs changed. `catalog`,
`published`, `snapshot`, `timer`, `discovered` and `probed` are the state of
model-catalog; `reading` and `read` its reads, by generation, which settle in any order;
`selection`, `logged`, `tail` and `shown` the choices of the sessions. `pc` is the await at
which a request, a rebuild, a probe or a pick is. A provider has one model and one route. Left
out: efforts, credentials, sign-in; the request kind `add` is modelled and not instantiated.

### SessionPresets

A record is the request that opened the session together with its agent:
`status`, `composed`, `inTurn`, `changing`, `inconsistent`. `log` and `saved` are
the preset in the log and in the log on disk, `undone` says that a switch was taken back
after it was appended. `pc` is the await of an open, a reload, a switch in place or a
switch by reopening. Natively assumed: a recompose that fails has no effect. A
cold load during a retirement is the registry's subject and excluded here.

### RemoteChannel, NativeChildren and NativeTasks

`RemoteChannel`: `lane` is the queue of a client, `holding` its slots; a call that only
reads may be answered at its timeout while its `invocation` keeps the slot.
`NativeChildren`: the native children are `turns` (a log is its turns, open or with
an outcome), `agentOf`, `running`; `known` is `childStates`, `view` what the client
was told; `tail` and `cut` are the serialised reads of a log. For a live child prefix and
activity are fixed together (`Cut`); a cold one is looked up first and its prefix fixed
after an await (`ColdCut`), when it may run again: `overtaken` are the turns that such a read found open.
`refresh` is the loop of listings, `stop` a
`cancelSubagent()` with the watch for a turn that starts meanwhile; `joined`, `awaited`, `shown`
the members of a workflow, `restored` those that the log held when the session was opened, and `snapshot` the
`snapshot()` of that opening, which shows workflows whether or not its refresh worked. Left out: one-shot children, paging of history, team messages.
`NativeTasks`: `schedule` is Host storage, `round`/`queued` the reads of it, `ask` a
`/reminders` request, `pane` what the client shows; `job`, `output`, `jobSnapshot` and
`kill` a background job whose output may grow after its end. A row of `jobs.list()` is a status and the counters of
the output that was collected (`Row`; external, from `scripts/e2e-observer.mjs:43`,
`e2e-native-controls.mjs:171,184` and `job-output.ts:34`), so that `JSON.stringify([job, true])` changes with late output
and `task_completed` is sent again, although the wired `jobOutputSnapshot` answers with a text, perhaps an empty one, from the start.

### SessionDiscovery and SessionCommands

`SessionDiscovery`: `disk` are versions of logs per `mount`; `listing` is the shared
listing of a store, `reuse` the settled one, `job`, `lane`, `seen` and `revisions` the
index; `picker`, `wait` and `row` a request; `reader` a cold inspection; `heard` and
`announced` what own sessions told. `SessionCommands`: `commands`, `skills` and
`abilities` are versions of what a list is made of, `refresh` what one read has taken so
far, `menu` what the client shows. Left out: the text of rows, the LRU of first prompts,
full-text search, paging; parsing of lines and which native owner a line goes to.

### ProfilePlugins and Launcher

`ProfilePlugins`: `content` is node_modules, `manifest` package.json with its lock
file, `patched` the rows of the profile patch, `holder` the profile lock; `at` is where
a command is, `told` its answer. npm, the manager, the reload of the Loader and
writes fail as `FallibleCalls` and `Applications` say, and an npm that fails may have
replaced the package. `spoiled` marks failures that the code cannot undo. Left out:
settings of plugins, version exemptions, MCP servers; `/browser origins add|remove`.
`Launcher`: releases are numbers, `disk` says which one is in each place, `entry` and `link`
are the stable entry point and the link to it, `transaction` the pending moves (detailed
in `UpdateTransaction`), `phase`, `code` and `wanted` a process, which may be killed at any
step. Left out: reports of doctor, `dscode remote`, the enterprise channel.

## 3. What TLC checks

| run | module | distinct states | properties |
|---|---|---|---|
| `queue_safety` | `MCPromptQueue` | 402,400 | `Ownership`, `NotStranded`, `AdmissionIsSound`, `ClientFollows`, `StartsWhatIsFree` |
| `queue_faults` | `MCPromptQueue` | 178,144 | `StartsAtIdle`, `EveryPromptSettles` |
| `session_registry` | `MCSessions` | 278,224 | `PublicationIsSound`, `ReloadIsSound`, `NothingLost`, `ShutdownReleases`, `ListsTellTruly`, `EverythingEnds`, `MenuTrue` |
| `profile_changes` | `MCProfile` | 256,524 | `Exclusive`, `AlwaysRepairable`, `InstallsAtomically`, `BootSafe`, `CommandsTellTruly`, `LinkLeads`, `LaunchesEndWhole` |
| `interactions` | `MCInteractions` | 230,928 | `QuestionsBelong`, `DecisionsStand`, `AllowedByRight`, `WithdrawnWorkEnds` |
| `leader_wire` | `MCLeaderWire` | 466,010 | `WaitsOnlyForItsClient`, `SocketFile`, `ShutdownComplete`, `FormatsExact`, `ClientSeesLog`, `NoticesTrue`, `OutputEnds` |
| `model_selection` | `MCModelSelection` | 417,011 | `SnapshotTrue`, `ChoiceStands`, `CatchesUp` |
| `leader_services` | `MCLeaderServices` | 576,367 | `RemoteCallsServed`, `ChildrenMirrored`, `TasksMirrored`, `ComposedAsLogged`, `SwitchesAreSound` |
| `update_journal_sync` | `MCUpdateTransaction` | - | violation of `OnlyCopyKept` |
| `model_removal` | `MCModelSelection` | - | violation of `RemovalNeverOrphans` |
| `plugin_rows` | `MCProfilePlugins` | - | violation of `TurnedOffAgain` |
| `newer_tui` | `Launcher` | - | violation of `NewerLeftAlone` |

What they show:

- **Queue.** Whatever the client does with its rows, a request has one owner until it is
  answered, content enters in the order of the requests and nothing cancelled enters, rows
  behind a free slot are held or about to start, the client's snapshot is the queue. With
  failing calls: prompts start on an idle agent only, and every request is answered if turns
  of the agent end; the disposal ends.
- **Sessions.** One agent per session, published for a client that is there; a reload does
  not lose its agent, captures everything that clients asked for, saved, and is never given less than the end it
  asked for, whatever the agent does on its own; no accepted work is lost; a shutdown leaves
  nothing, and requests, suspended input and shutdown end. Pickers get rows that are no older
  than their listing, with every announced session; a disposal leaves no handle. A command list is
  of one moment and catches up; every line ends.
- **Profile.** The update transaction implements `AtomicInstall`, one transaction at a time, and a
  crash at any step leaves what the recovery needs. What boots next can be read and was let in by
  the user; plugin commands say what they have done and end. The link leads to code that runs
  until an uninstall; a TUI starts on a whole release, and every launch ends.
- **Interactions.** Late, stray and withdrawn answers decide nothing; nothing is allowed that was not
  granted by the user or by a bypass; what is withdrawn ends.
- **Wire.** A reverse request waits just while its client's map has it; the idle exit cuts nobody off
  and happens; a shutdown waits for every owner, ends and hides no failure; the socket file of
  another leader is left alone. Frames survive any fragmentation, a length over the limit ends the connection, and
  the cache percentage is the rounding of the rational (`FormatsExact`, which has no state). A client gets the transcript of the
  log once and in order and its notices, with the right totals, and nothing after retirement.
- **Models.** The cached section is the one of the settings but for what is on its way; the choice of a
  session is the last one that was accepted; the catalog catches up, also with a static route that another program removes, though not with a
  discovered one that it moves (see the exceptions), and nothing is published after the disposal.
- **Services.** Slots and lanes of remote calls hold their bounds and order; nothing starts for what has
  gone; calls end. Children: no invented ending of a live child, no step back, members have views, stops are
  answered truly, the view catches up. Tasks: the pane follows reminders and jobs, with output that comes after their end,
  and answers follow the pane. Presets: a live agent is composed as its log names; only blank
  sessions switch; changes end.

**Bounds, and why they are enough.** Three queue requests are the least for one that
runs, one that is combined or steered, and one still in preparation; with two
ids an id must be used again. Two suffice where calls fail, as each
failure concerns one request and the one behind it. For the registry a new session, a load by its
client and a load by another meet on one session: records of different sessions share only the
shutdown and the disconnect. `Runners` bounds turns of their own to the agent that the reload captures. Discovery has one session of its own and one of others, two versions,
two mounts, one trouble and two pickers: one that shares and one that reuses. Three profile entries
cover replaced, deleted and new; two updates and an edit cover recovery of one process by another,
and by itself. Plugin commands: any three of seven over one package, and two rows. Launcher: two of a
launch, an upgrade and an uninstall, one mishap. Asks do not touch each other: one of each kind
that differs in its handling, with three records for a reload and a takeover. The leader has two
connections (one that leaves last, one that comes), one reverse request, one faulty owner. Output: logs of
at most three events and two attempts of one chunk, so that a replay can meet a live event, a settled
attempt and an image; notices: three messages, two compactions, two commands, two turns. Formats: two
payloads of up to two bits behind headers of two bits, or three where one may be empty, with every cut, the one length over the limit;
prompts around the thresholds (the proof is for all). Models: two acts out
of five per behaviour, with every fault. Services: lanes of one slot and one waiter with three calls of
one client; a child of two turns in two agents beside a workflow member, new or restored from the log, one trouble; a reminder with
two writes; four presets through a creation, a load, a reload and a switch.

**Deadlock** is not checked because bounded requests end, the leader is shut down and processes exit;
that they do so properly is what the liveness properties say.

**Fairness** is weak fairness of what the event loop or an awaited call owes, never of a client, of the
model or of a person:
queue (`Admit`, `Prepare`, `FinishRun`, `PromotionFires`, `DisposalDone`: callbacks of settled
promises, preparations and flushes end; that turns end is an antecedent of `EveryPromptSettles`);
registry (awaited calls settle, cancelled work ends and so do turns that an agent started itself, without which no
`whenIdle()` would return; work that nobody cancels may run for ever);
discovery, commands and tasks (reads and calls settle); interactions (`Run`, `Continue`,
`DisposalDone`; nobody has to answer);
leader (queued events, the idle timer, settled drains, owners' disposals, work that was cancelled,
closes of destroyed sockets);
output (the drain of the queue, the end of a replay, the disposal); models (`Progress`: a pending step
of some request, read or write); presets and remote calls (each request's next step);
children (the refresh, the snapshot, the stop, reads of logs, the deadline, the disposal; no child has to do anything);
plugins and launcher (each process's next step, unless it was killed).
The update transaction alone has no liveness property: a killed process never comes back.

**Mutants.** Each property of a passing run has a changed definition, written
beside the original in the model and marked "Mutant", with which the run must
fail. They are the bugs the property is for: a hold that folding forgets, a slot
that overtakes, a teardown that does not wait for accepted work, a journal written
after the first move, an activity that is read after its log.

### Findings

1. `bin/update.mjs:535` says that a failed rollback keeps the only
   good copy and that the next lock owner recovers it. `writeJournal('committed')`
   (448) renames the journal into place and then syncs its directory
   (`launcher-files.mjs:15-16`). If that sync throws, `commit()` rolls back while the
   journal on disk already says *committed*. If this rollback fails too, or the process
   dies in it, the stage is taken for a finished one (540-541, 345-349) and removed
   with the backups that had not been put back (`update_journal_sync`).
2. `model-catalog.ts:478-480` says that a removal can never orphan the active selection. The check
   for sessions that use the provider is made before the settings write is awaited (505), and a choice
   does not look for a removal under way: a session keeps a model of a provider that is gone
   (`model_removal`).
3. `plugin-rows.ts:136` says that a row that cannot activate must not stay enabled, and the answer (144)
   that it was turned off again; the result of the switch-off (138) is not looked at (`plugin_rows`).
4. The header of `bin/dscode.mjs` (25-26) says that a newer or -dev TUI is left alone. A launch of a managed
   release asks only whether everything is exactly its release (530, 539) and else replaces it
   (`newer_tui`).

### What the models make exceptions for

Each is a weakness of the code that a property names as its exception, so that it says the rest.

- Queue: a `cancel()` or `steer()` that throws leaves the row of a request that was already rejected
  (`prompt-queue.ts:325`, `queue-controls.ts:154`); a `followup()` that throws leaves the client's snapshot
  behind; an idle wait that rejects drops its promotion (302).
- Registry: what an agent writes in a turn of its own after the flush of a reload (`session-registry.ts:158`) is not in
  the log that is replayed, and the retirement of that record (165) does not flush it again, although the comment at 76-78
  says that the reload has captured the final log; the store still has it when the agent's own writes arrive. A capture that falls short
  of the end asked for rejects the reload (`session-discovery.ts:189`).
- Discovery: the failure of an inspection also rejects those who wait for another revision; a durable
  read can replace a newer live title until the next listing; a request that joins a listing under way may
  miss a session announced after it read the store.
- Commands: a failed read leaves the list stale until the next change; `/team` can be published as it was
  before a change of tools (`session-commands.ts:151, 194, 205`), against the comment at 196-197.
- Output: with no native projection, a "compacting" that is shown would get no end; a completion shown
  live may be absent on replay when no usage had been reported before its start.
- Models: a publication of an older read can arrive after a newer one; the models discovered for a route
  are forgotten by requests only (472, 510), so a route that another program moves to another endpoint keeps those of
  the old one, although 526-529 promises a reload (`ChangedOutside`); a probe's save can overwrite an update that was queued; two concurrent `add` of
  one id both pass the duplicate check.
- Presets: a switch whose flush failed is taken back, but its event stays in the log in memory
  (`undone`); the rollback can run under a turn.
- Children: a child that is resumed between the lookup of its status and the end of its cold log
  (`child-history.ts:124-164`) is told as cancelled until that turn ends or the log is read again (`overtaken`);
  `snapshot()` shows the members in a log also when the refresh before it failed (218-220, 511: `lost`) or their own log is
  gone (not `listed`); `cancelSubagent` makes `childStates` differ from what the client was told; a round that discovers a
  member and then fails loses the discovery (`native-children.ts:189-204, 218`); a failed reload swallows
  refreshes until the next event.
- Tasks: a reminder deleted before the first read stays on a pane that reconnects; a failed read is only
  retried at the next change.
- Plugins: `installAudited` does not restore when `npm install` itself throws (`plugin-bundles.ts:287`), nor
  when its last write fails (`spoiled`); a package that an incomplete rollback left disabled, and that the user
  enables, can be made plain content by a later rollback (found by the proof of `BootSafe`, which
  excepts it as `Abandoned`); `set()` takes a change that was cancelled for one that was made
  (`plugin-rows.ts:131`); `rows.set` runs outside the profile lock, so that overlapping `/browser on` and
  `/browser off` can answer about a state that is being taken back (`Alone`).
- Launcher: the import at `bootstrap.mjs:67` lies outside the retry that 20-24 promises; two launches of different
  releases can reinstall over each other; the last repair of the link (after `installRelease`) is made without
  the lock and can restore a link after an uninstall; a first install that fails leaves a link without a
  plugin, a failed `npm install` no plugin.

## 4. What is proved

The theorems hold for any number of requests, ids, sessions, clients, processes,
entries, presets, children, for any bounds and any set of faults, under the named assumptions of the modules
(`PromptQueueAssumption`, `SessionRegistryAssumption`, ...), which TLC evaluates in the runs, and under the
hypotheses written in the theorems themselves. Each rests on an inductive invariant, mostly one
conjunct per idea, with a lemma per action.

**PromptQueueProofs.** `TypeCorrect`. `QueueNeverStranded` (`NotStranded`, under
`"idle" \notin Faults`: a rejected idle wait does park the rows) is proved with the shape of the slot:
the step that frees the slot or lifts a hold is the one that calls `Promote`, so there is a lemma on
`Promote` and `Advance`. `HeldRowsStay`, `ImagesStayAlone`, `OnlyFreeRowsStart` are action
properties of every promotion. `OneOwnerEach` and `OwnersAreOpen` (`Ownership`) rest on `OwnInv`: the
places where a request can be are pairwise apart, and what is in them is unanswered.
`PromptsStartAtRest` (`StartsAtIdle`) rests on `AtRest`: a promotion that waits has seen the
activity end. `ContentEntersInOrder` and `AdmissionSound` (`AdmissionIsSound`) rest on `Chain`: how the slots,
epochs and preparations of the admission chain are ordered. `ClientFollowsQueue` (`ClientFollows`) rests
on `Shown`, `DisposalLeavesNothing` on `Withdrawn`. Hypotheses: `QuietRows` (no `cancel()` or `steer()` throws)
and `QuietAgent` (nor `followup()`), where the code does leave a row or a snapshot behind (section 3).

**SessionsProofs.** *Registry:* every safety property of the run (`OneAgentPerSession`,
`NoStrandedSession`, `BorrowedAgentLives`, `CapturesAreFinal`, `AcceptedWorkIsSaved`,
`TimersHaveOwners`, `ShutdownIsComplete`, with `PublishedIsSound` and `ReloadsAreSound`). None
is inductive alone: that an agent is the only one rests on who may be between which awaits.
`RegistryInv` has `Reserved` (one request at a time holds a session id; what a load replaces is
the owner or is being torn down), `Ownership` (an agent belongs to a published record, to a teardown or to
a request that has not published yet; the id of a teardown stays reserved), `Work` (a suspended record gets no
new work, so that the phases of a preflight, and of a teardown, find less and less of it; what each phase may find
unsaved, with the agent's own turns) and `Outcome`. `CapturesAreFinal` and `CapturesAreWhole` are the two
halves of what a capture is worth: nothing of the clients is missing from it, and nothing below its end.
*Discovery:* `ListsAreTrue` (`ListsTellTruly`) and the types. The key is `RowsAreCurrent`: a known revision is never
newer than what was read for it; around it what listings, the reuse, the pickers, the queued
inspections, their waiters and the end know. *Commands:* `MenusAreOfOneMoment` (`PublishesNow`), from
`ReadsAreRecent`: what a read that nobody has marked dirty took before its last await is what the registries
still hold.

**ProfileProofs.** *Updates:* under `~JournalSyncFails` (without it the first finding
breaks the promise): `OneTransactionAtATime`, `ActionsSeeWhole`, `BackupsAreComplete`,
`InstallationNeverTorn`, put together as `TransactionsExclude` (`Exclusive`) and `CrashIsRepairable`
(`AlwaysRepairable`), and `UpdatesAreAtomic`, the refinement of `AtomicInstall`. The mapping: while a
transaction is pending, what is installed is what its rollback would restore;
otherwise it is what is in place. With it every step of a transaction leaves
`installed` alone but `Commit`, which installs, and `Edit`. The invariant says
how far the moves (`MovesEntries`) and a rollback (`Undoing`) have come, that a stage
holds a whole release (`Staging`), that backups are what was there (`Backups`)
and that nothing in place or in a backup is unflushed (`Durable`). *Plugins:* `BootIsSafe` (`BootSafe`) from `Layer` (what the manifest
registers, by the phase of the command that holds the lock), `Noted`, `Readable` and `Abandoned`; the
attempt showed that `BootSafe` was not invariant beyond the three commands of the run, and the
exception `Abandoned` is what was missing. `AnswersAreTrue` under `NoCancel` (`set()` takes a cancelled change
for a saved one). *Launcher:* `LinkKeepsLeading` (`LinkLeads`), and `LaunchesStartWhole`, the first part of
`LaunchesEndWhole`. `LauncherInv`: the lock is held in the phases that need it and by a process that knows its
release; pending moves belong to the holder of the lock that moves or to a dead process; the plugin is away
only between the first and the second move.

**InteractionsProofs.** `TypeCorrect`, `NoStrayQuestion` (`QuestionsBelong`), `WithdrawnNeverDecides`
(`DecisionsStand`), `AllowedByUserOrBypass` (`AllowedByRight`). The
inductive invariant says of each open ask that its controller is aborted, or
that it belongs to the published record of an open leader whose mode is sound;
it holds because every event that withdraws a record also cancels its asks
(`CancelPreserves`), and because a bypass never outlives the record it was given to
nor a failed change. The action properties rest on `ResultsOfAsks`: an ask ends only
refused, or behind the checks of its controller and of `live()`.

**LeaderWireProofs.** `RequestsWaitForTheirClient` (`WaitsOnlyForItsClient`), `RequestsSettleOnce`,
`SocketFileIsOwned` (`SocketFile`), `IdleExitCutsNobodyOff`, `ShutdownIsWhole` (the safety of
`ShutdownComplete`). The invariant has four parts besides the types: the maps and the connections, `Socket`
(who owns the file in each state of the server), `Ending` (what each phase of the shutdown has waited
for) and `Idle` (a callback whose generation is current has seen no registration and no work since).
*Session output:* `RetiredIsSilent` (the safety of `OutputEnds`) and `NothingWaitsAtTheEnd`: `tail` is
set whenever an update waits, also one that waits for an image, since the event of a tool always makes
an update; so `dispose`, which waits for `tail`, leaves nothing behind. `TranscriptTellsTheLog`
(`ClientSeesLog`: nothing twice, in order, nothing dropped, the totals right and told), for any log, number of
attempts and chunks. None of this is inductive by itself: what was sent says nothing of what is going to be. `OutputInv`
is therefore about the *line* (`Line`: what was sent, then what waits), which is a `Transcript` of the log
up to `Heard` (`LogTold`). The drain, the images and the socket only move the border in the line
(`FollowedStays`). Beside it stand: `HeldAreLast` (what is held for an end frame are the last events of the log, none of
them settled but by the attempt that is streamed), `ChunksTold` (the chunks delivered are those emitted, and
all are in the line), `AgentTurn` (steps go on, and what settled the attempt is the last event until its end frame) and, for a record that
is no longer followed, `Sound` (what it sent stays in order). Two lemmas carry it: `TranscriptGoesOn` (an event that comes next,
with what `Items` makes of it and `Note` bills for it, continues a transcript) and `LoopTells` (so does a
loop of `restore` or `drainAssistantEvents`). The recursive functions in the model (`texts`, `upTo`) are unfolded step by step from
the least number at which the claim would fail (`Least`, `UpTo`), which needs no induction over an operator.
*Notices:* `NoticesTellTheTruth` (`NoticesTrue`), from `NoticesInv`: what the fold of the live record and the fold of a replay
hold of the inbox, compactions, commands, todos and plan (`Told`), the same predicate of both with what each client shows;
a load just puts the second in the place of the first. A turn's claim is what makes it inductive: between the claim and
the end of its turn, whatever is still to be appended is in `claimed`, and nothing that was given back is.

**WireFormatsProofs.** `FormatsAreExact` (`FormatsExact`), from three theorems about operators: it has no state, so
what matters is that they hold for all inputs. *Framing:* `PayloadsSurvive` and `LengthIsRefused`, for any
width of header, radix and limit with `FramesAssumption`, any sequence of payloads and any cut.
`LengthOfHeader` and `HeaderOfLength`: the two conversions are inverse (digit by digit, from `Digit` and `QuotientOfQuotient`).
`Decoding` is what a decoder may hold between chunks, `Pushing` and `Receiving` say that what was consumed is
the frames so far, encoded, then the header and the body of the decoder; each is kept by a turn, a `push()` and a
chunk (`TurnKeeps`, `PushIs`, `ReceiveIs`). A turn consumes a byte at least, so that as many turns as bytes are enough. A stream
has only one decomposition into frames and an unfinished rest (`FramesAgree`), which gives the payloads that were sent; behind
a header over the limit no decoder can be unfinished (`Refused`).
*Percentage:* `CachePercentIsExact`, for any tokens. `ReachedExactly` and `CoveredExactly`: the comparisons in quotients and
remainders are those of the rationals; `RoundedIsBest`: the binary search ends at the `Best` percentage (induction on the
width of the range); `PlacesAreLeast`: the search for decimals ends, at the first in which the misses show;
`LossIsRounded`: five candidates are enough. Recursive functions get their values from `Recursion` and
`PowersExist`, claims for all numbers from the least counterexample (`Least`, `UpTo`).

**ModelSelectionProofs.** `SnapshotIsTrue` (`SnapshotTrue`), `ChoicesStand` (`ChoiceStands`) and
`DisposalIsFinal` (the safety of `CatchesUp`). `SnapInv` relates the cached section, the writes in flight, the
announcements and the reads by generation; `ChoiceInv` the accepted picks, in order, to the chain of
writes of a record; `Emptied` what a disposal has cleared.

**LeaderServicesProofs.** *Presets:* `AgentsAreAsLogged` (`ComposedAsLogged`), `OnlyBlankSessionsSwitch`
(the safety of `SwitchesAreSound`). The invariant: one record has an agent and one request opens one
(`OneRecord`, `OneOpening`), what each phase of an open and of a switch knows about log, disk and
agent (`Attached`, `CommandPhases`, `InLog`, `Change`, `Opening`, `Composed`), and that a change keeps turns out or notices
them (`Barrier`, `Turning`). *Remote channel:* the three safety parts of `RemoteCallsServed`: `LanesAreBounded`,
`NothingStartsStale`, `OldestIsServedFirst`. `Standing` relates a call, its slot and its native call; `Lane`: each call
waits once, and only while all slots are taken; the finiteness of the slot holders is part of it.
*Tasks:* `AnswersFollowThePane`, the safety of `TasksMirrored`: `Promised` says that a request whose emission is under way
has its write in what that read took, and `PaneGoesOn` that the pane only goes forward. *Children:*
`EndingsAreTrue`, `AttemptsOnlyAdvance`, `ClosedSessionsAreSilent`, the safety of `ChildrenMirrored`. Three orders
carry it: the client is behind `childStates`, these behind the log (`Telling`); a read that is under way is of
a prefix no older than `childStates` (`Reading`); a stop watches the latest turn, from the one that it
interrupts (`Stopping`). That a child in a turn runs (`RunsInTurn`) is why a read of a live child never takes an open turn for a
cancelled one: the activity is fixed together with the prefix; the open turns that the read of a cold log can end in are
`overtaken`. A stop is never settled by such a read, since the agent it waits for is not the one that the child has got since
(`AgentsHeld`). `RestoredSeen`: which members of the log have views, by how far the refresh has come.

**Only model-checked.**
Liveness (`EveryPromptSettles`, `EverythingEnds`, `WithdrawnWorkEnds`, the liveness parts of `MenuTrue`,
`CommandsTellTruly`, `LaunchesEndWhole`, `ShutdownComplete`, `OutputEnds`, `CatchesUp`, `RemoteCallsServed`,
`ChildrenMirrored`, `TasksMirrored`, `SwitchesAreSound`): TLAPS has no reasoning about fairness and ENABLED.
The second part of `LaunchesEndWhole` (an undisturbed launch has no mishap), which holds for one launch only: a second
one may keep the lock for longer than the first waits. The type invariants of `ModelSelection` (its
queues are edited with `Remove` and `SelectSeq`, whose element facts need induction) and of `NativeChildren`
(the lengths of `tail` need a further invariant on who reads).

## 5. Plan

Modelled and checked: all components of section 1 that keep state. What remains to be proved, most
important first:

1. The second part of `LaunchesEndWhole` for a single launch, from an invariant on what it has looked at and nobody
   has changed since.
2. `NativeChildren`: the type of `tail`, and with it that a read is never left without its reader.
3. An abstract specification of the queue (each request is answered once) with `PromptQueue` as its implementation.

## 6. Not modelled

Parsing, formatting, rendering and configuration of one request at a time; fork and rewind, prompt
content, artifacts, export and migration (one request each, that reads the log or a file and keeps
nothing); execution worlds and the status report; process spawning and file checks of the launcher; the
browser helper and the ssh wrapper (I/O); build and release scripts; the vendored terminal UI; the inside
of the native agent. Hazards that no property covers, or only in part: a load that starts while its id is
retiring and reads the log before the last flush (`session-lifecycle.ts:295`), the
`mcp_initialized` timer that a failed reload clears for good
(`session-registry.ts:143`), a reset of the plugins that runs without the lock
when no runtime is left (`bin/plugin-reset.mjs:117`), and the two of the queue at `prompt-queue.ts:302` and `325`.
