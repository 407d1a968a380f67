# Locallmos agent: a verification development

The agent (`src/src-tauri`) turns a computer into a "rig": it enrolls with a
control plane (Supabase), keeps a llama.cpp server with the wanted model
running, executes the owner's commands, answers chat turns and inference jobs
that other rigs relay to it, and updates llama.cpp and itself.  It is one tokio
process; its state is an `AppState` full of mutexes and atomics which background
loops, websocket handlers and desktop commands share.  The development models
the parts in which interleavings, crashes and lost calls decide whether the
agent is correct, checks them with TLC on small instances, and proves every
safety property the passing runs check with TLAPS for every instance.

Contents: 1 inventory, 2 modules and their correspondence to the code, 3 runs,
4 fairness, 5 proofs, 6 what the code does not promise, 7 what is not modelled,
8 plan.

## 1. Inventory

Paths are relative to `src/src-tauri/src` unless they start with `src/`.

| Component | State it keeps | Operations | Interacts through | Hard behaviour | What makes it correct |
|---|---|---|---|---|---|
| Enrollment and credentials: `worker.rs`, `config.rs`, `status.rs`, `supabase.rs` | `AgentConfig` in a mutex, `config.json`, `AgentStatus` | `enroll`, `ensure_token`, `rig_id`, `telemetry_tick`'s heartbeat, `reset_to_pairing` | every loop and command takes the config lock | a refresh answered after a re-enrollment, a rig deleted by its owner, a save cut off | token and rig id belong together; a deleted rig is forgotten, a live one is not |
| llama.cpp updater: `llamacpp_updater.rs` | install tree, backup, journal, the executable path | `install`, its rollback, `recover_interrupted_update` | update flag, `runtime_lifecycle`, the adapter's executable | crash between two renames, refused renames, half-deleted trees | a whole install is always left |
| llama-server adapter and model residency: `runtime/llama_server.rs`, `lib.rs`, `worker.rs` | child handle, an orphan server, `locally_ejected_model` | `ensure_running`, load, eject, restart, reconcile | `proc` mutex, `runtime_lifecycle`, `cancels`, `llamacpp_update_running` | turns, jobs, commands, reconciliation and updates replace each other's server | no registered turn generates during an update; the wanted model comes back; an eject stands |
| Work rows: `worker.rs`, `realtime.rs`, `supabase.rs`, `chat.rs` | rows of three tables, `serving_slots` | websocket INSERT, 30 s poll, claim, result | the row's status column | double delivery, lost answers, restarts, requester deletes the row | at most one execution and one result per row; nothing pending is forgotten |
| Realtime handle: `realtime.rs` | outgoing channel, pending joins, ref counter | `connect`, `join`, `broadcast`, `leave`, `on_reply`, `reset` | the websocket loop, every turn that streams | a join's answer, its timeout and a reset race; refs of joins and heartbeats share a space | a join succeeds only if its own topic was acknowledged; a waiter can be woken |
| Inference relay, requester side: `relay_inference.rs`, `peers.rs`, `subagent.rs` | peer cache, the job row it inserted | pick a peer, insert, poll the answer, fall back | the serving rig's work queue | the 240 s deadline against the answer, a stale peer | one answer per request, no orphan row |
| Agent self-update: `updater.rs` | staged binary, the executable, `update_status` | `apply`, `update_loop`, exit for the service manager | command loop, systemd | command and automatic update at once | the executable is always a whole release |
| MCP manager: `mcp/mod.rs`, `mcp/stdio.rs` | server handles, tool snapshot, backoff, request ids, pending replies | `connect`, `stop`, `set_configs`, `call_tool`, `maintain` | child processes, all turns | connect outside the lock against stop and edit; replies in any order | a live client runs the configuration in force; an answer reaches its own request |
| MCP configuration: `lib.rs`, `worker.rs` | server list, secrets, last applied cloud revision | edit commands, `reconcile_mcp` | config lock, manager | read, edit, write back outside the lock | no edit lost |
| Web chat turn: `chat.rs` | message row, cancel flag, approvals | stream, stop, tool loop, write-back | queue, MCP, residency, the realtime channel | stop during a gate, lost writes, a full channel | every turn ends with a final status; nothing is changed that the user did not approve; events stay in order |
| Desktop chat: `local_chat.rs`, `chat_store.rs` | session files, cancel flags | send, cancel, compact, tool budget | residency, MCP | trust withdrawn during a turn, a context that fills up | a turn ends, its requests fit, only a trusted server is written to |
| Desktop coding: `local_coding.rs`, `coding_store.rs`, `coding/` | pending approvals, policies, session files and their mirror, `chat_lock` | send, approve, deny, compact, change mode, sync, delete | oneshot channels, cloud session, relay | answer against timeout against cancel; a session stored by several tasks | a tool runs only if it was approved; what is saved stays saved |
| Previews: `coding/preview.rs` | an entry per session: server slot, window, authorized origins | start, stop, open, close, the window's close handler | coding turn, the user | a start overlaps a stop or a close | no server left running behind its entry; no page the user did not approve |
| Sub-agents and prompt files: `coding/agents.rs`, `subagent.rs`, `coding/context_files.rs`, `coding/prompt.rs` | none that outlives a turn | discovery, bounded round loop | relay | rounds bounded | ends within its rounds |
| Model hub: `hub.rs` | downloads and their status, `.part` files, manifest | download, cancel, remove | models directory | cancel against completion, two downloads of one variant | a listed model is whole; a cancel leaves nothing of its own |
| Tool-call protocol: `runtime/tool_protocol.rs`, `runtime/tools.rs` | none | parse and assemble tool calls | the stream | deltas out of order | the assembled call is the one sent |
| Ollama adapter, facade: `runtime/ollama.rs`, `runtime/mod.rs` | none | stateless HTTP calls, settings validation, device choice | external server | none | pure functions |
| Telemetry sampling: `monitor.rs`, `hardware.rs`, `settings.rs` | last samples | read counters | telemetry loop | none | none worth a model |
| Front end: `src/src` | view state | invokes commands, listens to events | Tauri | none beyond the agent's | none |
| Installers: `src/service` | files on disk | provisioning scripts | none | none | sequential |

The hazards each part is exposed to are listed, with the line where they bite
and the property that covers them, in `PROJECT.json`.

## 2. Modules

| Module | Models | Extended by |
|---|---|---|
| `RigSession` | enrollment and device credentials | `RigSessionProofs`, `MCRigSession` |
| `LlamaUpdate` | the swap of the llama.cpp tree and its recovery | `LlamaUpdateProofs`, `MCLlamaUpdate` |
| `ModelResidency` | which model the child serves, and everything that changes it; composes the adapter, the commands, reconciliation, turns, jobs and the updater's use of the locks | `ModelResidencyProofs`, `MCModelResidency` |
| `OnceEach` | abstract: what the agent promises for a row of work | instantiated by `WorkQueue` |
| `WorkQueue` | how rows reach the rig and are executed | `WorkQueueProofs`, `MCWorkQueue` |
| `ToolPolicy` | which tools are offered, change something, need an approval | `ChatTurn`, `CodingTurn` |
| `ChatTurn` | one web turn with its broadcaster and its heartbeat | `ChatTurnProofs`, `MCChatTurn` |
| `CodingTurn` | one desktop coding turn, its approval gate, its sub-agents on peers | `Desktop` |
| `LocalChatTurn` | one desktop chat turn, its tool budget and its context | `Desktop` |
| `CodingSessions` | the file of a coding session, its mirror, the tasks that change them | `Desktop` |
| `McpManager` | server list, secrets, handles, tool snapshot, cloud reconciliation | `Desktop`, `McpProofs` |
| `McpClient` | requests over the pipes of one MCP server | `Desktop`, `McpProofs` |
| `Desktop` | the five parts of the desktop application side by side | `DesktopProofs`, `MCDesktop` |
| `RealtimeHandle` | joins on the shared websocket | `Services` |
| `AgentUpdate` | the agent's replacement of its own executable | `Services` |
| `HubDownload` | downloads of one model variant into shared file names | `Services` |
| `CodingPreview` | the window and the development server of a session | `Services` |
| `Services` | the four services beside the turns side by side | `ServicesProofs`, `MCServices` |

`Desktop` and `Services` put several modules into one specification, one at a
time: the initial state chooses a part (`world`, `service`) and only that part
steps.  The parts share no variable, so this states each of them as if it were
alone; it is not a claim about their interaction.  The interactions are inside
the modules: `ModelResidency` has turns, jobs, commands, reconciliation and
updates; `ChatTurn` has the turn, its broadcaster and the user; `CodingTurn` has
the turn, the relay and the user; `CodingSessions` and `McpManager` have every
task that edits the shared state.

### RigSession

`cfg` is `AppState.config`, `disk` is `config.json`, `status` is what the tray
shows, `lock` is the config mutex when it is held across an await (only
`ensure_token` does that), `live` and `issued` are the server's table of rigs.
Tokens are named by the rig they were minted for, so "the wrong token" is a
value of the model.  A loop runs `ensure_token` (`EnsureNotEnrolled`,
`EnsureFresh`, `RefreshSend`, then `RefreshOk`, `RefreshRevoked` or
`RefreshFault`), then reads the rig id under a second acquisition of the lock
(`ReadRig`), then does its work; the telemetry loop probes the rig
(`HeartbeatLive`, `HeartbeatGone`).  `ResetConfig` and `ResetStatus` are the two
halves of `reset_to_pairing`, `EnrollStore` and `EnrollStatus` those of
`enroll`: between them other tasks run.  A heartbeat's answer that cannot be decoded
reads as an empty one, so a rig that is alive is taken for deleted
(`HeartbeatUnreadable`).  `OwnerDeletes`, `TokenAges` and `Restart` are the
environment; a save that fails, and a restart inside one, may leave the file
truncated, which `load` answers with the default config.  `misled` is a history
variable: the loops whose tick met a new enrollment or an unreadable answer.

### LlamaUpdate

A tree is a version and whether all its files are there.  `root`, `backup` and
`aside` are the three directories of the transaction, `journal` the file that names
them, `bin` the executable the runtime would start.  Each rename and each deletion
of `install_inner` and of `recover_interrupted_update` is an action; each may be
refused (`Refused`), a deletion may stop half way (`Half`), and a crash may come
before or inside each (`Crash`).  When the commit is refused, the backup is put back
and the journal removed, and each of these two may be refused as well, since the
code ignores their results (`CommitRefused`).  `legacy` is the system-wide install
which an update leaves alone and migrates from.  `spoiled` is a history variable: it
names the two situations in which the code cannot keep its promise, a half-deleted
backup that the journal still names and a backup that a refused rename left where it
was with nothing in its place.

### ModelResidency

`child` is `LlamaServerAdapter.proc` (handle and state of the process), `external` a
server that outlived an earlier agent and keeps the port, `lifecycle` the holder of
`runtime_lifecycle`, `updating` the flag `llamacpp_update_running`, `cancels` the
registered turns, `ejected` the persisted local override.  Every task has a control
point `pc`, an operation `op` and the model it wants.  `EnsureResolve`, `EnsureSwap`
and `WaitHealthy` are `ensure_running` and the health poll, cut where the code
awaits; all tasks share them, and `AfterEnsure` says where each goes on.  Commands
and the reconcile tick take the mutex (`LockLifecycle`), a turn registers and then
reads the flag (`TurnRegister`, `TurnCheck`), but counts its tokens and has a full
context summarised by the model before that (`TurnStart`, `TurnPrepare`), an update
sets the flag and then looks at the registered turns (`UpdateFlag`,
`UpdateCheckTurns`); a relayed job does neither (`JobStart`).  A spawn may fail at
any time (`EnsureSwap`), counted by `MaxDeaths` except while an update has the tree
in its hands.  Reconciliation looks at whether some model is resident (`seen`), not
at which.  What is left out: launch arguments, GPU plans, the text of the stream.
The branch of the reconcile tick that restarts a stopped runtime is left out because
the adapter's snapshot says "running" whenever a model file exists, so it never runs
on a rig that has one.

### WorkQueue and OnceEach

`row` is the status column of each row, `event` the INSERT events on the wire,
`stage` the handler of a row on each of the two paths, `permits` the handlers
that hold a permit of `serving_slots`.  The handler is cut at its awaits:
`Start` (serving switch and slot), `EnsureToken`, `Claim` (the conditional
update, whose answer may be lost), `Run`, `Report` (an unconditional update that
may be lost).  The three kinds of rows differ only where the code does: jobs
need a slot and may be deleted by their requester, a chat turn may end without
writing its row.  `OnceEach` is the promise in four actions: a row is executed
at most once and only after it was inserted, and gets at most one final status,
only after it was executed; it may be deleted at any time.  The refinement maps
"pending" and "claimed" to "open", "done" and "error" to "final".

### ToolPolicy

The pure part of `coding/mod.rs`: `ParsePolicy`, what each policy offers
(`OfferedTools`), which tools change something (`BuiltinMutating`, `Mutating`),
which wait for the user (`NeedsApproval`) and which are refused whatever the
model asks (`Refused`).  An MCP tool counts as read-only only when its server is
trusted and the tool says so; one that is missing from the frozen snapshot is
treated as a write.

### ChatTurn

`chat::process`, from the claim of the message row to the announcement of its end.
`pc` walks through setup, which may write an error to the row (`SetupRefused`) or
return without (`ModelMissing`: the model has no file on this rig; `SetupFails`: a
lookup is lost), `Join`, `Register` and the look at the update flag, the start of
third-party servers (`Warm`), the rounds (`Delta`, `StreamFails`, `StreamAnswers`,
`StreamCalls`), the calls of a round one by one (`NextCall`: refused, gated, run
here, or handed back to the caller), the gate (`Ask`, `Open`, `DecisionRead`,
`DecisionGivenUp`, `Denied`), execution and result, and the end (`Wind`, `Flush`,
`Persist`, `Announce`, or `Fail` and `FailRow`).  `inv` is the row of a tool
invocation, whose writes may be lost where the code ignores their result; `tx` is
the channel to the broadcaster, which numbers the events and batches the text
(`Receive`, `FlushText`); the heartbeat is a third task.  A profile fixes what a
turn's row fixes: protocol, whether a model is named and has a file here, workspace,
policy, whether third-party servers are gated, what the model calls.

### CodingTurn

`local_coding::run_turn`: preflight, registration against the update flag,
`Measure` and `Shrink` before each request, the stream, all `run_agent` calls of
a round side by side (`AgentPicks`, `AgentAsks`, `PeerAnswers`, `AgentAwaits`,
`AgentSweeps`, `AgentLocal`), then the others in order through the gate:
`TakeCall` puts a sender into `coding_approvals`, the user answers it, a stop
ends it, or a preview asks for an origin first (`NeedsOrigin`).  A sub-agent on
a peer is the requester's side of the relay: the row it inserted is `job`, its
deadline may pass at any time, a read that fails counts as vanished as in
`supabase.rs`, and the row is deleted whatever came of it.  An insert whose reply is
lost or cannot be read sends the sub-agent to the fallback, and its row, if it is
there, stays: `job` is then "stray", since nobody knows it.  The fallback is a
pooled model here (`PoolPicks`).

### LocalChatTurn

`local_chat::send` and `run_turn`: the same preflight, the tool budget
(`executed` against `ChatLimit`, `synthesisOnly` for the last request), calls
that are skipped once the budget is spent, compaction when a request would not
fit.  There is no approval; `trusted` is the mark of the MCP server, which
`MayWrite` reads when the call runs and not when the list was offered.  The look
(`CheckTrust`) and the write (`RunCall`) are two steps, since finding or starting
the server comes between them, and the user may withdraw the mark there;
`vouched` remembers whether the mark was there at some moment since the call was
taken.

### CodingSessions

`file` is the session on disk, `mirror` its copy in the cloud, each task a
control point and the session it copied.  A section under `chat_lock` is one
step, an await between two sections is a place where others step: a local turn
saves, generates, loads again and stores (`SendSave`, `SendStore`), a compaction
reads and stores later (`CompactRead`, `CompactStore`), a change of mode stores
and then pushes (`SetPolicy`, `PushOk`), a web turn's rows are fetched before
the lock and written back under it (`FetchRows`, `WriteBack`), the backfill
mirrors what has no mirror, a deletion removes the file and then the mirror.
`mcp` stands for settings kept on this machine only (`SetLocal`).  Messages are
numbers in order of creation, so a transcript is a set.

### McpManager and McpClient

`mcpConfig` and `secrets` are the files, `handle` the map under the servers' lock,
`snap` the list of tools shown to models, `desired` and `appliedVersion` the two
ends of the reconciliation with servers written on the web.  Versions stand for
configurations; two of them have the same transport and differ in the token only,
which is what a rotation is (`Transport`).  The tasks are the commands (edit, add,
delete, start, stop), `reconcile_mcp`, the lazy start before a turn, a turn's call
and `maintain`; spawning and the handshake run outside the lock (`ConnectBegin`,
`Spawn`, `Install`), so everything else may happen in between.  `mcp_delete_server`
is three steps: the server stops (`DeleteStop`), the snapshot is rebuilt and this
server's secrets go (`DeleteSecrets`), the list is written (`DeleteWrite`).

`McpClient` is below it: `pending` from ids to waiting requests, the two pipes as
sequences of frames, the reader task.  The server answers in any order, sends
notifications and requests of its own, or dies; a frame carries an id and
nothing else, and the model keeps beside it which request it answers, so that a
wrong match can be seen.  It assumes that the output of a server ends when its
process does.

### RealtimeHandle

A join takes a ref, inserts its sender into `pendingJoins`, queues its frame and
waits; the loop writes the queue, sends heartbeats whose refs count from 2 on
every connection, and resolves joins from replies by ref.  `SocketLost`,
`ResetSender` and `ResetPending` are three steps because they take two locks.
`JoinBase` is 100 in the code.

### AgentUpdate

A run resolves a release (the newest, or the newest when it looked), downloads,
verifies, and is then in `swap_binary`: create, write, copy beside the
executable, rename, remove the staged file, exit three seconds later.  All runs
of one process use the same name for the staged file.  `overlapped` records
that two runs were inside it at once.

### HubDownload

A download is a task; `X.part`, `X` and the manifest are names, a file is an inode
known by the download that created it, and a name is a link to it, because a task
keeps writing the inode it opened after the name was removed or renamed.  Between
downloads the repository may move to another revision with other sizes; a shard
whose file has the expected length is skipped.  A size of 0 is what the code notes
for a file whose size the repository does not state; such a shard is taken at any
length up to the bound `MaxChunks`, and one that is already there fails the download
unless it is empty.

### CodingPreview

`entry` is the session's current entry in the map, `slot` and `ready` its server,
`proc` the processes, `hand` the server a task has taken out of a slot and kills.  A
start stops the old server, spawns, stores, probes; opens and closes work on window
and entry; the handler of a closing window runs later than the close.  A server is a
shell and what the shell started.  `kill_process_tree` ends both; dropping the
handle kills the shell only, so a server over which another start stores is
"replaced" and may go on, as is "left" one whose shell has ended by itself.
`startsOverlapped` records that a start began before another had stored its server.
That a server may ignore the SIGTERM of `kill_process_tree` is left out.

## 3. Runs

| Run | Asks | Instance |
|---|---|---|
| `rig_session` | Do credentials stay consistent, is a live rig kept and a deleted one forgotten, does an enrolled rig become connected? | telemetry and one more loop, two enrollments, one failed request or save, one restart |
| `rig_reset` (violation) | Does a reset only clear a rig that is gone? | the same, without failures and restarts |
| `llama_update` | Does every crash and every refused operation leave a whole install? Is the old tree given up only for a whole one? | three releases, two refused operations, two crashes |
| `llama_update_crash` (violation) | Is the window between the two renames the only unsafe one for a crash? | three releases, one crash, nothing refused |
| `residency` | Do registered turns and updates exclude each other? Do managed tasks change servers only under their lock? | one turn, one command, the reconcile loop, one update; two models with a file and one without, of which the owner wants the first; no server dies by itself (it does in `residency_live`) |
| `residency_live` | Does the wanted model come back, do commands and ticks end, does an eject stand? | one command, the reconcile loop and relayed jobs; one crash of the server |
| `work_queue` | Is each row executed at most once, are slots bounded and returned, is nothing forgotten? | a chat turn and a relayed job, one slot, two failed or lost calls, one restart, a socket that comes and goes |
| `chat_turn` | Does a web turn change only what was approved, keep its events in order, heed a stop, and end with a final row? | seven kinds of turns; two calls of one gated tool, one third-party write, three web searches; three rounds, a channel of two, one lost call |
| `desktop` | Do desktop turns, session edits and MCP tasks keep their promises? (properties below) | `TurnCalls` a write, two sub-agents and a page to open, two rounds, window 3, one lost call; a chat limit of 3 with two calls a round; session scenarios of up to four tasks, one failed sync; one MCP server, two tasks, three versions; three requests on a client |
| `services` | Do joins, the self-update, downloads and previews keep theirs? (properties below) | two joins, first ref 3, two heartbeats, two sockets; one command and one automatic update, three releases; two downloads of two shards, the second of which grows with the second revision or has no stated size in one of the two, one exit; two servers, one open, two closers, three entries |
| `sessions_writeback` (violation) | Is replacing the transcript after a web turn safe? | the sessions of `desktop` |
| `mcp_secret` (violation) | Does a rotated token take effect at once? | the MCP manager of `desktop` |

Properties of `rig_session`.  `TokenMatchesRig`: memory and file never pair the
token of one rig with the id of another.  `LiveRigsKept`: a rig that is alive loses
its enrollment only to a loop in whose tick a new enrollment fell, or which could
not read its heartbeat's answer; without such an event the token, the id and the
verdict that a tick collects under several acquisitions of the lock belong together,
whatever the other loops refresh and reset meanwhile.  That the exception is real is
the subject of `rig_reset`.  `DeletedRigForgotten` and `EnrolledGetsConnected`: the
agent lets go of a rig that was deleted, and no failed refresh or save keeps it from
connecting.

Properties of `residency`.  `RegisteredTurnsYield`: while an update is past its look
at the running turns, no turn that went through the registration generates (the
compaction before it may, section 6).  `ManagedChangesLocked`: commands,
reconciliation and updates start and stop servers only under `runtime_lifecycle`.

Properties of `chat_turn`.  `ChangesApproved`: a call that changes something ran
under the automatic policy or after the user approved that invocation, and not in an
inspection-only workspace.  `EndedTurnGone` and `RowSettled`: a turn that is over
has left the registry that updates look at, its heartbeat is gone, its row is final
(unless a call was lost, the turn gave way to an update, or the rig has no file of
the model).  `StopHeeded`: after a stop at most one more round is asked of the
model.  `ChannelOrdered`: "done" or "error" is the last word on the channel.
`TurnEnds`: whatever the user does, the turn ends, unless a third-party server that
does not read its input holds it for ever (section 4).

Properties of `desktop`.  `ChangesAllowed` is two: a call of a coding turn that
changes something ran after the user approved that call or under "auto", and a page
is opened once its origin was allowed (`TurnChangesApproved`); a desktop chat writes
only to a server that was trusted at some moment while it had the call in hand, not
merely when the list was offered (`TrustedWrites`).  `AskFits`: a request of either
kind of turn leaves the reserve free.  `JobsSwept`: when a turn goes on, none of its
sub-agents is at work and none of its jobs waits for a peer (but for a lost
deletion, or an insertion whose reply was lost).  `TrustInForce`: the snapshot lets
a tool skip its approval only while the manager has the server down as trusted and
enabled, whatever connects and edits overlap (an operation about to rebuild the
snapshot excepted).  `RequestsAnswered`: a request gets its own answer or an error,
and none waits for a reader that has gone.  `TurnsReturn`: a stopped coding turn
ends, and a chat turn ends by itself, with the same exception as `TurnEnds`.
`EditsKept` and `CompactionAdvances`: overlapping tasks on one session lose neither
a message nor a mode nor a setting (except through a write-back, which has a run of
its own), and a checkpoint moves back only when a compaction stores what it made of
a transcript that had lost the message its boundary stood at.

Properties of `services`.  `JoinsSound`: a join that returned success was let in by
the server's answer to it (as long as no connection has beaten up to the refs of
joins), and the pending map holds exactly the joins that still listen.  `FilesWhole`
is three: the executable is a whole release unless two swaps overlapped; every shard
of a variant with a manifest is there, and in full where its size was stated, and a
download that shows as cancelled has left nothing it created, unless two downloads
were under way at once.  `PreviewsKept`: every development server whose shell runs
is in the slot, about to be, or in the hand of a task that kills its group, and what
a dropped handle leaves running exists only if two starts overlapped; the window
shows only origins that were approved.

Why these bounds are enough for the interesting cases.  Two loops are what it
takes for one to act on an answer that the other has acted on; two enrollments
are what it takes to confuse two rigs.  Three releases let an update meet the
leftovers of two earlier ones, and two failures or two crashes hit an update and
its own recovery.  Two models are a swap, and one task of each kind is every
pair of kinds racing over it; the task kinds are disjoint code paths.  Each row
has at most two handlers, the socket's and the poll's, whatever the number of
rows, and rows meet only in the slots and in the poll's order, so a chat turn
(no slot) and a job (slot) with one slot and two paths make slots scarce: the
two handlers of one job compete for it.  In the turns, two calls of one tool
show whether an approval serves twice, three rounds reach the limit of rounds,
and a window of three or four largest results is one that fills up in a turn.
Sessions are edited by one task of each kind (two compactions, since they race
each other); the scenarios are the pairs and triples of kinds that share a
field.  Two MCP tasks are a connect and whatever overlaps it.  With the first
join ref at 3 the second heartbeat reaches it, as the ninety-ninth does in the
code.  Two downloads, two updates and two servers are one and the one it
collides with.  The proofs of section 5 carry the safety properties of the core
to any number of tasks, models, rows, failures and crashes.

Deadlock is checked in `residency`, `residency_live`, `work_queue` and
`chat_turn`.  It is not in the others, which really stop: no newer release
exists after the last one (`LlamaUpdate`), an agent that is not enrolled waits
for a pairing and the bounded number of them is used up (`RigSession`), and the
parts of `Desktop` and `Services` perform a bounded number of operations.

`services` declares the starts of preview servers symmetric, and the closers:
nothing in the modules or in the properties of that run tells one from another, and
none of them is a liveness property.

Size of the runs (distinct states): `rig_session` 153,410, `llama_update`
18,787, `residency` 1,736,136, `residency_live` 136,794,
`work_queue` 156,292, `chat_turn` 295,013, `desktop` 478,034, `services`
2,163,249.

Bounds named in the modules: `TurnBatch` and `ChatBatch` (calls in one answer of a
model), `Scenarios` (the sets of session tasks that run together), `Listings` (the
sizes a repository may show), `MaxChunks` (length of a file of unknown size),
`MaxEntries` (entries of a session's preview, one after another), and the counts of
faults, crashes and restarts that end in `Faults`, `Crashes` or `Restarts`.
`AbsentAssumption` says that the model value which stands for "no entry" is none of
the records of the MCP manager.

## 4. Fairness

* `RigSession`: each loop is a tokio task that sleeps and runs again for ever, a
  request ends (reqwest has timeouts), and tokio's mutex is a FIFO queue; so
  strong fairness of each loop's steps and of the two steps of an enrollment.
  Nothing obliges the user to pair, the owner to delete or a token to age.
* `ModelResidency`: weak fairness of each task's steps, strong fairness of
  taking `runtime_lifecycle` (FIFO mutex), weak fairness of the reconcile tick
  and of a loading server that becomes ready or exits.  Streams need not end,
  no user need act, and the health poll has its deadline in the code.
* `WorkQueue`: weak fairness of each handler and of the poll.  The socket owes
  nothing: it may be down for ever.
* `ChatTurn`: weak fairness of the turn except in a third-party server's hands, of
  the broadcaster's receive and of the heartbeat's stop.  A stream ends because the
  client gives up one that is silent for 300 s (`lib.rs:150-152`), and a gate ends
  because a decision is given up after 1800 s; the user owes no approval and no
  stop, and the control plane no answer (calls may be lost).
* `CodingTurn` and `LocalChatTurn`: weak fairness of the turn with the same
  exception, and of each of its sub-agents, which poll with a deadline and have no
  third-party tools.  The user owes nothing, and so `StoppedTurnReturns` is about
  turns that were stopped: one that is not may wait at the gate for ever.
* Third-party servers: the answer of an MCP server has a timeout, but the write of
  the request into its standard input has none (`mcp/stdio.rs:175-180`), and a stop
  is not looked at while a call is under way.  A server that does not read its input
  may hold a turn for ever.  So fairness leaves out the turn's steps at such a place
  (`McpWait`, `TurnAtServer`, `ChatAtServer`: a call of one of its tools, the start
  of the servers before the first round), and `TurnEnds` and `TurnsReturn` have the
  hypothesis that the turn is not there for ever.  A server is free to let go, and
  every other wait has a deadline.
* The other modules state no liveness.

## 5. Proofs

Every theorem is about the specification with arbitrary constants that satisfy
the module's named assumption (disjoint sets of tasks or rows, natural bounds).
The pattern is the same everywhere: a strengthening `IInv`, `Init => IInv`,
`IInv /\ [Next]_vars => IInv'` split by action, and the property as a
consequence.

* `RigSessionProofs`: `TypeCorrect`, `TokensNeverMixed` (`TokenMatchesRig`),
  `LiveRigsStay` (`LiveRigsKept`).  `TokenMatchesRig` is not inductive: the token
  that a refresh brings is stored next to whatever rig id the config has by then.
  `RefreshHoldsLock` supplies the reason why it is still the same one (the lock is
  held across the request, and every writer of the rig id needs it), `KnownRigs`
  that a rig that is accused was issued, `FormHasRig` that an answered enrollment
  brings a rig nobody was told about.  `TicksFit` is what a tick may rely on from
  one acquisition of the lock to the next: unless the loop is in `misled`, the token
  it holds and the rig it asks about are those of the stored rig, if one is stored
  at all, and a loop about to wipe was told so of a rig that is gone.
* `LlamaUpdateProofs`: `TypeCorrect`, `InstallAlwaysSurvives` (`InstallSurvives`),
  `BackupKeptThroughSwap` (`BackupOutlivesSwap`).  The strengthening says, for each
  control point of the update and of the recovery, which of root and backup is whole
  and which executable is in force, so that a crash at that point finds the
  recovery's precondition.  That the journal is there, and readable, through the
  whole swap is part of `TypeOK` (`Journalled`).
* `ModelResidencyProofs`: `TypeCorrect`, `UpdatesWaitForRegistered`
  (`RegisteredTurnsYield`), `LifecycleSerializes` (`ManagedChangesLocked`).  The
  strengthening ties the control point of a task to its kind (`Kind`), to the
  mutex (`Holds`), a generating turn to its registration (`Registered`), an
  update to the flag (`Flagged`) and there to be one of them (`OneUpdate`).
  Each action is shown to satisfy `Moves`, what it leaves to other tasks, and
  one lemma, `MovesIInv`, preserves the invariant for all actions at once.
* `WorkQueueProofs`: `TypeCorrect`, `NoSecondRun` (`RunsOnce`) and `Implements`,
  the refinement of `OnceEach`.  `ItemInv` relates a row, its handlers and its
  history: a row that is pending was never executed and nobody is past its
  claim, at most one handler is, and one that is about to report executed it.
  `JobsStayBounded` (`JobsBounded`) counts: a job past its start holds a permit
  and there are at most as many permits as slots (`SlotInv`), so the jobs at work
  inject into the permits and the library's facts on finite sets give the bound.
* `ChatTurnProofs`: `TypesOK` (`TypeOK`), `EndedTurnsAreGone` (`EndedTurnGone`),
  `ChannelIsOrdered` (`ChannelOrdered`), `RowsAreSettled` (`RowSettled`),
  `StopsAreHeeded` (`StopHeeded`), `ChangesAreApproved` (`ChangesApproved`).  Each
  rests on what a control point implies: `TasksInv`, that the broadcaster and the
  heartbeat have ended before a row is written; `RowInv`, that an exit with an
  unsettled row has lost a call, gave way to an update or has no file of its model;
  `LateInv`, that after the one late round the flag
  is seen or no round is left.  `ApprovedInv` adds that an approval in the table
  was given by the user for that invocation, which is what the executing call
  relies on.
* `McpProofs`, the client: `AnswersFindTheirRequests` (`RequestsAnswered`) and
  `RpcTypesOK`.  `IdsUnique` (no two requests have one id), `PendingOwn` and
  `FramesOwn` (an entry of the pending map and a frame in either pipe carry the id
  of their own request) and `ReaderLast` (the reader ends only after the server
  has).  `RpcBounds` counts: an id was taken by each request begun and by no other,
  and refusals never outnumber what the server asked for.
* `McpProofs`, the manager: `McpTypesOK` and `TrustIsInForce` (`TrustInForce`).
  `TasksInv` says what a task carries between its steps (a list if it edits or
  reconciles, a client if it spawns).  Each step then does one of three things: it
  leaves a task about to rebuild the snapshot; or it rebuilds the snapshot from
  the handles; or it leaves every handle's trust as it was and makes no tool
  read-only (`BeliefKept`, `NoNewReads`).  The last is why a connect that finishes
  late cannot revive trust: it puts its client into the handle and leaves the mark
  that the handle has by then.
* `DesktopProofs`, the coding turn: `JobsAreSwept` (`JobsSwept`) and
  `TurnChangesAreApproved`.  `JobsInv`: a job that a peer may still take or has
  answered belongs to a sub-agent that waits for it or is about to delete it, one
  that is left or stray has cost a lost call, and sub-agents work only between a
  round and its calls.  `GateInv`: a call about to run was granted if its policy
  asks, and a preview about to open has its origin allowed; `web_preview_open` is
  asked for once, since it is no call that changes something.  `RoomInv`: the
  context and what the results of the round's calls may still add never exceed the
  window by more than a round's calls, and what is sent was measured with no result
  in between (`TurnAskFits`).
* `DesktopProofs`, the chat: `ChatInv` is the same bound on room, `TrustInv` that a
  write on its way was vouched for since its call was taken.
* `DesktopProofs`, the session: `SavedEditsAreKept` (`EditsKept`) and
  `BoundaryAdvances` (`CompactionAdvances`).  `CopiesInv` says that what a task
  copied is a whole session of the right kind.  The two properties compare a state
  with the next, so they are proved of each action under that invariant.  That
  message numbers stay within their bound needs a potential: numbers given out
  plus those which tasks may still ask for (`Owed`) never grow.  The largest of a
  set of numbers, where a compaction puts its boundary, exists because the
  smallest of their complements does (lemma `Largest`, from the library's minimal
  elements of well-founded relations): an argument that needs no induction over
  the set.
* `ServicesProofs`, joins: `JoinsAreSound` (`JoinsSound`).  `RefsUnique` (every join
  has a ref of its own), `FramesFit`, `RepliesFit` and `AcksFit` (what travels was
  caused by the join it names, until heartbeats reach the refs of joins) and
  `Listening` (a join that waits is in the map of a connection, or has its answer).
  `RefsBounded` is again a potential: one ref when a join enters the map, one when
  its turn broadcasts and one when it leaves.
* `ServicesProofs`, the self-update: `SwapOwned`.  Unless two runs were in the swap
  at once, the staged file and the copy that a run finds are its own and are as
  whole as its control point says.
* `ServicesProofs`, downloads: `HubAlone`.  Unless two downloads were under way at
  once, at most one is (`OneActive`); it owns the `.part` it streams and finds in
  its own list every file that it may have to remove (`TaskAlone`); a shard under
  its final name has the length that was stated for it, if one was (`TargetsWhole`),
  and with a manifest every shard is there (`ManifestBacked`).  A size of 0 compares
  with no length throughout.
* `ServicesProofs`, previews: unless starts overlapped, at most one is between its
  first step and its store, and while it is, the slot is empty (`StartsApart`); a
  task has a server in its hand only while it is about to kill it (`HandsFit`), an
  open call past its gate carries an origin (`OpensFit`), and no entry, not even a
  replaced one, authorizes more than the user approved (`AllowedApproved`).
* The compositions: `DesktopTypesOK`, `AsksFit` (`AskFits`), `ChangesAreAllowed`
  (`ChangesAllowed`) and `DesktopIsSafe`, which collects what holds of every part;
  `ServicesTypesOK`, `FilesAreWhole` (`FilesWhole`), `PreviewsAreKept`
  (`PreviewsKept`) and `ServicesJoinsAreSound`.  A step of the composition is a step
  of one part and stutters in the others, so a behaviour of the composition is one
  of each part (`PartsBehave`, `ServicesBehave`), and the parts' theorems apply.

Only model-checked: the liveness properties (`DeletedRigForgotten`,
`EnrolledGetsConnected`, `DefaultComesBack`, `ManagedTasksEnd`, `EjectHolds`,
`PickedUp`, `SlotsComeBack`, `TurnEnds`, `TurnsReturn`): liveness under fairness
and ENABLED are out of this prover's reach.  Every other property of a passing
run has a theorem.

Nothing in the modules is recursive.

## 6. What the code does not promise

Runs that show a statement of the repository false:

* `rig_reset`: `reset_to_pairing` is called "safe to call from any loop"
  (`worker.rs:84-85`), but it looks only at whether some rig is enrolled; a loop
  that learned that the previous rig is gone wipes the one paired meanwhile.
* `llama_update_crash`: "the only unsafe crash window" (`llamacpp_updater.rs:596`)
  is not the only one: a crash inside the deletion of the backup, with the
  journal still there, makes recovery reinstate the half-deleted backup.
* `sessions_writeback`: "a full replace is safe" (`chat.rs:709-712`), but the rows
  are fetched before the lock is taken: a local turn saved in between is lost.
* `mcp_secret`: changed servers are relaunched "so the new config/secret takes
  effect" (`worker.rs:556-559`), but a connect that is under way installs a
  client with the old secret after the new one was written.

Weaker guarantees that the modules reproduce and that no run is spent on:

* The "always running the model" guarantee (`worker.rs:401`) covers the handle,
  not the process: a dead child still counts as loaded until something asks it.
* `runtime_lifecycle` "serializes model process lifecycle changes with
  install-tree swaps" (`lib.rs:66`), except that a relayed job starts servers
  without it.
* A turn whose context is full asks the model for a summary before it registers and
  before it looks at the update flag (`local_chat.rs:93`, `local_coding.rs:103`), so
  that request may run, and start a server, while llama.cpp is being replaced.
* A heartbeat whose answer cannot be decoded counts as the answer of a deleted rig
  (`supabase.rs:345`): a rig that is alive forgets its enrollment.
* A web turn whose model has no `.gguf` file on the rig returns with its row in
  "streaming" (`chat.rs:127`), and nothing settles that row later.
* An insert of an inference job whose reply is lost or unreadable
  (`supabase.rs:648-683`) leaves a row that its requester does not know and never
  deletes; a peer may work on it.

* The tray and the credentials are written under two locks (`worker.rs:83-100`,
  `25-48`): a reset and an enrollment that interleave leave the tray on the
  pairing screen over stored credentials, or the reverse, until a restart.
* A completed swap is rolled back at the next start if the process died before
  the backup was deleted, or if `model_settings(model)?` ended the update
  (`llamacpp_updater.rs:263`, `616`), although "completed swaps keep the new
  tree" (`597`).
* A turn may be answered by another model than it asked for: the health poll
  and the completion request go to whoever listens (`llama_server.rs:453`).
* A reconcile tick that has looked at the override and at the snapshot loads
  the default even if the user ejects it, or a turn loads another model, before
  it has the lock (`worker.rs:421-461`); `EjectHolds` says that this ends.
* A claim whose answer is lost, a result whose write is lost, or a restart in
  between leaves a row claimed for ever: at most once, not exactly once.
* A stop that arrives before the turn registered its flag is lost
  (`realtime.rs:246`).
* A heartbeat's ref reaches the first join ref after 99 beats on one socket
  (`realtime.rs:178`): its reply may then acknowledge a join that the server
  never answered, so `JoinAdmitted` speaks of shorter connections.  A join that
  times out may still be admitted, and is then never left.
* Two self-updates at once share the staged file (`updater.rs:255`, "atomically
  replace"): one may copy what the other is writing.  `ExecutableWhole` excludes
  that case; TLC finds the torn executable without the exclusion.  The automatic
  update may also put an older release over a newer one within the three seconds
  before the exit.
* Downloads are "revision-pinned" (`hub.rs:1`) by their URL, but a file of the
  expected length left by an earlier revision is kept, so after a failed download a
  variant may mix revisions.  A file whose size the repository does not state is
  taken at whatever length its stream ended (`hub.rs:436`, `537`).  A failed
  download leaves what it wrote, and a cancel that meets the completion shows
  "canceling" for ever.
* Previews: `open` unwraps an entry that a close may have removed meanwhile
  (`preview.rs:209`); the probe, the exit monitor and the give-up act on whatever
  server is in the slot; the handler of an old window closes a newer entry with the
  same label; a start that overlaps a close creates the entry again.  Of two starts
  that overlap the later one drops the handle of the other's server, which kills its
  shell only (`preview.rs:348`, `375`); neither is a server killed whose shell has
  ended before it, nor one that ignores SIGTERM.
* A desktop chat looks at the trust of a server before it finds or starts it
  (`local_chat.rs`): a mark withdrawn between the look and the request does not stop
  that one write, so `TrustedWrites` speaks of the time the call was in hand.
* The boundary of a checkpoint goes back when a web turn's write-back has dropped
  the message it stood at: the next compaction starts from the first message
  again.  `CompactionAdvances` excludes exactly that.
* Sessions: the save at the end of a local turn brings back a session that was
  deleted meanwhile, a push after the deletion brings back its mirror
  (`lib.rs:1365`), and a push of an older copy leaves the mirror with a wider
  mode than the disk.  `reserve_tokens` of a window of 2048 or less leaves no
  room, and every request counts as full.
* MCP: a connect under way revives a server that was stopped or changed meanwhile,
  and its failure marks the live client of another connect failed; a reconnect made
  by a call does not rebuild the snapshot; a dead server stays "running" until a
  call fails; the reconciliation resets the trust and the disabled tools of servers
  written on the web; two edits of the list lose one (`lib.rs:678`), and handles may
  be set in another order than the file was written.  The write into a server's
  stdin has no timeout (section 4): a server that does not read holds its turn, and
  through a web turn the poll, for ever.

## 7. Not modelled

Wording, layout and logging; HTTP and JSON encodings; the content of prompts,
messages and files; the text of tool calls in a model's answer
(`runtime/tool_protocol.rs`, `runtime/tools.rs`: parsing, with calls or an answer
as its result); hub search and avatars; the scripts that read and drive a
preview page and its logs; the GPU plan and launch arguments of llama-server;
hardware detection and sampling (they read the operating system and keep no
protocol); the front end beyond the enrollment form's guard; the provisioning
scripts (sequential); the Ollama adapter (stateless calls of an external
server).  The control plane is modelled only as the agent uses it: its row
filters, its conditional updates and the fact that tokens of a deleted rig are
refused are external definitions.

## 8. Plan

Done: who this rig is (`RigSession`), what it runs (`LlamaUpdate`,
`ModelResidency`, `AgentUpdate`), what it is asked (`WorkQueue`, `RealtimeHandle`),
what a turn does (`ChatTurn`, `CodingTurn`, `LocalChatTurn`), and what the turns
use (`CodingSessions`, `McpManager`, `McpClient`, `HubDownload`, `CodingPreview`);
and the proof of every safety property the passing runs check.

Next:

1. The safety core of the liveness properties, for every value of the constants:
   that a turn's rounds and calls are used up by its steps (`TurnEnds`,
   `TurnsReturn`), that a slot is held only by a handler which still has a step to
   take (`SlotsComeBack`), that an override is only lifted by a load
   (`EjectHolds`).
2. The lemmas about `ToolPolicy` on their own: a policy offers no tool that it
   refuses, and every offered tool that changes something is gated unless the
   policy is "auto".
3. The relation of `CodingTurn`'s sub-agents to `WorkQueue`'s rows, as a refinement
   of one abstract row.
