# A TLA+ model of Thinkroid Agent Core

This directory holds TLA+ modules that model the concurrent core of the agent
daemon, the configurations under which TLC checks them, and TLAPS proofs of the
results that hold for every value of the constants. Paths are relative to the
repository, which has its program under `src/` and `bin/`; line numbers are those
of the commit the model was made from. `PROJECT.json` maps every definition to
the lines it models.

## 1. The system

One daemon process serves one agent. A host process starts it, talks JSON-RPC to
it over the Node.js IPC channel and restarts it when it dies. The process has one
thread: a handler runs without interruption from one `await` to the next, so
concurrency means that handlers, timeouts and promise continuations interleave at
awaits. What must survive a crash is in two SQLite files per agent:
`agent-core.db` (sessions, history, suspensions, usage) and `memory.db`. There is
no transaction across the two files.

| Component | State | Operations | Talks to |
|---|---|---|---|
| Supervisor (`src/supervisor/`) | map of session statuses, the awake session, two timeouts per live session, wake-condition records | `receiveEvent`, `createSession`, context switch, both TTL timeouts, linger tick, keep-alive, pending requests, archive check | calls the context engine and the Brain, writes `session_meta` and history |
| Context engine (`src/ce/`) | none of its own but the pause flag and failure count of the compaction | route an event; create a session (stage 1); organize context (stage 2); continue in a new session (stage 3); record a turn | called by the Supervisor; reads `session_meta`, memory views, asks the host for prompts |
| Session stores (`src/stores/agent-core-db/`) | `session_meta`, `session_history` | single statements, each its own transaction | everything above |
| Tool loop (`src/handlers/brain-tool-loop*.js`, `brain-chat-tool-stream-handler.js`) | `tool_loop_suspensions` and the locals of the calls in flight | start a loop, round, suspend, resume, replay, revoke | provider, `tool.invoke`, `space.tool.invoke` of the host |
| Cerebellum (`src/cerebellum/`) | two cursors per session, summaries | L1 tick (extract, deduplicate, write, advance), L2 tick (summarize, promote, merge, prune, aggregate) | history, memory, provider; the host calls the ticks |
| Memory module (`modules/thinkroid-memory/`) | memories, tags, edges, audit rows, summaries; a promise-chain lock | write, update, merge, promote, prune, touch, tag graph | Cerebellum, context engine, memory handlers |
| IPC adapter and kernel (`src/adapters/ipc.js`, `src/kernel.js`) | pending requests with timers and chunk chains; handler table | request, response, chunk, timeout, notification, shutdown | every handler |
| Daemon process (`bin/agent-core-daemon.js`) | open databases, signal handlers | startup in fixed order, recovery sweep, SIGTERM/SIGINT | host |
| Tool registry and `tool.invoke` (`src/lib/daemon-tool-*.js`) | registered tools | add, remove, invoke with a time limit | tool loop, host |
| LLM provider and retry (`src/lib/llm-provider/`) | call times of the last minute | retry with backoff, rate limit | all that think |
| Governance delegate, registries, configuration and usage stores, types | little or none | one request or one statement each | |

### What is hard, and what would make each part correct

* **Supervisor.** An event is routed by the persisted rows, before awaits, and
  handled by the state machine in memory, after them. Timeouts, ticks that take
  as long as a Brain call, context switches by other events and crashes come in
  between. Correct means: the map and the awake session agree; rows agree with
  the map; nobody is left live without a timeout that ends it; registration never
  throws; statuses follow `VALID_TRANSITIONS`; a live session retires in the end.
* **Tool loop.** A conversation may be suspended for an approval, survive
  restarts, be resumed, and be suspended again, with a budget of rounds that must
  last for all of it. Resumptions are retried, and race with timeouts. Correct
  means: the budget of the first call is never exceeded; a suspension has one
  outcome; no pending suspension is lost and no conversation forks; every tool
  call is answered before the provider is asked again.
* **Cerebellum and memory.** Cursors are read before a provider call and written
  after it; ticks can overlap; memories and cursors are in two files. Correct
  means: no turn is skipped; what overlaps, failed writes and crashes cost in
  duplicates is bounded; the lock excludes and comes round; graph edges stay well
  formed.
* **Memory store.** Migrations are sequences of statements that commit one by
  one. Housekeeping carries out what a model replies, with ids that it may have
  made up, while recalls touch memories during the call. Correct means: edges have
  both ends; a merge loses neither uses nor tags; the audit trail is complete,
  across migrations cut short too; a memory rises only when it has earned it; the
  walks over the tag graph end and find what they are to find, on cyclic graphs too.
* **IPC adapter.** Responses race timeouts, chunks are delivered along promise
  chains, a frame can be lost with the process. Correct means: every request is
  settled once, chunks arrive in order and before the value, nothing arrives later,
  no caller waits for ever.
* **Daemon.** Startup and shutdown race signals, requests and pushes of tools.
  Correct means: what the host sends after `daemon:ready` is heard; no push is
  lost; the sweep closes the turns of earlier lives and no others.
* **Stage 2 and compaction.** The payload is cut at positions computed from three
  numbers that drift apart: the turn count, the rows and the cursor of layer 1. The
  turn count is read before an await and written after it. The pause flag and the
  failure count are shared by all sessions. Correct means: no row of the history is
  repeated or missing without a reason; breakpoints stand where their zones end;
  the pause is earned.

`PROJECT.json` lists the hazards at their lines, with the properties that
cover them. Three have none, with the reason.

## 2. The modules

| Module | Role |
|---|---|
| `SessionLifecycle` | abstract: what the Supervisor promises about sessions |
| `Supervisor` | the Supervisor with the parts of the context engine that route events and write `session_meta` |
| `SupervisorProofs` | its theorems |
| `MCSupervisor` | model values and symmetry for TLC |
| `SuspensionLedger` | abstract: what `tool_loop_suspensions` promises to the host |
| `ToolLoop` | the three tool-loop handlers over that table |
| `ToolLoopProofs` | its theorems |
| `ToolLoopCounts` | the theorems that count suspensions against faults |
| `MCToolLoop` | symmetry for TLC |
| `Lock` | the promise-chain mutex of the memory module |
| `Cerebellum` | both layers and `memory.write`, over `Lock`, the histories and the two database files |
| `CerebellumProofs` | theorems about both |
| `MCCerebellum` | symmetry for TLC |
| `Settlement` | abstract: what a caller of `request()` or `requestStream()` may rely on |
| `IpcAdapter` | both ends of the channel: the host's adapter, the frames, the kernel's dispatch |
| `Daemon` | the process, over `IpcAdapter`: startup, sweep, tool pushes, signals, restarts; with the host |
| `DaemonProofs` | theorems about both |
| `MCDaemon` | values of the constants for TLC |
| `MemorySchema` | `open()` of `memory.db` and its migrations, statement by statement |
| `MemoryStore` | the memories, tags, edges and audit rows, over `MemorySchema`, with writers, recalls and the housekeeping |
| `TagSearch` | the walks over the tag graph, with what they are to compute |
| `MemoryStoreProofs` | theorems about `MemoryStore` and `MemorySchema` |
| `MCMemory` | symmetry for TLC, and the comparison of the walks with their definition |
| `ContextZones` | the payload of an event and of a tick, stage 2 and the compaction |
| `ContextZonesProofs` | its theorems |
| `MCContextZones` | the histories that sessions come with, symmetry |

In each of them a definition named `Op_Suffix` is `Op` with a plausible mistake.
No action uses it. `PROJECT.json` pairs each property with one of them, and
putting the mistake in place of the operator makes TLC find the property violated.

### Supervisor

One action is the code between two awaits, whole: the writes of the
state machine, the timers, the wake records and the rows that happen in that
stretch are in one action.

| Code | Model |
|---|---|
| `SessionStateMachine._states`, `_currentAwake` | `states`, `currentAwake` |
| `TtlManager._timers` | `timer`: `off` (no entry), `armed` (both timeouts pending), `awakeFired`, `spent` (both fired) |
| `Supervisor._wakeConditions` | `wake`, its keys |
| ticks between their awaits | `lingerTicks`, `keepTicks`, counted per session since they can overlap |
| `session_meta` | `row`, `linger`, `lingerCount`, `pending`, `renewals`, `windowOver` (30 minutes since `keepalive_start_time`), `digested` (both cursors at the end of the history) |
| a call of `session.receiveEvent` | `pc`, `target` (the session it is routed to), `opened` (the row it inserted and has not registered) |

An event goes `idle` → `appending`/`switching`/`creating` at its first await
(`ReceiveEvent`, from the rows alone), then through `AppendToSession`,
`SwitchSession` or `Stage1CreateSession` and `RegisterSession` to `thinking`;
an overflow leads through `compressing` and `continued` back to `thinking`;
`RecordTurnAfterBrain` ends it, `EventFails` at any await. `SwitchSession` and
the ticks test the state machine again after their awaits exactly where the code
does. The crash forgets all memory and keeps the rows, and the new process
registers no session (`CrashAndRestart`).

Abstractions, and why they are harmless:

* Between the insertion of a row and its registration the code only passes
  through resolved promises. Timeout callbacks cannot run there
  (`TimersMayRun`), continuations of other events can.
* The linger flag is written at the end of the assembly of the payload and the
  count is reset by the Supervisor a few continuations later. The two are one
  step; the flag's value is a free choice, so the order cannot be seen.
* Which drowsy session an event's tags overlap with is a free choice.
* `lingerCount` and `renewals` saturate one above the largest value they are
  compared with.
* A rejected tick is an unhandled rejection, which ends the process: it is
  `CrashAndRestart`.
* `incrementPendingRequests`, `decrementPendingRequests` and
  `checkArchivedTrigger` have no caller in `src/`; the model calls them at any
  time. `updateWakeConditions`, `SessionStateMachine.remove` and `shutdown` have
  none either (but the unused registry) and are left out, and so is `freeze`.
* The daemon's configuration leaves lingering off and its text chat never calls
  `onOverflow`. Both are switches of the model (`LingerEnabled`, `Overflows`)
  because the Supervisor implements them.

### ToolLoop

| Code | Model |
|---|---|
| a row of `tool_loop_suspensions` | `rows[s]`: status, approval id, remaining rounds, the cached envelope (`final`) and, of the persisted conversation, `used` (assistant messages the loop added) and `open` (their tool calls that no tool message answers) |
| locals of a handler call | `call[c]`: where it waits (`asking` the provider, `dispatching` a tool), the suspension and approval id it resumes, its budget and round, `used`, `open`, and `queue` (calls of the current message still to be dispatched) |
| what the host gets | `call[c].reply`; envelopes are told apart by the call that made them |

`grant` and `parent` in a row are history: the `maxToolRounds` of the first call
of a chain, and the suspension whose resumption made the row. No guard reads
them. `brain.toolLoop` and `brain.chatToolStream` have the same control and share
their actions. A resumption reads its row when it starts and rewrites it,
unconditionally, when it ends; the row of a chained suspension is inserted one
statement before that. So a crash may tear the two (`Commits` lists what a call
can have written when the process dies before its reply is sent), and a failing
`markResumed` does (`ChainRejects`). Both are counted in `faults`.

`Overlaps` says whether the host may resume, or revoke, a suspension while a
resumption of it runs. Nothing in the daemon prevents it, and the host's timeout
of 300 s for the method makes it happen; with `Overlaps = FALSE` the model says
what is true of a host that waits.

Left out: token usage notifications, stream chunks, message texts, whether a tool
is local or remote. Every tool may answer, fail, be unknown, or want an approval.
(A resumption is seldom given tools, and then knows none; the model allows it to.)
`markCancelled` and `markExpired` have no caller in `src/`; `Revoke` calls them at
any time.

### Lock and Cerebellum

| Code | Model |
|---|---|
| `Lock._tail` | `chain`, the tasks whose gate is not open; `waits[t]`, the closed gates that the tail task `t` found stands for; `inside` |
| `session_history` | `length[s]`: its turns are `1..length[s]` |
| the session's status | `status[s]`: awake and drowsy ones are both `live` |
| `cerebellum_l1_cursor`, `cerebellum_l2_cursor` | `cursor["l1"]`, `cursor["l2"]` |
| memories written by a pass | `stored[l][s][i]`: how often a memory of turn `i` was written |
| a call of a tick or of `memory.write` | `task[t]`: where it is, the sessions still to do and their cursors (`todo`, `from`), the session at hand and the length found (`at`, `upTo`), what survived deduplication (`survivors`), whether housekeeping is `due` and how much is `left` |

`read` and `dropped` are history: the turns that a committed pass put to the
model, and those in the batch of a failed extraction, which layer 1 gives up.

`Cerebellum` extends `Lock`; each of its actions is one action of the lock or
leaves the lock alone, which is proved. A pass goes `sweeping` → `asking`
(`AskModel`: the length is read here) → `locking` (`ModelAnswers` or
`ExtractionFails`) → `inside` → `leaving`. The function under the lock has no
await, so `Commit` is one step; `CommitFails` and `Crash` stop it after any of its
writes, since each memory is a transaction of its own and the cursor is in the other
file. Layer 2 goes on to the level summaries (asked outside the lock, written
inside) and the housekeeping, which holds the lock across its model calls.

Abstractions:

* The model calls of one pass, of which none writes anything, are one step.
* Which turns bring a memory that is no duplicate, which sessions come first,
  whether housekeeping is due, how many levels are due and how many calls the
  housekeeping makes are free choices. So intervals, summary schedule, similarity
  and the choice of the memory layer do not appear.
* `checkArchivedTrigger` has no caller in `src/`; `Archive` calls it at any time.
* The summary column, `last_l2_at` and what housekeeping does to memories
  already written are left out. Memories that `memory.write` stores come from no
  turn.
* A crash keeps `overlaps`, which counts the ticks that ever started beside
  another of their layer. The handlers do not exclude that.

### Settlement, IpcAdapter and Daemon

| Code | Model |
|---|---|
| the promise of a call | `call[r]`: `idle`, `open`, or how it was settled |
| `_pendingRequests` with its timers | `pending` |
| a stream whose terminal frame has come, and its `chunkChain` | `draining`, `chain[r]` (chunks on it), `busy` (an `onChunk` has not settled) |
| `adapter.started` in the host, `child.killed` | `hostUp`, `killed` |
| frames | `toPeer` (one queue), `wire[r]` (the answers to one request) |
| the process's adapter is started | `listening` |
| a handler's call | `work[r]`; `said[r]`, the chunks it has emitted |
| how far `main()` has come | `phase`: `waiting` (S1 to S9), `binding` (S10), `serving`, `draining` |
| `session_history.status` | `row` |
| `toolRegistry`, and the host's tools | `registry`, `catalog` |

`heard`, `bornIn`, `relied` and `unswept` (the last sweep failed) are history. Steps without an await between
them are one action: S2 to S9 after the init message, S11 to S17, the closing of
the databases. `Serve` sends `daemon:ready` and starts to listen in one step;
that is the claim of `ReadyIsHeard`, and the mistake it is paired with is to send it
one await earlier.

Abstractions:

* The answers to one request have no effect on another, so each has a queue of its
  own, which covers all orders in which they mix.
* What the pipe had not taken when the process died is lost (`LosePeer`); a
  prefix of each queue survives.
* The host is outside the repository. It stops its adapter when the process is
  gone, sends the init message first, and pushes each change of its tools.
* Any failure of the start is one of the faults (`kills`), and so is a kill, and a
  sweep that throws, which the code only warns about. Exit codes are left out.
  `StaleTurnsSwept` excuses only the last of these, by `unswept`: it holds after a
  clean shutdown, a kill and a start that failed alike, and again once a later life
  has swept.
* Calls that the daemon makes of the host run the same class and are not
  composed here. Neither are other notifications, whose receivers are outside.

### MemorySchema, MemoryStore and TagSearch

| Code | Model |
|---|---|
| `PRAGMA user_version`, the tables, the statement `open()` executes next | `version`, `tables`, `stage` |
| `memory_audit` and its copy during a rebuild | `rows` |
| `memories`: layer, `access_count`, `decay_score` | `layer`, `used`, `decay` |
| `tagged_with` edges, `tags`, `parent_of` edges | `tagged`, `tags`, `tree` |
| the housekeeping of layer 2 under the lock | `step`, `mode` (asking the model, carrying its reply out, falling back), `left`, `cut` |

`lineage`, `touched` and `given` are history: who was merged into whom, how often
each memory itself was touched, and the tags it was written with. A transaction is one
action. A reply is any set of well-formed lines with any ids, since none is compared
with those the question named. Recalls (`Touch`) come in while a question is out,
crashes anywhere.

Abstractions: contents and embeddings are left out; which pairs overlap and what
the model says of them are free choices; new decay scores are any; ranking is not
modelled. `relateTags` has no caller in the daemon; it is an action because the
cycle search is about what it makes.

The walks of `TagSearch` are the loops of the code: a record of its variables and a
function that is one round of it, which reads one row of one tag and leaves the state
alone when the loop has ended (`Rounds`). They are compared with a definition by sets,
on every graph of three tags with the successors in every order and for limits of 2, 3
and 4. The limit is `MAX_TRAVERSAL_NODES`, 10000 in the code, which the tests cannot reach
(`views.test.js`). Each walk compares with it at a different place, and
`Whole` says what all three promise: a result is never cut short. Where a walk throws,
the graph has as many tags as the limit. The converse holds only for `findByTag()`;
the others may come to their last tag without another look at the limit.

### ContextZones

| Code | Model |
|---|---|
| `session_history`, `turn_count`, `cerebellum_l1_cursor` | `rows`, `turns`, `cursor`; the history of `s` is the rows `1..rows[s]` |
| `_compactionPaused`, `_compactionFailureCount` | `paused`, `failures` |
| locals of an event or a tick | `call[c]`: where it waits, the snapshot (`first`, `last`, `turnCount`, `boundary`), the block and attempt it is at, and the payload so far (`out`, `bps`) |

`completed`, `overtaken` and `outcomes` are history, and so is `condensed` in a call:
the rows the model had deleted or summarized. The sizes 5, 5, 20 and 4 are those
of the code. An event goes `idle` → `prompt` → `think`, by way of `compact` when an
organisation is due: one step for each answer or failure of the model, since a block
is one request, retried once. `thrown` is where `assertBpInvariant` throws.

Abstractions: what a row says, zone B, tags, summary, size and the linger flag
are left out; a tick does not end in an organisation; the deletion or
replacement of a block is by its rows. The routing of events is in `Supervisor`, passes
of layer 1 that rows overtake are in `Cerebellum`.

## 3. What TLC checks

All runs switch deadlock checking off: a daemon with nothing to do is
not stuck, and the bounded supply of ids ends every behaviour.

| Run | Instance | Shows |
|---|---|---|
| `sup` | 2 sessions, 2 events, lingering and overflows on, 1 tick in flight, linger maximum 1, 1 renewal, 1 pending request, 1 crash | `TypeOK`, `OneAwake`, `RowsAgree`, `NeverStranded`, `WakeRecords`, `CreateNeverThrows`, `RowsOwned`, `OrphansKeepTheirStatus`, `RowsFollowTheEdges`, that `Supervisor` implements `SessionLifecycle`, and `LiveSessionsRetire` under `FairSpec` |
| `sup_linger` | finds a violation | `LingerBounded`: see findings |
| `tool_safety` | 3 calls, 3 suspensions, 2 approvals, budgets up to 2 rounds, messages of up to 2 tool calls, 1 fault, no overlaps | `TypeOK`, `BudgetKept`, `OneOutcome`, `OrphansCounted`, `HeirsCounted`, and that `ToolLoop` implements `SuspensionLedger` |
| `tool_overlap` | as before, overlaps, no faults; finds a violation | `IdempotentPerApproval`: see findings |
| `tool_dangling` | finds a violation | `NoDanglingToolCalls`: see findings |
| `cereb_safety` | 1 session of up to 2 turns, 2 layer 1 ticks, 1 layer 2 tick, 1 overlap, 1 fault | `TypeOK`, `MutualExclusion`, `NoTurnSkipped`, `CopiesBounded`, `CursorsAdvance` |
| `cereb_liveness` | 1 session of 1 turn, 1 tick per layer, 2 calls of `memory.write`, 1 fault | `CallsEnd` under `FairSpec` |
| `daemon` | 2 lives of the process, a plain call and a stream of up to 2 chunks, 1 push of a tool, 1 fault, 1 row from before the status column | `TypeOK`, `ReadyIsHeard`, `ToolsInStep`, `NeverOrphaned`, `StaleTurnsSwept`, `SweepSpares`, and that `Daemon` implements `Settlement` |
| `memory` | every version of the schema, 3 memories, 2 tags, threshold 2, 2 touches, updates or tag relations in all, 1 housekeeping, 1 fault | `TypeOK`, `NoDanglingEdges`, `HeirsInherit`, `AuditTrail`, `TrailOnlyGrows`, `PromotionEarned`, `SearchesMatch` |
| `memory_open` | as before; finds a violation | `OpenMeansUsable`: see findings |
| `stage2` | 1 session with one of 4 histories, 2 calls | `PayloadWhole`, `TurnsCounted`, `PauseEarned` |
| `stage2_user` | as before; finds a violation | `UserMessageReachesBrain`: see findings |

Why the bounds are enough for the cases that matter:

* Two events over two sessions are what a race for the awake role needs: one holds
  a routing decision or an unregistered row while the other takes the role away.
  A timeout or a crash comes in between, and a tick overlaps an event. Liveness is checked on the
  same instance. What more events, sessions and ticks could do to the safety
  properties is settled by the proofs, which have no bounds.
* A chain of suspensions needs three calls (start, resume, resume again) and
  three rows. Two approvals are needed for a resumption under another one.
  Budgets of 1 and 2 contain the last-round suspension (0 rounds left). Two tool
  calls in a message are needed for one to be dropped.

* Two turns and two ticks of a layer are what it takes for the batches of two ticks
  to differ, hence for a cursor to move back and a turn to be stored twice. Sessions
  share nothing but the lock, for which three tasks compete. Four tasks
  compete in the liveness run, one of which holds the lock across a model call.

* Two lives are what a stale row, a late answer and a lost push need: one to leave
  them, one to meet them. A call of the first life is still open, with its timer, in
  the second. The fault can be the kill that ends the first life with a turn in
  progress, and the second life then sweeps. Two chunks can be out of order, or one
  behind the value.
* Three memories give a merge into what was merged before. One touch is worth two
  uses, so that it reaches the threshold, and another can come during a question. One fault falls between any two statements of
  a migration, or between the two statements that delete a tag. Two relations make a
  cycle, three tags in `TagSearch` two cycles that share a tag, and the limits are
  less than, as much as and more than those tags.
* The four histories give stage 2 a single short block, a block behind a front,
  two blocks behind a window that layer 1 holds open, and three blocks. Two calls are
  needed to overtake an organisation, and three failures to pause. The numbers of the
  code are kept, and the histories are chosen to sit on its boundaries.

The proofs below lift all these bounds, for all properties but liveness.

**Fairness.** `FairSpec` asks that a step of an event that is enabled for good
is taken (the request for a prompt times out after 30 s, the provider client has a
time limit of its own), that timeouts fire, that ticks end for the same reason,
and that the clock passes the keep-alive window. It does not ask the host for
anything: events may stay away, requests unanswered, the Cerebellum uncalled.
The `FairSpec` of `Cerebellum` is of the same kind: model calls end, since the provider
client has a time limit, and a continuation whose promise has resolved runs. Fairness
of each task alone is enough; that a waiting task is not overtaken for ever
comes from the chain, not from an assumption of strong fairness. The other
modules have no fairness: their liveness is said by invariants. `NeverOrphaned` gives
every open call a timer or a chain that settles it, and `NeverStranded` every
live session a timeout.

## 4. What the violations show

* `sup_linger`. `_checkLingerConditions` compares the count before the awaits of
  the tick and `_triggerLingerTick` increments it after them. When the session is
  switched to and falls drowsy again while a tick is in flight, a second tick
  passes the same comparison. The count, and the number of ticks, exceed
  `max_linger_count`.
* `tool_overlap`. Two resumptions of a pending suspension that overlap both run
  the loop, the tools included, and answer differently, though the method is
  documented as idempotent per suspension and approval.
  `tool_safety` takes a host that waits for one resumption of a suspension to end before it starts the
  next or cancels it, so its properties cover retries, failures and crashes and say
  nothing of overlaps; this run alone does.
* `tool_dangling`. When one call of a message wants an approval, the calls behind
  it are dropped for good, and the resumed conversation goes to the provider with
  tool calls nobody answered.
* `memory_open`. The rebuild of the audit table for version 4 drops the old table and
  renames the copy in statements of their own. When one fails in between, the
  error is called non-fatal ("old schema still functional") and `open()` goes on without an
  audit table; every write of a memory then throws, in this life and in each later one.
* `stage2_user`. The payload of an event ends with the message of the event. On
  every fourth turn stage 2 rebuilds the payload from the history, to which that
  message is appended only after the inference: the Brain is asked to go on from the
  previous turn.

## 5. What is proved

TLAPS checks every proof from nothing, for any finite or infinite sets of
sessions, events, calls, suspensions, tags and tools, and any bounds. The only assumptions
are those named in the modules: null values are no ids, bounds are natural
numbers, switches are Boolean.

**Supervisor.** The invariant `IInv` is the conjunction of `TypeOK`, `OneAwake`,
`RowsAgree`, `NeverStranded`, `WakeRecords` and `CreateNeverThrows`. None of the
parts survives a step alone. For instance, registration overwrites the row of
the session, and keeps `RowsAgree` only because `CreateNeverThrows` says that
nobody has registered it yet; `WakeRecords` needs `OneAwake` to know which
session falls drowsy. `IInvInit`, `IInvNext` and PTL give `Invariance`, and
each part is a theorem of its own. From `IInv` follow the action
properties `RowsFollowTheEdges` and `OrphansKeepTheirStatus`, the invariant
`RowsOwned`, and the refinement of `SessionLifecycle`: `LifecycleNext` maps each
action to one abstract action (creation and switching to `Open` and `Wake`, the
timeouts to `Doze` and `Retire`, the crash to `Restart`) or to a stutter.

**ToolLoop.** `LoopInv` strengthens `TypeOK` and `BudgetKept` with `Accounted` (a
resumption in flight has used what its row had used plus its rounds), `Blank`,
`ParentsExist` and `AnswersCached`. It is inductive whether resumptions
overlap or not, so the budget theorem needs no assumption about the host. With
`Overlaps = FALSE`, `AloneInv` is inductive too: a resumption in flight has its
row pending and for itself, and an answered one left its answer and its approval
in the row. `OneOutcome`, `IdempotentPerApproval` and the refinement of
`SuspensionLedger` follow. The step that needs the assumption is the rewrite of
the row at the end of a resumption, which is where the code is open to overlaps.

`ToolLoopCounts` proves what faults can cost. `UntoldInv` bounds the suspensions
whose id no reply has carried: a step either makes none, or one that it tells of
(`NewFrom`), or one that it does not, and then `faults` has grown. A pending
suspension that cannot be reached is one of those. `HeirInv` does the same for the heirs of
each suspension: while it is pending it has no more heirs than there were faults,
and the resumption that closes it may add one. Sets are compared by
`FS_Subset` and `FS_AddElement`; no induction is needed.

**Lock and Cerebellum.** `MutualExclusion` is not inductive: the lock records no
owner. `Ordered` is: of two tasks with closed gates one waits for the other, and
nobody inside waits. `CerebellumExcludes` shows that the consolidation is
an implementation of `LockSpec`, so the lock's theorem carries over.
`NoTurnSkipped` needs to know what a tick holds on to: `LocalsOK` and
`SnapshotsCovered` say that the cursor a tick took when it started is one
behind which all turns are covered, for good, whatever other ticks do meanwhile.
`CursorsAdvance` rests on `Alone`: while no ticks of a layer have overlapped there is
one, and its cursors are those of the table. `CopiesBounded` is a potential
argument: `Copies` says that the copies made, plus the ticks that threaten to make
another one (`Threats`), never exceed the faults and overlaps counted and the one
regular pass. A commit turns a threat into a copy, a fault pays for what it
leaves undone, and a tick that starts beside another is counted when it starts.

**Daemon and IpcAdapter.** `DInv` follows a chunk on its way. For a stream that is
awaited, the chunks said are those heard, those on the chain and those on the wire, with
consecutive numbers (`PerCall`, `PerWire`), and a result on the wire says how many came
before it; so a stream drains when it has heard all of them. `FrameInv` says that a
request is on its way once and not after it was taken, which keeps a second life from
answering a call of the first. `PhaseInv` ties readiness to listening, `ReliedInv` and
`RowInv` are what `ReadyIsHeard` and `StaleTurnsSwept` need between the start and
the end of a life. A sweep that succeeds closes every turn in progress, whatever ended
the lives before, and the turns begun after it are of its own life; the rows a failed
sweep leaves are excused until a later life sweeps. From `DInv` follow the refinement of `Settlement` (each step is one
abstract action or a stutter; a stop is one `Fail` of all pending calls) and the action
property `SweepSpares`.

**MemoryStore.** `MInv` adds to `AuditTrail` and `NoDanglingEdges` what the code
that is under way relies on: a copy that is about to replace the audit table has its rows
(`StageInv`), a tag without edges gets none until its row is gone (`ModeInv`), the memory
a contradiction removes is there (`LeftLives`), and the candidates for a promotion have
been used often enough (`CandidatesEarned`), which holds across an await because
uses only grow while a memory lives. `RecordTrail` says what a transaction does to the
trail; each operation is then one step that cites it. `HeirsInherit` is not inductive:
`Inherited` says it of every memory that has a row, and that their lineages are disjoint.
Uses are the number of pairs of a memory and one of its touches, so a merge is the
union of two disjoint sets, and no sum over a set is needed.

**TagSearch.** `RoundsEnd` is the argument for all four loops: a state that is not an end
gets further with some tag and falls back with none, how far it gets is bounded by the
rows of a tag, so so many rounds (`Enough`) are enough. `Below` is the invariant of the
walks that keep tags for later: what is visited can be reached, and a visited tag
that does not wait and is not at hand has had all its rows read. `Spreading` adds the distance of
the two queues of `findRelated()`, `Grown` is the invariant of the recursion of `getTagTree()`.
`Searching` is that of the cycle search, by sets: which calls are open (`Numbered`), what is
complete (`Complete`), who on the stack reaches whom (`Tied`), and what the low link of a
call says (`Linked`). From it follows `TarjanCycles`, that the components found are
those of two nodes and more. `WalksAgreeAlways` says for every finite graph, root and
limit of two and more what TLC checks on small ones, and `SearchesMatchAlways` adds that the
housekeeping finds a cycle if and only if the store has one; that its tags are finitely
many (`TagsStayFinite`) is not assumed.

**ContextZones.** `TurnsCounted` bounds the lost update of `turn_count`. It is not
inductive, since a compaction writes back what it read: `CountInv` says of each count
held by one under way what it says of the table. `PauseEarned` rests on
`FailuresInARow`: the failure count is never ahead of the failures at the end of the
record, however the blocks of different sessions interleave.

`PayloadWhole` rests on `PayloadInv`, which says of a compaction under way how far its
payload has come. `Laid` says of a stretch of messages that it stands for the rows from a
to b, in order, but for some that are condensed; `Joined` puts two stretches together, and
lemmas on the computed boundaries (`WindowBounds`, `FrontBounds`, `ZoneEnds`, `BlockBounds`) say
that the zones follow one another. They hold for histories of any length and for any drift between
the count, the rows and the cursor; the runs check the boundaries.

**Induction.** The induction theorems of the library take an operator as a parameter, which the
provers cannot instantiate. Where a proof needs induction it is over sets: `AllNat` says that a
set of numbers with 0 and the successor of each has all, `LeastNat` that a set of numbers has a
least one, and both follow from the well-foundedness of the order.

**Only model-checked.** `LiveSessionsRetire` and `CallsEnd`: liveness under
fairness is beyond the prover. All invariants and action properties of the passing runs are
proved, and so are the refinements.

## 6. What is not modelled, and the plan

Not modelled, with the reason:

* *LLM provider, retry and text chat.* The provider is external, and its answers
  and failures are choices in the modules that ask it. `callWithRetry` keeps no state
  between calls but the window of the rate limit, and no caller in the daemon sets a limit.
* *`tool.invoke` and the governance delegate.* One request with a time limit and
  no state of its own. What the tools do is outside the repository.
* *Registries, configuration and usage stores, types, formatting, the REST stub, the
  console wrapper, the contract validators.* Maps to handles, statements complete in
  themselves, checks of shape, I/O and wording.
* *Of the memory module:* the operations the daemon never calls (`createTag`,
  `updateTagDescription`, `renameTag`, `unrelateTags`, `noteBrainInclusion`), the
  summaries table, and the ranking of a search.
* *Of the context engine:* what zone B says, and the tags, summary and size that are
  written with the turn count; the text that stage 3 compresses (its new session is in
  `Supervisor`).
* *Of the IPC adapter:* calls the daemon makes of the host, composed with a
  handler that waits for them.

What could follow, in order of what it would add: the composition of a handler
that calls the host (a prompt request, `space.tool.invoke`) with the adapter, so
that its timeout meets the host's; liveness of `Daemon` under fair timers; the timers of the
tick driver and of the summary schedule.
