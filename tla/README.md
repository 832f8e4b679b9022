# Verification of the Lark bridge

The program connects a Feishu (Lark) bot to coding agents that run on the
machine of the person who owns the bot. A message becomes a *turn*, the turn
becomes a *task* in the serial queue of a workspace (a working directory), the
task becomes a *run* of an agent process, and the run is shown on a streaming
card that a person can stop and on which she answers the agent's requests for
approval. Everything happens on one Node.js event loop: there are no threads,
but there are many `await`s, and between any two of them other handlers run.
Most of what can go wrong is state that was read before an `await` and is used
after it. Two things lie outside the loop: the agent processes, which end,
stall and write files when they like, and other starts of the bridge.

The directory holds TLA+ modules of the parts with state worth checking, TLC
configurations that check them on small instances, and TLAPS proofs of most of
the safety properties for every instance. Source paths below are relative to
`src/src/`.

## 1. Inventory

How the parts are connected:

    Connector ──events──> TurnAssembler ──turns──> Bridge ──tasks──> QueueManager
        │                      ^                      │                   │
        └──card actions──> Router ──flush, stop,──────┤        (task body)│
                             │     cancel, run now    v                   v
                             ├── queue cards      Runners <── run ── forwardToClaude
                             ├── list cards           │ wire             │
                             ├── configuration    translators ──> run state ──> CardSession
                             │                        │ approvals
                             └── sessions         ApprovalCoordinator
                                  (store, readers of the agents' files)

| Component | Source | State it keeps | Operations |
|---|---|---|---|
| Queue manager | `bridge/queue-manager.ts` | promise chain, list, index by message id, count, executing slot, interrupt credits, replacement closures, status cards of each workspace | enqueue, begin/skip/settle of a link, remove, edit, reset, card updates |
| Bridge: runs, runners, stops | `bridge/index.ts` | `activeRuns`, cached runners, stale slots, exit dispatcher | forward a turn, the loop over the events of a run, compaction, finalize, interrupt, clear and evict runners |
| Approval coordinator | `bridge/approval-coordinator.ts` | requests of one run with state, timer, seen nonces, answers | request, resolve, answer, submit, expire, end of turn |
| Recovery handoff | `bridge/recovery-handoff.ts` | one record per user, workspace and agent on disk | record, prepare, acknowledge, publish to the memory service |
| Inbound media, final usage | `bridge/inbound-media.ts`, `final-usage.ts` | files in a download directory | download, format |
| Turn assembler | `inbound/turn-assembler.ts` | one bucket per user and chat: parts, downloads, timer | ingest, timer, settle of a download, flush |
| Inbound events, prompts | `inbound/event.ts`, `prompt.ts`, ... | none | pure |
| Card sessions | `card/card-session.ts`, `run-card-session.ts`, `bash-card-session.ts` | state, flush timer and flags, stream promise | start, push, flush, finish, settle |
| Run state, renderers | `card/run-state.ts`, `run-renderer.ts`, ... | blocks, result, approvals, terminal of a run | pure reducer and renderers |
| Router | `router/index.ts`, helpers | pending configuration, sort order; the rest travels in the buttons | commands and card actions |
| Agent configuration forms | `router/config/`, `config/` | configuration file, choices of each agent | edit, difference, patch, rewrite |
| Connector | `connector/` | SDK client | send, patch, stream, download |
| Runners: common machinery | `runner/common/` | process, slot, connection, pending requests, pid file | run, stop, request, close, idle |
| Runners per agent | `runner/claude`, `codex`, `kimi`, `opencode`, `pi`, `dsh`, `bash` | the turn, its queue of events, items of the protocol | translate a protocol into events |
| Session store, readers | `session/` | session per user and agent with epochs, on disk; an index of transcripts | get, set, clear, switch; list, read, search |
| Workspaces, orders | `workspace/`, `order/` | saved lists, on disk | save, use, edit, remove |
| Persistence | `persistence/` | none | write a temporary file, rename |
| Instance lock, restart | `instance-lock.ts`, `restart.ts` | lock file, replacement process | acquire, verify, release, restart |
| Wiring | `index.ts` | handlers, exit path | connects the above |
| Clone, update, binder, ... | `clone.ts`, `update/`, `binder.ts`, ... | CLI state | set-up commands |
| Platform | `platform/` | none | spawn, terminate, identify processes |
| Logger, helpers | `logger/`, `common/` | none | |

What is hard about each, and what makes it correct:

* **Queue manager.** A lane's chain, list, index, count and credits are five
  views of the same tasks, and callbacks change them between begin and settle.
  Correct: one task at a time in order, a cancelled task never runs, the last
  edit runs, the count never hides the running task nor leaks, the views agree.
* **Queue cards.** Sends and patches are awaited while the queue moves on, and
  patches overtake each other. Correct: a card at rest tells the fate of its
  task; "run now" cancels only what is ahead of its target.
* **Bridge.** `interruptCurrentRun` awaits the stop of a runner for seconds;
  meanwhile the run ends and its successor begins. A configuration change or a
  full cache discards runners. Correct: no live run loses runner or entry, no
  message is dropped, the workspace is given back, new runs use the new
  configuration.
* **Session pointers, recovery.** A run reports its session after a command has
  moved the pointer; a context overflows while messages wait; the process ends
  between two writes. Correct: the command stands, no message goes on with the
  session that overflowed, a handoff is published once.
* **Agents.** Answers are late, pipes break, processes ignore a request to stop,
  results of an earlier turn are still in a queue. Correct: every turn ends, with
  its own result, and no process is lost.
* **Translators and reducer.** The same text comes as deltas, snapshots and
  authoritative text, of interleaved items. Correct: the card tells once what
  was said, how each tool went, and how the run ended.
* **Approval coordinator.** Clicks, redelivered clicks, timers, failures of the
  answer and repeated requests race. Correct: one answer per ask, no click counts
  twice, nothing waits for ever.
* **Turn assembler.** The timer, downloads and flushes all commit one bucket.
  Correct: every event in exactly one turn, in order, with its downloads; what has
  no text never starts the agent, and is acknowledged.
* **Card sessions.** Updates in flight land in any order and may fail; several
  parties finish the session. Correct: the terminal frame is shown and stays.
* **List cards, configuration.** A card is clicked on long after it was drawn;
  files change, a write fails, the program restarts. Correct: what was deleted
  stays deleted, the newest card is shown, a save loses nothing.
* **Readers.** Other processes write, move and delete the transcripts meanwhile.
  Correct: whole lines in order, each response counted once, the index no older
  than the fingerprint it shows.
* **Instance lock.** Two starts interleave between file operations; crashes leave
  stale files; pids are reused; an exit on a signal releases twice. Correct: the
  running bridge owns the lock.

`PROJECT.json` lists the hazards one by one at their lines.

## 2. Modules

| Module | Models | Builds on |
|---|---|---|
| `SerialQueue` | what a lane promises (abstract) | |
| `QueueManager` | the queue of every workspace | refines `SerialQueue` (`Lane`) |
| `BridgeRuns` | runs, runners, stops, compaction, configuration | `QueueManager` |
| `QueueCards` | status cards of the queue and their buttons | `QueueManager` |
| `TurnAssembler` | one inbound bucket | |
| `CardStream` | one streaming card | |
| `InstanceLock` | the lock file and `/restart` | |
| `SessionPointers` | session store, the commands that move it, the write-back of runs | |
| `RecoveryHandoff` | the recovery record, the replayed message, the memory service | |
| `ApprovalCoordinator` | approvals of one run and the idle watchdog | |
| `AgentConnection` | transport, client, slot of the connection manager | |
| `AgentTurn` | turns of the codex, kimi, opencode and pi runners | `AgentConnection` |
| `ClaudeSession` | the long-lived claude process over its turns | |
| `RunState` | the reducer from events to what the card holds | |
| `AgentWire` | one run from the wire to the card, and its ends | `RunState` |
| `CodexTranslator`, `AcpTranslator`, `PlainTranslators` | what each agent's wire becomes | `AgentWire` |
| `AgentEvents` | the translators side by side | the three above |
| `ListCards` | pages, controls and input of a list card | |
| `FileCards`, `OrderCards`, `WorkspaceCards` | `/ls`, `/order`, `/ws` and `/active` with their stores | `ListCards` |
| `ConfigEdits` | the configuration, its card and its saving | |
| `SessionUsage` | what the readers make of records (operators) | |
| `SessionLog` | a transcript read while it is written | `SessionUsage` |
| `SessionIndex` | claude's index of transcripts and the search | |
| `QueueManagerProofs` | proofs about `QueueManager` | |
| `BridgeRunsProofs`, `QueueCardsProofs` | proofs about `BridgeRuns` and `QueueCards` | `QueueManagerProofs` |
| `ClaudeSessionProofs` | proofs about `ClaudeSession` | |
| `AgentEventsProofs` | proofs about `AgentEvents`: the translators, the wire and `RunState` | |
| `AgentTurnProofs` | proofs about `AgentTurn` and `ApprovalCoordinator` | |
| `EdgesProofs` | proofs about `RecoveryHandoff`, `TurnAssembler`, `CardStream`, `InstanceLock` and `SessionPointers` | |
| `ListsProofs` | proofs about `FileCards`, `OrderCards`, `WorkspaceCards`, `ConfigEdits`, `SessionIndex` and `SessionLog` | |

Each `MC...` module instantiates one of them for TLC; `MCEdges` and `MCLists`
put parts that share no variable side by side, one at work in each behaviour.
An operator whose comment calls it a mutant is a plausible bug of the definition
after it; no specification uses it. With it in place of the definition, TLC
finds the property that `PROJECT.json` pairs with it violated, which shows that
the property depends on that code.

### QueueManager

`enqueue()` appends a link to the promise chain of the workspace
and registers the task in `queuedTasks` and `taskIndex`. When the chain reaches
the link, it runs the task (`BeginTask`) or, if the task has left the index,
skips it (`SkipTask`); a microtask later it settles (`Settle`, with
`DecrementExecutingCount`). `RemoveFromQueue`, `EditQueuedTask` and
`ResetExecutingCount` are called by card actions and by interrupts between any
two of these. Slots are minted in order, and chain and list only grow at the
end, so each is the *set* of its slots; order is the order of the numbers. A
text is its version number; a closure in `taskReplacements` is the version it
captured. The count does not go below zero, as in the code, and its floor of one in
`BeginTask` is the code's self-heal. Abstracted: the layout of cards, the pruning
of `beganMessageIds` beyond 10 000 entries. History variables (`executed`, `removed`,
`stopped`) are named as such; no guard reads them except `HasBegun`, which
limits late resets to slots that have begun, since the code reads the slot from
`executingSlot`.

### BridgeRuns, QueueCards

`BridgeRuns` adds to every queue step what the body of a task does.
`ForwardToClaude` is begin, `getRunner` (with eviction of idle slots over
`MaxCached`) and registration in one synchronous stretch. `StreamEnds` covers
every way a stream ends. `FinalizeRun` drops the entry, acts on a
stale mark, and evicts the runner of agents whose runner does not outlive a run.
`InterruptBegins`/`InterruptEnds` surround the await of the runner's stop, which for
an immediate stop returns once SIGKILL was sent, or at once while the run is being
set up: what follows it may come while the stopped run is still live.
`BeginCompact`/`StartCompact`/`EndCompact` are the compaction, whose check and
registration are separated by a send, and which takes the directory of its user when it
runs, not that of its lane. The agent is pinned when a task is queued.

`QueueCards` adds to the queue the send of the card, patches in
two steps (await the send, then patch) and the handlers of the buttons; a run is
reduced to live, ended, over. `InterruptReturns` and `ImmediateResumes` are the
continuations of "run now" after its awaits; the stopped run may be live still. A click is possible while the card
shows its button (`Clickable`). Equal patches in flight merge.

### SessionPointers, RecoveryHandoff

`SessionPointers` has the entry of one user with its epochs, the file it was last
written to, the commands (`/new`, `/cd`, `/resume`, the switch of the agent),
the bindings of messages that wait, and runs that write back the session they were
given. A crash loses the epochs and keeps the file.

`RecoveryHandoff` has the record on disk, the chain of sessions it leads along, the
pointer of the store, the bindings in the lane and the memory service, whose
answers may be lost after it has done what it was asked. `record`, `prepare`,
`acknowledge` and `sync` are actions. The record may fail to be read or written in
`prepare`, `bind` and `record`: `forwardToClaude` logs that and goes on. The process may
end between any two awaits.

### AgentConnection, AgentTurn, ClaudeSession

`AgentConnection` holds the operators for processes, clients with pending
requests and the slot of the manager; `AgentTurn` composes them with the turn of
a runner: setup with its retry, the event queue, stop, idle watchdog, eviction,
the slot's idle timer. Settling a request and the handlers it wakes are one step;
the code after an `await` runs later. Of the events only results are kept, named
by the attempt they belong to.

`ClaudeSession` has one process per generation, the reader's queue, the turn that
takes from it, graceful stops that are awaited and stops at once that are not, the
pid file and the runners that follow one another in the slot. The lane is
strictly serial. `run()` and the spawn are atomic, except for the awaited spawn
error; the reading of a plan file is the only asynchronous translation; a
process that was killed is gone before the next one is spawned, since cards are
sent in between. The terminator is the posix one.

### RunState, AgentWire and the translators

`RunState` is the reducer as operators on a record: blocks of text and thinking
with the mark of what was cut, tools, plans, changes of files, approvals, the
result and the terminal. A text is the sequence of its chunks. `AgentWire` is the
loop of the bridge over these events and the ways a run ends: its stream comes to its end
or throws, a person stops it, the idle watchdog does, or an approval expires; what
comes after the first of them may still change the card. The translators
turn each message of an agent's wire into events; what the agent said is kept
beside to compare the card with. Titles, times, notices and figures are left out.

### List cards and configuration

`ListCards` has the arithmetic of pages and the controls below a list. `FileCards`
runs over a tree that others change; a handler's card replaces the one clicked on
later, in any order. `OrderCards` and `WorkspaceCards` change memory first and
write then; a write may fail, and a restart reads the file. `deleted` are the orders a
person was told are gone, by the answer to a deletion or by any later "does not exist or
was deleted" (`ToldGone`). The clock of
`WorkspaceCards` stands still or is set back. `ConfigEdits` has the configuration
in force, the pending copy, the choices of each agent, the file with what a
person wrote by hand, and cards on their way.

### Readers of sessions

`SessionUsage` says what each agent's reader makes of whole records.
`SessionLog` gives it the records of a file that is being written, cell by cell,
read in chunks and in one or two passes. The readers are synchronous, so that only
writes of other processes come between the looks at a file. `SessionIndex` has
files that are written, moved and deleted, the index with its fingerprints, and a
search that first asks the index. A file never comes back under the same id.
Kimi's cache of lines is taken as exact.

### ApprovalCoordinator, CardStream, TurnAssembler, InstanceLock

`ApprovalCoordinator`: `Ask`, `Submit`, `ClickSpent`, `AnswerOne`, `AnswerLast`,
`TimerFires`, `CallReturns`, `CallFails`, `ServerResolves`, `StreamEnds`,
`StopClicked` and `WatchdogStops` are the handlers. A click is its nonce. What
an answer says, permissions toggled before submission and the view of a card are
abstracted.

`CardStream`: an update is an asynchronous call: first through the stream's
controller, then, if that fails, by message id. Calls in flight land in any
order: the session's own comments do not rely on the SDK's FIFO. A frame is what
a rendering tells apart: number of events, terminal, final figures. "finalizing"
counts as running.

`TurnAssembler`: one bucket (buckets share nothing). Flushes of commands and of
the exit wait for the downloads they found. A turn without text, of attachments or
rejected items alone, ends with a receipt and is never handed to the agent.

`InstanceLock`: each file operation of `acquire()` and `release()` is a step,
as are process starts, crashes, and the reuse of a pid by another start or by a
stranger. `/exit` releases the lock in the handler of the process's `exit`; a signal or a
fatal error releases it and then exits, which releases again (`again`). What `platform/identity.ts` tells of a live pid (match, mismatch,
unknown) is an input.

## 3. Runs

| Run | Bounds | Shows |
|---|---|---|
| `Queue` | 2 lanes, 3 tasks, backlog 1, 2 edits | visibility, cancel, edit; refinement of `SerialQueue`, including its fairness |
| `Runs` | one workspace with 2 agents, or 2 workspaces over a cache of 1; 2 messages and a compaction between them, users who change directory, 1 stop in flight, 1 configuration change | no lost runner, one live run per workspace and no message dropped, current configuration, service |
| `RunsStopWindow` | 1 lane, 2 messages, 1 stop | violation, finding below |
| `Cards` | 3 tasks, 2 overlapping "run now" or a /stop; or 2 tasks, 2 edits, failures | cards tell fates, promises kept, mappings dropped |
| `Edges` | five parts, next table | turns, cards, lock, pointers, recovery |
| `Approvals` | a question with 2 parts and a command, asked 3 times in all, 2 distinct clicks each | one answer per ask, requests are tended, the server is released |
| `Agents` | each connected agent: 3 setups over 3 processes, two turns | every turn ends, truly, and no process is lost |
| `Events` | each agent: 4 to 7 messages, 2 streams, 2 tools, 1 approval, 2 blocks of 3 chunks | the card tells what was said, how tools went, how it ended |
| `Claude` | 2 turns, 2 processes, 2 runners, 1 unread output, 2 requests | own result, no stray process, every turn ends |
| `ClaudePid` | the same | violation, finding below |
| `Lists` | six parts, next table | list cards, configuration, readers |
| `ConfigRewrite` | the same | violation, finding below |

| Part | Bounds | Properties |
|---|---|---|
| `Edges`, turns | 4 events of 3 kinds, 2 flushes | `TurnsAreWhole`, `EveryEventIsAnswered` |
| `Edges`, stream | 3 events, every finisher, run or bash | `OutcomeIsShown` |
| `Edges`, lock | 3 starts, 3 pids, 2 acquiring at once | `RunningOwnsLock` |
| `Edges`, sessions | 2 agents, 2 workspaces, 2 sessions, 2 messages, 3 commands | `InFlightRunYields`, `SwitchBackRestores` |
| `Edges`, recovery | 3 sessions, 3 runs, 1 waiting | `OverflowIsLeft`, `HandoffPublishedOnce` |
| `Lists`, files | 5 paths, pages of 2, 2 cards, 3 clicks, 1 change by others | `ReturnLeadsToStart` |
| `Lists`, orders | 2 orders at a time, 3 ever, 2 cards, 7 clicks | `DeletedStaysDeleted` |
| `Lists`, workspaces | 2 names, 2 readings of the clock, 4 clicks | `LastUsedIsFirst` |
| `Lists`, config | 4 agents, 2 providers, 2 edits, 2 cards | `NoCardGoesBack` |
| `Lists`, log | each agent, chunks of 2 or 4 cells, 3 lines in 2 files | `EventsFollowTheUser`, `ResponsesCountOnce` |
| `Lists`, index | 2 directories for 3 workspaces, 4 writes, 2 searches | `IndexTellsTheFile`, `SessionIsFound` |

**Why the bounds are enough.**
* *Queue*: the stale effects the code guards against involve one task and its
  successor; three tasks over two lanes give a lane with one that runs, one that
  waits and one refused or cancelled (backlog 1 makes the limit bite), and a
  second lane whose reset must not touch the first.
* *Runs*: a stop, its run, and the successor that begins in its window; the
  compaction sits between two messages, so that both orders with a message
  occur. A cache of one makes each second workspace evict. In the part with two
  workspaces users change directory while their task waits, so that the compaction runs
  in another workspace than its lane; no stop follows a configuration change there. Messages come in the order
  of their names, which is a symmetry: they differ in nothing else.
* *Cards*: a target in the middle of the lane has a task ahead and a task behind;
  two "run now" in flight overlap. A /stop is alone: to the cards it is a "run now"
  whose target has left the list.
* *Edges*: four events fill one bucket while a flush waits for another. Three
  events of a stream are one in a flush, one that comes during it, and one
  that comes after. An old bridge, its replacement, and a third party; three pids,
  so that a pid is reused while another process lives. A write-back needs one run
  and one command; two workspaces and two agents tell the epoch of a user from that of
  an agent; three commands switch away and back with one in between. A recovery
  moves from a session to a fork and, when that overflows too, to a third; one message
  waits with the old session while the fork of the one before it is not told yet.
* *Approvals*: three asks let one request be asked, answered, and asked again
  while the other is pending; two nonces tell a redelivered click from a new one.
* *Agents*: a lost connection, its retry, and the turn after; three processes are
  one left behind, one in the slot, one being made.
* *Events*: two streams interleave; a third block makes the oldest one go and a
  fourth chunk makes a text be cut (of codex's thoughts and plans only the number of
  chunks is kept); a request comes before or after its item, which
  has two files or an empty list.
  pi takes several messages to say one thing and gets more of them.
* *Claude*: what a process leaves behind can disturb the next turn only; a second
  runner shares the pid file with the first.
* *Lists*: a page that is the last one and vanishes, two cards of the same list that
  contradict each other, a failed write and a restart between; a chunk limit inside
  a line and inside its newline; a write between any two looks at a file.

Deadlock is not checked: the event loop comes to rest when nothing is asked of
it, and every bound stops the environment.

**Exceptions that properties name.**
* `LiveRunnerIsKept` leaves out three kinds of runs (`Disturbed`): begun inside a stop window
  (`RunsStopWindow` shows it), stopped and not yet over when their own stop cleans up, and
  overwritten in `activeRuns` by a compaction (F3).
* `OneLiveRunPerWorkspace` leaves out compactions that run in another workspace than their
  lane (`moved`, F3). `RunsOnCurrentConfig` is about each workspace in which one agent runs
  and nothing is compacted, `OneAgentNoCompaction` (F4 and F5 show what happens elsewhere).
* `CardTellsFate` leaves out the cancelled task that was promised to run before (F2).
  `PromisedTaskIsNext` lets a run live in the lane that was stopped and is not over.
* `RunningOwnsLock` is about `Orderly` histories: no two starts acquired at one time, and no
  exiting instance took a lock that was just being written for a malformed one (F6).
* `OverflowIsLeft` leaves out the runs whose preparation failed, or whose predecessor's
  overflow could not be recorded (`hampered`): the code logs it and resumes the session.
* `ApprovalNamesItsFiles` leaves out the approval whose item came with an empty list of
  changes (`blank`): it is no longer waited for and stays blank, against
  `translator.ts:719-720`.
* `DeletedStaysDeleted` leaves out the orders whose own removal could not be written
  (`unremoved`): a second click says they are gone, and a restart brings them back.
* `SessionIsFound` leaves out a directory in whose own place an older copy of the session
  lies, `OldCopyInPlace` (section 5). `OutcomeIsShown` leaves out the producer's first frame,
  which nobody awaits, and a terminal frame both of whose sends failed. `StrayOnlyIfGivenUp`
  leaves out connections the manager gave up while it was making them.

**Fairness.** The event loop runs every continuation: begin, skip, settle, the
end of an await. Timers fire. Downloads settle (they carry a timeout), calls of
the connector settle (each one resolves or rejects; `streamCard` alone may hang,
which is why the session settles with a timeout). A stream ends: an agent that
goes silent is stopped by the idle watchdog, which is on by default
(`idle.watchdogMinutes` 15; 0 switches it off, and then neither `QueuedTaskIsServed`,
`ServerIsReleased` nor `EveryTurnEnds` is promised). `EveryTurnEnds` of `Agents` assumes
that the runner's code runs, that requests time out, that the watchdog
fires and that a process that was killed exits; it assumes nothing of the agent. Requests
time out after `requestTimeoutMs`, 60 s by default; 0 means never, and then a request of
the set-up may hang and `EveryTurnEnds` is not promised.
`EveryTurnEnds` of `Claude` also lets the claude process read and finish what it was
given, as long as it lives, which `IdleTimerFires` and stops may end at any time.
`EveryEventIsAnswered` says that again and again everything that has arrived is dealt with;
arrivals are finitely many here.
Fairness is never assumed of people, messages, servers, failures,
crashes, or configuration changes; and it is weak throughout. In `Edges` only the
turns carry fairness; the other parts promise safety.

## 4. Proofs

TLC checks an invariant on the small instances of section 3; the theorems hold for
every value of the constants that the assumptions of the modules allow: every set
of workspaces, messages, agents, requests, paths and names, and every bound. Each
proof follows the same argument. An inductive invariant (`...Inv`) is shown to hold
at first (`...InvInit`), to be kept by every action (`...InvNext`, one step per
action), and to imply the property. What makes it inductive is in each case what a
handler still knows, when it acts, of what it read before an `await`.

| Module | Theorems | Property of a run |
|---|---|---|
| `QueueManagerProofs` | `TypeCorrect`, `DrainedLaneIsClean`, `IndexAndListAgree`, `ClosuresBelongToWaitingTasks` | |
| | `RunningTaskIsVisible`, `CancelIsFinal`, `EditIsRun`, `LanesAreSerialQueues` | `VisibleWhileExecuting`, `CancelledNeverRuns`, `LatestEditRuns`, `ImplementsSerialQueue` |
| `BridgeRunsProofs` | `LaneServesOneRun`, `LiveRunKeepsItsRunner`, `RunsUseTheConfigTheyBeganWith` | `OneLiveRunPerWorkspace`, `LiveRunnerIsKept`, `RunsOnCurrentConfig` |
| `QueueCardsProofs` | `CardsAtRestAreTrue`, `PromisesAreKept`, `CardsAreForgotten` | `CardTellsFate`, `PromisedTaskIsNext`, `NoCardForgotten` |
| `AgentTurnProofs` | `TurnEndIsTrue`, `NoUnknownStray` (and `AgentInvariant`) | `EndIsTrue`, `StrayOnlyIfGivenUp` |
| | `RequestsAreAnsweredOnce`, `PendingRequestsAreTended` | `OneAnswerEach`, `RequestsAreTended` |
| `ClaudeSessionProofs` | `ResultOfItsTurn`, `NoProcessIsLost` | `TurnEndsWithItsOwnResult`, `NoStrayProcess` |
| | `OneProcessOfARunner`, `ClaudeTypesCorrect` | |
| `AgentEventsProofs` | `RunEndIsTold`, `FilesAreNamed` | `EndIsTold`, `ApprovalNamesItsFiles` |
| `EdgesProofs` | `OvertakenRunsYield`, `SwitchBackContinues` | `InFlightRunYields`, `SwitchBackRestores` |
| | `OverflowingSessionIsLeft`, `RecoveryIsPublishedOnce` | `OverflowIsLeft`, `HandoffPublishedOnce` |
| | `TurnsAreConsecutive` | `TurnsAreWhole` |
| | `OutcomeReachesTheCard` | `OutcomeIsShown` (of every step) |
| | `RunningInstanceOwnsTheLock`, `OneInstanceRuns` | `RunningOwnsLock` |
| `ListsProofs` | `ReturnLeadsToStartHolds`, `DeletedStaysDeletedHolds`, `LastUsedIsFirstHolds`, `NoCardGoesBackHolds`, `IndexTellsTheFileHolds`, `SessionIsFoundHolds`, `EventsFollowTheUserHolds` | the property of the same name |

**The queue.**
* Without any assumption on keys, from `CountInv`: `TypeCorrect`,
  `RunningTaskIsVisible`, `DrainedLaneIsClean`.
  `IdleLaneIsClean` is not inductive: that a drained lane has a zero count needs
  to know why the count came down. `LaneCount` says it: the count never exceeds
  the links of the chain that hold no interrupt credit, only the running task
  can hold a credit, and the executing slot is the head of the chain exactly
  while its body runs. When the last link settles, the bound is zero. The same
  conjuncts show that a reset, which names a slot, can zero the count of that
  slot only, hence `RunningTaskIsVisible`.
* Provided no key is queued twice (`RepeatedKey = {}`), from `KeyInv`: the other
  five, `LanesAreSerialQueues` being the refinement of the safety part of
  `SerialQueue`. `KeyInv` adds to `CountInv` where each task
  is: in the list and the index, removed, or begun, never two of these; and that a
  closure holds the latest edit of the task the index names. The assumption
  is needed: with a key queued twice the properties fail (F1).

**The bridge over the queue.** Every step of `BridgeRuns` is a step of the queue or
leaves it alone (`QueueStep`), so `CountInv` is inherited. `BridgeInv` ties the
runs to it: a run that has not moved is that of the task its lane executes (`LaneRuns`), hence
two such runs of one workspace would be two heads of one chain, and a message finds its
workspace busy only because of a compaction that moved; a live run is the active one
and every open interrupt of its workspace waits for it, unless it is `Disturbed`
(`ActiveOrDisturbed`); no instance is in two slots of the cache, the dispatcher knows
the cached ones (`CacheInv`), and an interrupt cleans up the workspace of the run it
stopped (`WindowRuns`), that run being `stopped` before the clean-up begins: so whoever
discards a runner discards one that no undisturbed live run uses. In a workspace of one
agent without a compaction, an instance older than the configuration is marked stale and
under an active run (`MarkedInstances`), whose end evicts it. None of the three
theorems has a hypothesis; what they except is in the properties.

**Queue cards.** What the handlers do to the queue keeps `KeyInv`, so these theorems too
assume `RepeatedKey = {}`. A card depends on nothing of the queue but the fate of its
key, so `CardInv` speaks of four sets only: the keys in use, queued, begun and gone,
the last three disjoint. It says of a card, of the sends and patches on their
way to it and of the continuations of "run now" which fates they are compatible with;
each action moves one key between the sets. Of the lanes it says that the run which
lives is the one a stop would find, or was stopped (`LanesInv`).

**Approvals.** `Owed`: there are never more responses than asks, and fewer while the
request is pending. `Spent`: every click that answered has its nonce among the seen ones.
`Tended` is the property itself, request by request, and inductive with the types.

**Session pointers.** `RunEpochs`: the epoch a run was given is at most its agent's, and
less as soon as a command moved the pointer. Epochs only grow while the process
lives, and a crash takes the runs with the epochs, so a write-back that passes the
comparison is of a run nobody overtook. `Parked`: while nothing is done after a switch,
the session that was left is the previous one of its agent.

**Agents.** `RecordsOfTurn`: whatever a connection holds - hooks, the agent's work, open
requests - is of an earlier turn, or of the setup in hand and then on the runner's own client,
in the phases that can have asked for it; so a setup that was given up leaves
nothing that the retry could take for its own (`Queued`). That needs `LostIsClosed`: a setup only
learns that its connection is lost when that connection is closed and its work dropped.
`Stopped`: a stop that can end the turn has sent the cancel or found the client closed; the
answer to a stop of an earlier turn cannot be taken for it, because attempts are never
reused. `OneIsMade`: the connection being made is the last one spawned, the only one asked to
connect, and its slot holds no other; with it `StrayOnlyIfGivenUp` is inductive.

**Claude.** `SessionHoldsProcess`: a runner has one live process at most; its session
holds it until it is killed, and the newest one it spawned is the only one it can hold. So
a stop, of whatever kind, either signals the process it lets go of or finds none
(`Stopping`), and with the idle timer `NoStrayProcess` is inductive. `Carries`: the message of a turn is in
one place at most - the inbox of the newest process, the process itself, what it said, or the
queue - and nothing else there looks like a result, but for what a resumed session replays,
which comes first, before an init the session has not seen. `Clean`: a process that a turn
could use and that is in none has nothing left of one. A turn that takes its result leaves its process clean;
every other end of a turn leaves the session without a process, and the next spawn empties the queue.
That a process says nothing before it spoke, and that no init was seen of one that did
not, completes `ResultsHaveTheirTurn`.

**Events of a run.** A step folds the events of one message, none to two of them, into the
card. `EndInv`: while nobody ended the run, its `terminal`, `subtype` and `error` are those of
the worst result so far; a request that expired is remembered on the card exactly if one
did, and every mark of it on a request is one of these (`ExpiryMarked`); once the run is over
no event changes its end. `FilesInv`: a request that does not name its files yet waits for the
item, and it is the one the translator will tell of them, unless the item came with an
empty list; a later request takes that place only once the files are known. The translator of pi refers to the parts of the
message by number (`PartsInv`). Text blocks (`AssistantSame`) and the filter of the approvals
(`WithoutKeeps`) are folds over data of any length; that they leave the rest of the card,
and what they keep, is shown for the shortest sequence on which it could fail.

**Recovery.** `SpilledIsOld`: as long as a recorded overflow is not dealt with, the record names
the session to leave and has no replacement, so `prepare`, if it can read it, leads away; a crash
loses nothing of that, since the record is on disk. `CopyInv`: the copy that `sync` works
on across its awaits agrees with the record but for the handoff, and when it is about to
publish, no handoff of that marker is at the memory service.

**Turns.** `EachEventInOneTurn` and `DownloadsAwaited` are inductive once `BucketInv` adds
that the timer is armed only over a bucket that is not empty, and that a download of the
bucket which is not pending has settled.

**The streaming card.** `OneFlush`: one flush is in flight at a time, of a state without a
terminal, and only then finishers wait. `FramesAgree`: a terminal frame, in flight or shown,
is of a state that is terminal, and a run has one terminal; so the only frame without
a terminal that can land later is the producer's first one. `TerminalOnItsWay`: a terminal state
is on the card, in flight to it, or was lost.

**The lock.** `Knows(p)`: what a start that acquires alone knows, at each step of
`acquire()`, of the file it read before. `Owns(p)`: in an `Orderly` history an instance
that runs, or has found its own lock on exit, has the file; the file one finds when it
releases again is never its own (`Foreign`), so it unlinks that one only as malformed,
which `Orderly` excludes.
 `PidsTold`: the pid of a process that lives is no
stranger's. `FileOwner`: only its creator has written the file, and a creator that is not
running yet is still writing it.

**Lists.**
* `FileInv`: the start one asked for travels in the buttons of each card and in
  every update on its way, and that an update goes to a card that exists.
* `OrderInv`: the ids of the list in memory *and* of the list in the file are of
  orders made, not deleted but for those whose removal could not be written, and distinct;
  what the file has more than the memory is of such removals (`Covered`), so an order told
  to be gone because the memory has it no more is in the file for that reason only; and
  the buttons of a card are of orders that were made. The property speaks of the memory
  only; a restart makes the file the memory, so the same must hold of the file. With
  distinct ids `remove`, a filter in the code, removes one item, as it is modelled.
* `WsInv`: the times are bounded by the clock and the number of clicks; so there is a
  latest one at any time, and `touch` can be later than it.
* `ConfigInv`: only the first of the clicks that wait is being dealt with, and no
  message shows a card newer than the one on its way to it.
* `IndexInv`: an entry is of a time that was, and if its fingerprint is the file's it
  holds what the file holds (`EntryOk`); what was parsed between two looks is
  what the file held with the fingerprint taken before (`ParsedOk`); what a search knows
  of the files as long as none of them goes (`SearchOk`).
* `LogInv`: the cells of a file are those of whole lines, each of one record, and of the
  part of a line that is written (`Lined`, `EndsAtLine`). Between two chunks the reader has
  taken the records of exactly the lines that end where its buffer begins, and the buffer is
  the file from there to its position (`Buffered`, `Scanned`); the offset left to the second
  pass is the end of the line of the user's last message, or one cell less when a blank
  ends that line (`Begins`): what is left of it is blank and handed to nobody. So the
  second pass hands on the next line first, and may go further than the first pass did,
  since the agent went on writing. The reader of lines runs over the cells of a buffer;
  what it holds after each cell is in `Reading`, by induction over their number, for which
  `Induct` takes the least counterexample. Records that are
  whole stay where they are when the file grows (`ReaderRests`). That a message is told
  from the user's last one on needs nothing of the size of a chunk but that it is positive.

**What the theorems assume.** The assumptions of the modules (`...Assumption`) say that
the bounds are naturals or positive, that sets are finite where the code enumerates
them, and that placeholders (`NoMessage`, `NoWhere`, `"-"`, `NoPath`, `NoItem`) are none of
the values they stand beside; TLC evaluates them on every run. Beyond these there is
`RepeatedKey = {}`, as a hypothesis of the theorems that need it.

**What the proofs corrected.** `RunsOnCurrentConfig` was stated of all workspaces
together and held only because the run has few of them: it is now stated of each
workspace. `SessionIsFound` was false, in an instance with three directories and five
writes: an old copy can be moved into the directory's own place (section 5). The bounds of
`Lists` did not reach it; the property now names that exception, and holds.

**What is only model-checked.** All liveness, and the fairness part of the refinement
(fairness and `ENABLED` are beyond the prover). Of the invariants two: what the card's
blocks hold in the end (`CardTellsTheAgent`), and what the readers make of the records
of a session (`ResponsesCountOnce`). They say what a fold over all messages or records
computes, for each agent another one. The prover cannot use an induction theorem, so each
fold would need an argument of its own by a shortest counterexample, as the folds of
`RunState` and the reader of lines have.

## 5. Findings

* **`RunsStopWindow`** (`bridge/index.ts:807`). After the stop window,
  `interruptCurrentRun` keeps the entry of a successor
  in `activeRuns`, but evicts the (workspace, agent) slot all the same: the runner the
  successor already streams from is unregistered from the exit dispatcher and disposed. The
  comments at 797-799 and at `clearRunners` (451-457) exclude this.
* **`ClaudePid`** (`runner/claude/session.ts:481`,
  `runner/common/spawning-runner.ts:393`). A runner that was evicted unlinks the
  workspace's pid file when its process is gone, after the next runner wrote the pid
  of its own live process there: if the bridge crashes now, no start finds that
  process. `docs/en/usage.md:343` says that orphans are killed by that file.
* **`ConfigRewrite`** (`router/index.ts:2497`). Saving a field of the agent in force
  patches `config.yaml` and then writes the whole configuration over it; comments and
  unknown keys are gone. `config/index.ts:519-526` says the patch is there to avoid that.

Seen while modelling, without a run of their own:

* **F1.** A compaction card can enqueue its own message id any number of times
  (`index.ts:778`); index and list then part (`queue-manager.ts:111-113`).
  `Queue` with a message in `RepeatedKey`, a backlog of three and the invariant
  `IndexMirrorsList` shows it.
* **F2.** Two overlapping "run now" clicks: a task that was promised to run is
  cancelled by the other handler and its card keeps saying "executing"
  (`queue-manager.ts:685` against 385-387 and 626-629).
* **F3.** A user who changes directory while her compaction waits in the queue lets it run
  outside its lane (`index.ts:778`: the lane is that of the directory when it was queued).
  It checks that the workspace is free, awaits the send of its announcement
  (`bridge/index.ts:2194`), and registers without looking again (2217): over the entry of a
  message that began meanwhile, which `/stop` does not find any more. The comment at
  2182-2183 says the check is there to prevent that. `Runs` with the invariant
  `NoRunIsCovered` shows it in five steps.
* **F4.** A configuration saved while a compaction runs marks the slot stale, and the
  compaction's end (`bridge/index.ts:2324-2330`) neither evicts nor looks at the mark:
  the next message runs on the runner of the old configuration, against the comments
  at 247-253 and 447-459.
* **F5.** With a second agent in one workspace, whether its runner outlives its runs or
  not, the stale mark of the one that did not run is not acted on
  (`bridge/index.ts:1779` against 451-462).
* **F6.** The lock file is created and then written. A second start reads it
  empty in between, removes it as malformed (`instance-lock.ts:180`), and both run, though
  92-94 calls the create atomic; the retry unlinks (106) whatever file is there. `Edges` with
  the invariant `OneRunsAtMost` shows it. An exit by a signal releases twice
  (139-152), and the second release may take the new lock of a start that acquires alone.
* **F7.** An order whose deletion could not be written (`order/index.ts:80`) is gone from
  memory: a second click answers that it does not exist or was deleted
  (`router/index.ts:1738-1740`), and the next start lists it again.
* Turn assembler: a flush that waited for a download commits nothing if another
  download joined meanwhile (`turn-assembler.ts:235` against 133-134); attachments
  enter the turn in order of completion, while `turn.ts:49` says order of arrival; a
  bucket of placeholders alone gets no answer; the flush before an exit only enqueues into a queue in memory that the exit discards;
  `dispose()` is never called.
* Instance lock: two `/restart` spawn two racing replacements; a stale lock that
  names a pid now used by the starting bridge itself locks it out; a file that
  vanishes between `existsSync` and `readFileSync` throws out of `acquire()`; with
  `OldMayLinger` (an exit that takes over 20 s) a restart can end without a
  bridge.
* Card sessions: a terminal frame both of whose sends fail is lost, since
  settling trusts a stream that resolved (the log says finalization will retry);
  the figures of a second finisher may land before the first one's frame; a bash
  card takes the last terminal.
* Approvals: after a failed submit, buttons stay but every further click is
  refused until the watchdog; an old completion may settle the
  state of a request asked anew while it was in flight; a late failure of an
  expiry's cancel overwrites a newer state; a question asked again keeps its old
  answers; a response for a request the runner no longer knows is dropped and
  still shown as resolved.
* Agents: a connection that is being made when its slot is evicted is given up and
  its process stays; a stop of kimi ends the turn without telling the agent when
  the prompt has not been sent; codex lets a late result of an earlier turn end the
  next; claude's turns in the background have no run.
* Codex: an approval whose item starts with an empty list of changes never names its files
  (`translator.ts:746-768`), not even when a later list has some.
* Run state: a text cut twice counts only the last cut in its mark (`run-state.ts:832`);
  a plan told again in full is shown after its older versions (710-714); dropped blocks may be counted twice.
* Sessions: an older copy of a transcript, put into the directory's own place after the
  session moved, hides the newer one: the direct file is taken without a look at the
  directories it names, and the guard then answers that there is nothing
  (`session/claude/sessions.ts:520-527`, with 77-79 and 250-256). The usage of a finished run is read with the pointer as it is at the end
  (`bridge/index.ts:1586`), which may be another session's; kimi's list comes back
  empty when one directory vanishes while it is read (`session/kimi/sessions.ts:400`).
* Router: a save that fails to be written stays in force though "保存失败" is told
  (2495-2497, 2334); `/ls` on a directory that cannot be read answers with no card
  (1449-1454, 1483-1486); a refresh that falls back to the user's directory keeps the
  filter; an old configuration card of another agent is drawn by the wrong builder; a
  model whose name is made of digits becomes a number.

## 6. Not modelled

* Pure formatting and layout: prompts, receipts, renderers and their byte
  budget, titles, help. No state, and the unit tests compare their output.
* Network calls of the SDK (connector), of the memory service and of the updater: what
  they do to the program - slow, failing, lost - is modelled where they are
  awaited.
* Operating-system calls of `platform/`, the win32 terminator among them, and the
  copy that replaces a rename over a device boundary in `persistence/atomic-write.ts`.
* The command line's set-up (clone, update, binder, wizard): sequential, in a process of
  its own, talking to a person.
* The bash runner and its card's content, the probing of models and versions, and the
  parsers of the agents' own configuration files.
* The figures of a finished run (`bridge/final-usage.ts`).
* The session and status cards of the router.

Worth proving next: the blocks of `RunState` that `CardTellsTheAgent` rests on, and the sums
of `SessionUsage` that `ResponsesCountOnce` rests on: which records a reader has taken when
it ends is proved already (`LogInv`).
