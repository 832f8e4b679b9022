----------------------------- MODULE BridgeRuns -----------------------------
(***************************************************************************)
(* Runs and runners of the bridge (bridge/index.ts) on top of the serial   *)
(* queue.  The body of a queued message resolves a runner from the cache,  *)
(* registers itself as the active run of its workspace, streams the agent  *)
(* and finalizes; a compaction does the same on its own path.  /stop and   *)
(* the stop buttons interrupt the active run: they await the stop of its   *)
(* runner and then clean up, while the lane may already have moved on.     *)
(* A configuration change clears the cached runners.                       *)
(*                                                                         *)
(* A run is named by the slot of the task that made it.                    *)
(***************************************************************************)
EXTENDS QueueManager

CONSTANTS
    Kind,              \* agent kinds: runners are cached per workspace and kind
    WorkspaceLifetime, \* kinds whose runner outlives a run (a connection)
    MaxCached,         \* MAX_CACHED_RUNNER_WORKSPACES
    CompactTask,       \* slots whose task is a compaction
    UsersMove,         \* may a user /cd while a compaction of hers waits?
    MaxRunner,         \* bound: runner instances created
    MaxConfig,         \* bound: configuration changes
    MaxWindow          \* bound: stops in flight at one time

NoWhere == "nowhere"

ASSUME RunsAssumption ==
    /\ WorkspaceLifetime \subseteq Kind
    /\ CompactTask \subseteq Slot
    /\ NoWhere \notin Workspace
    /\ UsersMove \in BOOLEAN
    /\ {MaxCached, MaxRunner, MaxConfig, MaxWindow} \subseteq Nat

NoRunner == 0

VARIABLES
    agentKind,        \* [Slot -> Kind]: the agent pinned when the task was queued
    stage,            \* [Slot -> progress of the body of the task]
    runCwd,           \* [Slot -> the workspace the run executes in]
    runRunner,        \* [Slot -> the runner instance that executes it]
    activeRuns,       \* [Workspace -> Slot or NoSlot]
    runners,          \* [Workspace -> [Kind -> instance or NoRunner]]
    registered,       \* instances in the exit dispatcher and not disposed
    staleRunnerSlots, \* SUBSET (Workspace \X Kind)
    runnerCount,      \* instances created
    configVersion,    \* configuration changes so far
    runnerConfig,     \* [instance -> the configVersion it was created under]
    windows,          \* interrupts that await the stop of their run
    \* History variables
    droppedFor,       \* runs for which a message was answered "busy" and lost
    moved,            \* compactions that run in another workspace than their lane
    overtaken,        \* runs begun while an interrupt of their workspace awaited
    covered,          \* runs whose entry a later registration has overwritten
    begunConfig       \* [Slot -> the configVersion at the start of the run]

cacheVars == <<runners, registered, staleRunnerSlots, runnerCount, runnerConfig>>
runVars == <<stage, runCwd, runRunner, activeRuns>>
ghostVars == <<droppedFor, moved, overtaken, covered, begunConfig>>
bridgeVars == <<agentKind, runVars, cacheVars, configVersion, windows, ghostVars>>
vars == <<queueVars, bridgeVars>>

Instance == 1 .. MaxRunner

BridgeInit ==
    /\ QueueInit
    /\ agentKind \in [Slot -> Kind]
    /\ stage = [s \in Slot |-> "none"]
    /\ runCwd = [s \in Slot |-> NoWhere]
    /\ runRunner = [s \in Slot |-> NoRunner]
    /\ activeRuns = [w \in Workspace |-> NoSlot]
    /\ runners = [w \in Workspace |-> [k \in Kind |-> NoRunner]]
    /\ registered = {}
    /\ staleRunnerSlots = {}
    /\ runnerCount = 0
    /\ configVersion = 0
    /\ runnerConfig = [r \in Instance |-> 0]
    /\ windows = {}
    /\ droppedFor = {}
    /\ moved = {}
    /\ overtaken = {}
    /\ covered = {}
    /\ begunConfig = [s \in Slot |-> 0]

-----------------------------------------------------------------------------
(* The runner cache                                                        *)

IsRunning(r) == \E s \in Slot : runRunner[s] = r /\ stage[s] = "running"

Cached(w) == {k \in Kind : runners[w][k] # NoRunner}

\* The runner a slot of the cache holds.
Held(d) == runners[d[1]][d[2]]

\* The cache is full and w is new to it: idle slots of idle workspaces go.
DeadSlots(w) ==
    IF /\ Cardinality({v \in Workspace : Cached(v) # {}}) >= MaxCached
       /\ Cached(w) = {}
    THEN {d \in Workspace \X Kind :
            /\ activeRuns[d[1]] = NoSlot
            /\ Held(d) # NoRunner
            /\ ~IsRunning(Held(d))}
    ELSE {}

\* The cache and the dispatcher without the slots of D.
CacheWithout(D) ==
    [v \in Workspace |-> [k \in Kind |->
        IF <<v, k>> \in D THEN NoRunner ELSE runners[v][k]]]
RegisteredWithout(D) == registered \ {Held(d) : d \in D}

\* evictRunnerSlot: unregister, dispose, and forget the slot.
EvictRunnerSlots(D) ==
    /\ runners' = CacheWithout(D)
    /\ registered' = RegisteredWithout(D)
    /\ staleRunnerSlots' = staleRunnerSlots \ D
    /\ UNCHANGED <<runnerCount, runnerConfig>>

\* getRunner answers r.
GetRunner(w, k, r) ==
    \/ /\ runners[w][k] # NoRunner
       /\ r = runners[w][k]
       /\ UNCHANGED cacheVars
    \/ /\ runners[w][k] = NoRunner
       /\ r = runnerCount + 1
       /\ runnerCount' = r
       /\ runners' = [CacheWithout(DeadSlots(w)) EXCEPT ![w][k] = r]
       /\ registered' = RegisteredWithout(DeadSlots(w)) \cup {r}
       /\ staleRunnerSlots' = staleRunnerSlots \ DeadSlots(w)
       /\ runnerConfig' = [runnerConfig EXCEPT ![r] = configVersion]

\* Mutants of ClearRunners: busy workspaces lose their runners; or keep them
\* without a mark.
ClearAllRunners ==
    /\ configVersion < MaxConfig
    /\ configVersion' = configVersion + 1
    /\ EvictRunnerSlots({d \in Workspace \X Kind : Held(d) # NoRunner})
    /\ UNCHANGED <<queueVars, agentKind, runVars, windows, ghostVars>>
ClearIdleRunners ==
    /\ configVersion < MaxConfig
    /\ configVersion' = configVersion + 1
    /\ EvictRunnerSlots({d \in Workspace \X Kind :
                            activeRuns[d[1]] = NoSlot /\ Held(d) # NoRunner})
    /\ UNCHANGED <<queueVars, agentKind, runVars, windows, ghostVars>>

\* clearRunners, after /config: a workspace with an active run keeps its
\* runners until that run ends, marked stale; the others lose them at once.
ClearRunners ==
    LET Slots(W) == {d \in W \X Kind : Held(d) # NoRunner}
        busy == {w \in Workspace : activeRuns[w] # NoSlot}
    IN
    /\ configVersion < MaxConfig
    /\ configVersion' = configVersion + 1
    /\ runners' = CacheWithout(Slots(Workspace \ busy))
    /\ registered' = RegisteredWithout(Slots(Workspace \ busy))
    /\ staleRunnerSlots' =
         (staleRunnerSlots \ Slots(Workspace \ busy)) \cup Slots(busy)
    /\ UNCHANGED <<queueVars, agentKind, runVars, runnerCount, runnerConfig,
                   windows, ghostVars>>

-----------------------------------------------------------------------------
(* Messages                                                                *)

Register(w, s, r) ==
    /\ activeRuns' = [activeRuns EXCEPT ![w] = s]
    /\ stage' = [stage EXCEPT ![s] = "running"]
    /\ runCwd' = [runCwd EXCEPT ![s] = w]
    /\ runRunner' = [runRunner EXCEPT ![s] = r]
    /\ overtaken' = IF \E i \in windows : i.cwd = w THEN overtaken \cup {s}
                    ELSE overtaken
    /\ covered' = covered \cup ({activeRuns[w]} \ {NoSlot})
    /\ begunConfig' = [begunConfig EXCEPT ![s] = configVersion]

\* forwardToClaude up to its first await, in the turn that begins the task.
ForwardToClaude(w, s) ==
    /\ s \notin CompactTask
    /\ BeginTask(w, s)
    /\ IF activeRuns[w] # NoSlot
       THEN /\ droppedFor' = droppedFor \cup {activeRuns[w]}
            /\ stage' = [stage EXCEPT ![s] = "over"]
            /\ UNCHANGED <<runCwd, runRunner, activeRuns, cacheVars, overtaken,
                           covered, begunConfig>>
       ELSE \E r \in Instance :
            /\ GetRunner(w, agentKind[s], r)
            /\ Register(w, s, r)
            /\ UNCHANGED droppedFor
    /\ UNCHANGED <<agentKind, configVersion, windows, moved>>

\* The agent's stream ends: the agent is done, its process was stopped, or the
\* runner refused to run.  runAgentStreamToEnd has given the card its terminal
\* state; finalizeRun is about to settle the card.
StreamEnds(s) ==
    /\ stage[s] = "running"
    /\ stage' = [stage EXCEPT ![s] = "ended"]
    /\ UNCHANGED <<queueVars, agentKind, runCwd, runRunner, activeRuns, cacheVars,
                   configVersion, windows, ghostVars>>

\* finalizeRun when the streaming card was never sent: a static card is rendered
\* instead, and asking whether it gets a Compact button resolves a runner again.
FallbackCard(s) ==
    /\ s \notin CompactTask
    /\ stage[s] = "ended"
    /\ stage' = [stage EXCEPT ![s] = "fallback"]
    /\ \E r \in Instance : GetRunner(runCwd[s], agentKind[s], r)
    /\ UNCHANGED <<queueVars, agentKind, runCwd, runRunner, activeRuns,
                   configVersion, windows, ghostVars>>

FinalizeActiveOnly(s) ==
    LET w == runCwd[s] IN
    /\ s \notin CompactTask
    /\ stage[s] \in {"ended", "fallback"}
    /\ activeRuns[w] = s
    /\ stage' = [stage EXCEPT ![s] = "over"]
    /\ activeRuns' = [activeRuns EXCEPT ![w] = NoSlot]
    /\ EvictRunnerSlots({<<w, agentKind[s]>>})
    /\ UNCHANGED <<queueVars, agentKind, runCwd, runRunner, configVersion, windows,
                   ghostVars>>

\* finalizeRun: a run that is still the active one of its workspace leaves, and
\* takes its runner along unless that is kept for the workspace.
FinalizeRun(s) ==
    LET w == runCwd[s]
        slot == <<w, agentKind[s]>>
    IN
    /\ s \notin CompactTask
    /\ stage[s] \in {"ended", "fallback"}
    /\ stage' = [stage EXCEPT ![s] = "over"]
    /\ IF activeRuns[w] # s THEN UNCHANGED <<activeRuns, cacheVars>>
       ELSE /\ activeRuns' = [activeRuns EXCEPT ![w] = NoSlot]
            /\ IF agentKind[s] \notin WorkspaceLifetime \/ slot \in staleRunnerSlots
               THEN EvictRunnerSlots({slot})
               ELSE UNCHANGED cacheVars
    /\ UNCHANGED <<queueVars, agentKind, runCwd, runRunner, configVersion, windows,
                   ghostVars>>

-----------------------------------------------------------------------------
(* Compactions                                                             *)

\* The handler resolves the working directory of the user when it executes.
CompactCwd(w) == IF UsersMove THEN Workspace ELSE {w}

\* handleCodexCompact / handleResumeCompact and streamCodexCompact up to the
\* message that announces the compaction: the request is refused (the session
\* or its run is not the current one), or the runner is resolved and the
\* workspace is found busy or free.
BeginCompact(w, s) ==
    /\ s \in CompactTask
    /\ BeginTask(w, s)
    /\ \/ /\ stage' = [stage EXCEPT ![s] = "over"]
          /\ UNCHANGED <<runCwd, runRunner, cacheVars, moved>>
       \/ \E v \in CompactCwd(w), r \in Instance :
            /\ GetRunner(v, agentKind[s], r)
            /\ IF activeRuns[v] # NoSlot
               THEN /\ stage' = [stage EXCEPT ![s] = "over"]
                    /\ UNCHANGED <<runCwd, runRunner, moved>>
               ELSE /\ stage' = [stage EXCEPT ![s] = "announcing"]
                    /\ runCwd' = [runCwd EXCEPT ![s] = v]
                    /\ runRunner' = [runRunner EXCEPT ![s] = r]
                    /\ moved' = moved \cup (IF v = w THEN {} ELSE {s})
    /\ UNCHANGED <<agentKind, activeRuns, configVersion, windows, droppedFor,
                   overtaken, covered, begunConfig>>

\* The announcement has been sent: the compaction registers itself.
StartCompact(s) ==
    /\ stage[s] = "announcing"
    /\ Register(runCwd[s], s, runRunner[s])
    /\ UNCHANGED <<queueVars, agentKind, cacheVars, configVersion, windows,
                   droppedFor, moved>>

\* streamCodexCompact's finally: it gives back its own entry, and no runner.
EndCompact(s) ==
    LET w == runCwd[s] IN
    /\ s \in CompactTask
    /\ stage[s] = "ended"
    /\ stage' = [stage EXCEPT ![s] = "over"]
    /\ activeRuns' = [activeRuns EXCEPT ![w] = IF @ = s THEN NoSlot ELSE @]
    /\ UNCHANGED <<queueVars, agentKind, runCwd, runRunner, cacheVars,
                   configVersion, windows, ghostVars>>

-----------------------------------------------------------------------------
(* Interrupts                                                              *)

\* interruptCurrentRun up to its await: what it has captured.
InterruptBegins(w) ==
    /\ activeRuns[w] # NoSlot
    /\ Cardinality(windows) < MaxWindow
    /\ windows' = windows \cup {[cwd |-> w, run |-> activeRuns[w],
                                 stoppedSlot |-> executingSlot[w]]}
    /\ UNCHANGED <<queueVars, agentKind, runVars, cacheVars, configVersion, ghostVars>>

\* The card is finished and runner.stop has returned: the rest of the handler.  An
\* immediate stop returns once the process has been sent SIGKILL, or at once while
\* the run is being set up, so the stream of the run may be open still.
InterruptEnds(i) ==
    /\ windows' = windows \ {i}
    /\ activeRuns' = [activeRuns EXCEPT ![i.cwd] = IF @ = i.run THEN NoSlot ELSE @]
    /\ EvictRunnerSlots({<<i.cwd, agentKind[i.run]>>})
    /\ IF i.stoppedSlot # NoSlot
       THEN ResetExecutingCount(i.cwd, i.stoppedSlot)
       ELSE UNCHANGED queueVars
    /\ UNCHANGED <<agentKind, stage, runCwd, runRunner, configVersion, ghostVars>>

-----------------------------------------------------------------------------
\* The lane awaits the body of the task; the mutant does not.
BodyNotAwaited(w, s) == TRUE
BodyReturned(w, s) == phase[w] = "running" => stage[s] = "over"

BridgeNext ==
    \/ ClearRunners
    \/ \E w \in Workspace :
         \/ InterruptBegins(w)
         \/ \E m \in Message :
              /\ Enqueue(w, m) \/ EnqueueRejected(w, m) \/ RemoveFromQueue(w, m)
              /\ UNCHANGED bridgeVars
         \/ \E s \in Slot :
              \/ ForwardToClaude(w, s)
              \/ BeginCompact(w, s)
              \/ SkipTask(w, s) /\ UNCHANGED bridgeVars
              \/ BodyReturned(w, s) /\ Settle(w, s) /\ UNCHANGED bridgeVars
    \/ \E s \in Slot :
         \/ StreamEnds(s) \/ FallbackCard(s) \/ FinalizeRun(s)
         \/ StartCompact(s) \/ EndCompact(s)
    \/ \E i \in windows : InterruptEnds(i)

BridgeSpec == BridgeInit /\ [][BridgeNext]_vars

\* The event loop serves the lanes and every continuation.  A stream ends: the
\* idle watchdog stops a silent agent.
BridgeFairness ==
    /\ \A w \in Workspace, s \in Slot :
         WF_vars(\/ ForwardToClaude(w, s)
                 \/ BeginCompact(w, s)
                 \/ SkipTask(w, s) /\ UNCHANGED bridgeVars
                 \/ BodyReturned(w, s) /\ Settle(w, s) /\ UNCHANGED bridgeVars)
    /\ \A s \in Slot :
         WF_vars(StreamEnds(s) \/ FinalizeRun(s) \/ StartCompact(s) \/ EndCompact(s))
    /\ WF_vars(\E i \in windows : InterruptEnds(i))

FairBridgeSpec == BridgeSpec /\ BridgeFairness

-----------------------------------------------------------------------------
(* Properties                                                              *)

IsLive(s) == stage[s] = "running"
InterruptAsked(s) == \E i \in windows : i.run = s

\* Began while an interrupt awaited, was stopped, or lost its entry to another run.
Disturbed == overtaken \cup stopped \cup covered

\* The runner of a live message run is the one the cache and the exit dispatcher
\* hold: it is not disposed under the run, and the process dies with the bridge.
\* Three kinds of runs are excepted: those that began while an interrupt of the
\* workspace was still waiting (RunnerOfLiveRunIsKept shows why), those whose own
\* stop has cleaned up before their stream ended, and those whose entry a
\* compaction has overwritten (NoRunIsCovered shows how).
LiveRunnerIsKept ==
    \A s \in Slot \ CompactTask : IsLive(s) /\ s \notin Disturbed =>
       /\ runRunner[s] \in registered
       /\ runners[runCwd[s]][agentKind[s]] = runRunner[s]

\* The same for every run that nobody stops or has stopped: what the comment at
\* clearRunners asks of every path that discards a runner.
RunnerOfLiveRunIsKept ==
    \A s \in Slot : IsLive(s) /\ ~InterruptAsked(s) /\ s \notin stopped
       => runRunner[s] \in registered

\* At most one run is live in a workspace, and a message that reached the head of
\* its lane is never answered "busy" and thrown away.  The exception is a compaction
\* in another workspace than its lane: its user changed directory while it waited in
\* the queue, and no lane holds it apart from the messages of the workspace it runs
\* in.  It may be live next to one of them, and one may be thrown away for it.
OneLiveRunPerWorkspace ==
    /\ droppedFor \subseteq moved
    /\ \A s, t \in Slot \ moved :
          IsLive(s) /\ IsLive(t) /\ runCwd[s] = runCwd[t] => s = t

\* A registration never overwrites the entry of a live run, which /stop would not
\* find any more: what the comment at the check of streamCodexCompact
\* (index.ts:2182-2183) says the check is there for.
NoRunIsCovered == \A s \in covered : ~IsLive(s)

\* No compaction has announced itself in the workspace, and all its runs are of
\* one agent.
OneAgentNoCompaction(w) ==
    /\ \A c \in CompactTask : runCwd[c] # w
    /\ \A s, t \in Slot : runCwd[s] = w /\ runCwd[t] = w => agentKind[s] = agentKind[t]

\* A message that begins after a configuration change runs on a runner made after
\* it.  Two kinds of workspace are left out, where the code does not keep this: a
\* compaction gives its runner back without a look at the stale mark
\* (index.ts:2324-2330), and the end of a run looks at the mark of its own agent
\* only (index.ts:1779-1783), so a second agent keeps its runner of before.
RunsOnCurrentConfig ==
    \A w \in Workspace : OneAgentNoCompaction(w) =>
        \A s \in Slot : IsLive(s) /\ runCwd[s] = w =>
            runnerConfig[runRunner[s]] = begunConfig[s]

\* A queued task is eventually over, whatever is stopped or reconfigured.
QueuedTaskIsServed ==
    \A w \in Workspace, s \in Slot :
       s \in queuedTasks[w] ~> stage[s] = "over" \/ s \in removed
=============================================================================
