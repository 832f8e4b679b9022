-------------------------- MODULE BridgeRunsProofs --------------------------
(***************************************************************************)
(* Proofs about BridgeRuns, for every set of workspaces, messages and      *)
(* agents and every bound, whether users change directory or not.  Every   *)
(* step of the bridge is a step of the queue, so the invariant of the      *)
(* executing count is inherited; it ties the run of a task to its lane,    *)
(* but for the compactions that run elsewhere.                             *)
(***************************************************************************)
EXTENDS BridgeRuns, QueueManagerProofs

USE DEF NoSlot, NoRunner

-----------------------------------------------------------------------------
(* The inductive invariant                                                 *)

\* The body of the task s is under way.
Underway(s) == stage[s] \in {"announcing", "running", "ended", "fallback"}

Stage == {"none", "announcing", "running", "ended", "fallback", "over"}
Window == [cwd : Workspace, run : Slot, stoppedSlot : Slot \cup {NoSlot}]

RunType ==
    /\ agentKind \in [Slot -> Kind]
    /\ stage \in [Slot -> Stage]
    /\ runCwd \in [Slot -> Workspace \cup {NoWhere}]
    /\ runRunner \in [Slot -> Instance \cup {NoRunner}]
    /\ activeRuns \in [Workspace -> Slot \cup {NoSlot}]
    /\ windows \subseteq Window
    /\ configVersion \in 0 .. MaxConfig
    /\ begunConfig \in [Slot -> 0 .. MaxConfig]

CacheType ==
    /\ runners \in [Workspace -> [Kind -> Instance \cup {NoRunner}]]
    /\ registered \subseteq Instance
    /\ staleRunnerSlots \subseteq Workspace \X Kind
    /\ runnerCount \in 0 .. MaxRunner
    /\ runnerConfig \in [Instance -> 0 .. MaxConfig]

\* A task is in one lane, and one that has not begun has no run.
LaneTasks ==
    /\ \A v, w \in Workspace : \A s \in Slot : s \in chain[v] /\ s \in chain[w] => v = w
    /\ \A w \in Workspace : \A s \in chain[w] : s # executingSlot[w] => stage[s] = "none"
    /\ \A s \in Slot : s > slotCounter => stage[s] = "none"
    /\ \A s \in Slot : stage[s] = "none" => runCwd[s] = NoWhere

\* What an interrupt has captured as the slot to reset is one that has begun.
BegunSlots ==
    /\ \A w \in Workspace : executingSlot[w] # NoSlot => HasBegun(executingSlot[w])
    /\ \A i \in windows : i.stoppedSlot # NoSlot => HasBegun(i.stoppedSlot)

\* A run is that of the task its lane executes, unless it is a compaction that runs
\* in another workspace.
LaneRuns ==
    /\ moved \subseteq CompactTask
    /\ droppedFor \subseteq moved
    /\ \A s \in Slot : Underway(s) =>
          /\ runCwd[s] \in Workspace
          /\ s \notin moved => executingSlot[runCwd[s]] = s
    /\ \A s \in Slot : stage[s] = "announcing" => s \in CompactTask
    /\ \A w \in Workspace : activeRuns[w] # NoSlot =>
          /\ Underway(activeRuns[w])
          /\ runCwd[activeRuns[w]] = w

\* A live message run that nothing has disturbed is the active one of its workspace,
\* and an interrupt there waits for it and is to reset its slot.
ActiveOrDisturbed ==
    \A s \in Slot \ CompactTask : IsLive(s) /\ s \notin Disturbed =>
        /\ activeRuns[runCwd[s]] = s
        /\ \A i \in windows : i.cwd = runCwd[s] => i.run = s /\ i.stoppedSlot = s

\* No instance is cached twice, the dispatcher knows the cached ones, and an
\* instance in use was created.
CacheInv ==
    /\ \A v, w \in Workspace, j, k \in Kind :
          runners[v][j] = runners[w][k] /\ runners[v][j] # NoRunner => v = w /\ j = k
    /\ \A w \in Workspace, k \in Kind : runners[w][k] # NoRunner =>
          runners[w][k] \in registered /\ runners[w][k] <= runnerCount

\* An interrupt waits for a run of the workspace it cleans up.
WindowRuns == \A i \in windows : runCwd[i.run] = i.cwd

InstancesCreated == \A s \in Slot : runRunner[s] <= runnerCount

AgentOf(w, k) == \E s \in Slot : runCwd[s] = w /\ agentKind[s] = k

\* In a workspace of one agent, an instance of that agent of an older configuration
\* is marked and under an active run.
MarkedInstances(w) ==
    /\ \A k \in Kind : runners[w][k] # NoRunner =>
          /\ \E s \in Slot : runCwd[s] = w
          /\ AgentOf(w, k) =>
                \/ runnerConfig[runners[w][k]] = configVersion
                \/ activeRuns[w] # NoSlot /\ <<w, k>> \in staleRunnerSlots
    /\ \A s \in Slot : Underway(s) /\ s \notin CompactTask /\ runCwd[s] = w =>
          /\ runRunner[s] # NoRunner
          /\ runnerConfig[runRunner[s]] = begunConfig[s]

ConfigInv == \A w \in Workspace : OneAgentNoCompaction(w) => MarkedInstances(w)

RunInv == RunType /\ LaneTasks /\ BegunSlots /\ LaneRuns /\ ActiveOrDisturbed
BridgeInv ==
    /\ CountInv /\ RunInv
    /\ CacheType /\ CacheInv /\ InstancesCreated /\ LiveRunnerIsKept
    /\ WindowRuns /\ ConfigInv

LEMMA BridgeInvInit == BridgeInit => BridgeInv
<1>. SUFFICES ASSUME BridgeInit PROVE BridgeInv
  OBVIOUS
<1>1. CountInv
  BY CountInvInit DEF BridgeInit
<1>2. RunType
  BY RunsAssumption DEF BridgeInit, RunType, Stage
<1>3. CacheType
  BY RunsAssumption DEF BridgeInit, CacheType
<1>4. LaneTasks /\ BegunSlots
  BY DEF BridgeInit, QueueInit, LaneTasks, BegunSlots
<1>5. LaneRuns /\ ActiveOrDisturbed
  BY DEF BridgeInit, LaneRuns, ActiveOrDisturbed, Underway, IsLive
<1>6. CacheInv /\ InstancesCreated /\ LiveRunnerIsKept
  BY DEF BridgeInit, CacheInv, InstancesCreated, LiveRunnerIsKept, IsLive
<1>7. WindowRuns /\ ConfigInv
  BY DEF BridgeInit, WindowRuns, ConfigInv, MarkedInstances, Underway
<1>. QED BY <1>1, <1>2, <1>3, <1>4, <1>5, <1>6, <1>7 DEF BridgeInv, RunInv

-----------------------------------------------------------------------------
(* The queue under the bridge                                              *)

\* Whatever the bridge does to the queue, the queue could have done.
LEMMA QueueStep ==
    ASSUME RunType, BegunSlots, [BridgeNext]_vars
    PROVE  [QueueNext]_queueVars
<1>1. CASE ClearRunners \/ \E w \in Workspace : InterruptBegins(w)
  BY <1>1 DEF ClearRunners, InterruptBegins
<1>2. ASSUME NEW w \in Workspace, NEW m \in Message,
             Enqueue(w, m) \/ EnqueueRejected(w, m) \/ RemoveFromQueue(w, m)
      PROVE  QueueNext
  BY <1>2 DEF QueueNext
<1>3. ASSUME NEW w \in Workspace, NEW s \in Slot,
             \/ ForwardToClaude(w, s) \/ BeginCompact(w, s)
             \/ SkipTask(w, s) \/ Settle(w, s)
      PROVE  QueueNext
  <2>1. BeginTask(w, s) \/ SkipTask(w, s) \/ Settle(w, s)
    BY <1>3 DEF ForwardToClaude, BeginCompact
  <2>. QED BY <2>1 DEF QueueNext
<1>4. ASSUME NEW s \in Slot,
             \/ StreamEnds(s) \/ FallbackCard(s) \/ FinalizeRun(s)
             \/ StartCompact(s) \/ EndCompact(s)
      PROVE  UNCHANGED queueVars
  BY <1>4 DEF StreamEnds, FallbackCard, FinalizeRun, StartCompact, EndCompact
<1>5. ASSUME NEW i \in windows, InterruptEnds(i)
      PROVE  [QueueNext]_queueVars
  <2>1. i.cwd \in Workspace /\ i.stoppedSlot \in Slot \cup {NoSlot}
    BY DEF RunType, Window
  <2>2. CASE i.stoppedSlot = NoSlot
    BY <1>5, <2>2 DEF InterruptEnds
  <2>3. CASE i.stoppedSlot # NoSlot
    <3>1. HasBegun(i.stoppedSlot) /\ ResetExecutingCount(i.cwd, i.stoppedSlot)
      BY <1>5, <2>3 DEF InterruptEnds, BegunSlots
    <3>. QED BY <2>1, <2>3, <3>1 DEF QueueNext
  <2>. QED BY <2>2, <2>3
<1>6. CASE UNCHANGED vars
  BY <1>6 DEF vars
<1>. QED BY <1>1, <1>2, <1>3, <1>4, <1>5, <1>6 DEF BridgeNext

-----------------------------------------------------------------------------
(* The cache                                                               *)

\* Discarding the slots D leaves the others, and what they hold, in place.
LEMMA EvictSlots ==
    ASSUME CacheType, CacheInv, NEW D \in SUBSET (Workspace \X Kind),
           runners' = CacheWithout(D), registered' = RegisteredWithout(D),
           runnerCount' = runnerCount
    PROVE  /\ runners' \in [Workspace -> [Kind -> Instance \cup {NoRunner}]]
           /\ registered' \subseteq Instance
           /\ CacheInv'
           /\ \A w \in Workspace, k \in Kind :
                 runners'[w][k] = IF <<w, k>> \in D THEN NoRunner ELSE runners[w][k]
           /\ \A w \in Workspace, k \in Kind :
                 runners[w][k] \in registered \ {NoRunner} /\ <<w, k>> \notin D
                    => runners[w][k] \in registered'
<1>1. runners' \in [Workspace -> [Kind -> Instance \cup {NoRunner}]]
  BY DEF CacheWithout, CacheType
<1>2. registered' \subseteq Instance
  BY DEF RegisteredWithout, CacheType
<1>3. \A w \in Workspace, k \in Kind :
         runners'[w][k] = IF <<w, k>> \in D THEN NoRunner ELSE runners[w][k]
  BY DEF CacheWithout
<1>4. ASSUME NEW w \in Workspace, NEW k \in Kind,
             runners[w][k] \in registered \ {NoRunner}, <<w, k>> \notin D
      PROVE  runners[w][k] \in registered'
  <2>1. SUFFICES ASSUME NEW d \in D PROVE Held(d) # runners[w][k]
    BY <1>4 DEF RegisteredWithout
  <2>2. /\ d[1] \in Workspace
        /\ d[2] \in Kind
        /\ d = <<d[1], d[2]>>
    OBVIOUS
  <2>3. <<d[1], d[2]>> # <<w, k>>
    BY <1>4, <2>2
  <2>4. ~(d[1] = w /\ d[2] = k)
    BY <2>3
  <2>. QED BY <1>4, <2>2, <2>4 DEF CacheInv, Held
<1>5. CacheInv'
  <2>1. ASSUME NEW v \in Workspace, NEW w \in Workspace, NEW j \in Kind, NEW k \in Kind,
               runners'[v][j] = runners'[w][k], runners'[v][j] # NoRunner
        PROVE  v = w /\ j = k
    <3>. HIDE DEF NoRunner
    <3>1. runners'[v][j] = runners[v][j]
      BY <1>3, <2>1
    <3>2. runners'[w][k] # NoRunner
      BY <2>1
    <3>3. runners'[w][k] = runners[w][k]
      BY <1>3, <3>2
    <3>4. runners[v][j] = runners[w][k] /\ runners[v][j] # NoRunner
      BY <2>1, <3>1, <3>3
    <3>. QED BY <3>4 DEF CacheInv
  <2>2. ASSUME NEW w \in Workspace, NEW k \in Kind, runners'[w][k] # NoRunner
        PROVE  runners'[w][k] \in registered' /\ runners'[w][k] <= runnerCount'
    <3>1. <<w, k>> \notin D /\ runners'[w][k] = runners[w][k]
      BY <1>3, <2>2
    <3>2. runners[w][k] \in registered \ {NoRunner} /\ runners[w][k] <= runnerCount
      BY <2>2, <3>1 DEF CacheInv
    <3>. QED BY <1>4, <3>1, <3>2
  <2>. QED BY <2>1, <2>2 DEF CacheInv
<1>. QED BY <1>1, <1>2, <1>3, <1>4, <1>5

LEMMA DeadSlotsAreIdle ==
    ASSUME NEW w \in Workspace, NEW v \in Workspace, NEW j \in Kind,
           <<v, j>> \in DeadSlots(w)
    PROVE  /\ activeRuns[v] = NoSlot
           /\ runners[v][j] # NoRunner
           /\ ~IsRunning(runners[v][j])
           /\ \A k \in Kind : runners[w][k] = NoRunner
<1>1. /\ DeadSlots(w) # {}
      /\ Cached(w) = {}
  BY DEF DeadSlots
<1>2. /\ activeRuns[<<v, j>>[1]] = NoSlot
      /\ Held(<<v, j>>) # NoRunner
      /\ ~IsRunning(Held(<<v, j>>))
  BY DEF DeadSlots
<1>. QED BY <1>1, <1>2 DEF Held, Cached

\* getRunner answers the instance of the slot; the slots of the other live runs
\* keep theirs, and an instance it creates is of the current configuration.
LEMMA GetRunnerEffect ==
    ASSUME CacheType, CacheInv, configVersion \in 0 .. MaxConfig,
           NEW w \in Workspace, NEW k \in Kind, NEW r \in Instance, GetRunner(w, k, r)
    PROVE  /\ CacheType' /\ CacheInv'
           /\ runners'[w][k] = r
           /\ runnerCount <= runnerCount'
           /\ \A v \in Workspace, j \in Kind : ~(v = w /\ j = k) =>
                 runners'[v][j] \in {NoRunner, runners[v][j]}
           /\ \A v \in Workspace, j \in Kind :
                 /\ runners[v][j] # NoRunner
                 /\ <<v, j>> \notin DeadSlots(w)
                 => /\ runners'[v][j] = runners[v][j]
                    /\ runners'[v][j] \in registered'
           /\ \A v \in Workspace, j \in Kind :
                 /\ runners[v][j] # NoRunner /\ runners'[v][j] # NoRunner
                 /\ <<v, j>> \in staleRunnerSlots
                 => <<v, j>> \in staleRunnerSlots'
           /\ \A x \in Instance : x <= runnerCount => runnerConfig'[x] = runnerConfig[x]
           /\ runners[w][k] = NoRunner => runnerConfig'[r] = configVersion
           /\ runners[w][k] # NoRunner => runners[w][k] = r
<1>1. CASE runners[w][k] # NoRunner
  <2>1. r = runners[w][k] /\ UNCHANGED cacheVars
    BY <1>1 DEF GetRunner
  <2>. QED BY <1>1, <2>1 DEF cacheVars, CacheType, CacheInv
<1>2. CASE runners[w][k] = NoRunner
  <2>. DEFINE D == DeadSlots(w)
              rest == CacheWithout(D)
  <2>1. /\ r = runnerCount + 1 /\ runnerCount' = r
        /\ runners' = [rest EXCEPT ![w][k] = r]
        /\ registered' = RegisteredWithout(D) \cup {r}
        /\ staleRunnerSlots' = staleRunnerSlots \ D
        /\ runnerConfig' = [runnerConfig EXCEPT ![r] = configVersion]
    BY <1>2 DEF GetRunner
  <2>2. D \subseteq Workspace \X Kind
    BY DEF DeadSlots
  <2>3. \A v \in Workspace, j \in Kind :
           rest[v][j] = IF <<v, j>> \in D THEN NoRunner ELSE runners[v][j]
    BY DEF CacheWithout
  <2>4. rest \in [Workspace -> [Kind -> Instance \cup {NoRunner}]]
    BY DEF CacheWithout, CacheType
  <2>5. /\ runners'[w][k] = r
        /\ \A v \in Workspace, j \in Kind : ~(v = w /\ j = k) =>
              runners'[v][j] = IF <<v, j>> \in D THEN NoRunner ELSE runners[v][j]
        /\ runners' \in [Workspace -> [Kind -> Instance \cup {NoRunner}]]
    <3>. HIDE DEF rest, D
    <3>1. /\ runners'[w][k] = r
          /\ \A v \in Workspace, j \in Kind : ~(v = w /\ j = k) =>
                runners'[v][j] = rest[v][j]
          /\ runners' \in [Workspace -> [Kind -> Instance \cup {NoRunner}]]
      BY <2>1, <2>4
    <3>. QED BY <2>3, <3>1
  <2>6. CacheType'
    <3>1. registered' \subseteq Instance
      BY <2>1 DEF CacheType, RegisteredWithout
    <3>2. staleRunnerSlots' \subseteq Workspace \X Kind
      BY <2>1 DEF CacheType
    <3>3. runnerCount' \in 0 .. MaxRunner
      BY <2>1 DEF Instance
    <3>4. runnerConfig' \in [Instance -> 0 .. MaxConfig]
      BY <2>1 DEF CacheType
    <3>. QED BY <2>5, <3>1, <3>2, <3>3, <3>4 DEF CacheType
  <2>7. ASSUME NEW v \in Workspace, NEW j \in Kind,
               runners[v][j] # NoRunner, <<v, j>> \notin D
        PROVE  /\ runners'[v][j] = runners[v][j]
               /\ runners'[v][j] \in registered'
               /\ runners'[v][j] <= runnerCount
    <3>1. ~(v = w /\ j = k)
      BY <1>2, <2>7
    <3>2. runners'[v][j] = runners[v][j]
      BY <2>5, <2>7, <3>1
    <3>3. runners[v][j] \in registered /\ runners[v][j] <= runnerCount
      BY <2>7 DEF CacheInv
    <3>4. ASSUME NEW d \in D PROVE Held(d) # runners[v][j]
      <4>1. /\ d[1] \in Workspace
            /\ d[2] \in Kind
            /\ d = <<d[1], d[2]>>
        BY <2>2
      <4>2. <<d[1], d[2]>> # <<v, j>>
        BY <2>7, <4>1
      <4>3. ~(d[1] = v /\ d[2] = j)
        BY <4>2
      <4>. QED BY <2>7, <4>1, <4>3 DEF CacheInv, Held
    <3>5. runners[v][j] \in RegisteredWithout(D)
      BY <3>3, <3>4 DEF RegisteredWithout
    <3>. QED BY <2>1, <3>2, <3>3, <3>5
  <2>8. \A v \in Workspace, j \in Kind :
           ~(v = w /\ j = k) /\ runners'[v][j] # NoRunner =>
              /\ <<v, j>> \notin D
              /\ runners[v][j] # NoRunner
              /\ runners'[v][j] = runners[v][j]
    BY <2>5
  <2>9. runnerCount \in Nat /\ r = runnerCount + 1 /\ r # NoRunner
    BY <2>1, RunsAssumption DEF CacheType, Instance
  <2>10. CacheInv'
    <3>1. ASSUME NEW v \in Workspace, NEW j \in Kind, runners'[v][j] # NoRunner
          PROVE  /\ runners'[v][j] \in registered'
                 /\ runners'[v][j] <= runnerCount'
                 /\ ~(v = w /\ j = k) => runners'[v][j] # r
      <4>1. CASE v = w /\ j = k
        BY <2>1, <2>5, <2>9, <4>1
      <4>2. CASE ~(v = w /\ j = k)
        <5>1. runners'[v][j] \in registered' /\ runners'[v][j] <= runnerCount
          BY <2>7, <2>8, <3>1, <4>2
        <5>2. runners'[v][j] \in Instance \cup {NoRunner}
          BY <2>5
        <5>. QED BY <2>1, <2>9, <5>1, <5>2 DEF Instance
      <4>. QED BY <4>1, <4>2
    <3>2. ASSUME NEW u \in Workspace, NEW v \in Workspace, NEW i \in Kind, NEW j \in Kind,
                 runners'[u][i] = runners'[v][j], runners'[u][i] # NoRunner
          PROVE  u = v /\ i = j
      <4>1. CASE (u = w /\ i = k) \/ (v = w /\ j = k)
        BY <2>5, <3>1, <3>2, <4>1
      <4>2. CASE ~(u = w /\ i = k) /\ ~(v = w /\ j = k)
        <5>1. /\ runners[u][i] = runners'[u][i]
              /\ runners[v][j] = runners'[v][j]
          BY <2>8, <3>2, <4>2
        <5>. QED BY <3>2, <5>1 DEF CacheInv
      <4>. QED BY <4>1, <4>2
    <3>. QED BY <3>1, <3>2 DEF CacheInv
  <2>11. \A v \in Workspace, j \in Kind :
            /\ runners[v][j] # NoRunner /\ runners'[v][j] # NoRunner
            /\ <<v, j>> \in staleRunnerSlots
            => <<v, j>> \in staleRunnerSlots'
    BY <1>2, <2>1, <2>8
  <2>12. /\ \A x \in Instance : x <= runnerCount => runnerConfig'[x] = runnerConfig[x]
         /\ runnerConfig'[r] = configVersion
    <3>1. runnerConfig \in [Instance -> 0 .. MaxConfig]
      BY DEF CacheType
    <3>2. r \in Instance /\ \A x \in Instance : x <= runnerCount => x # r
      BY <2>9 DEF Instance
    <3>. QED BY <2>1, <3>1, <3>2
  <2>13. \A v \in Workspace, j \in Kind : ~(v = w /\ j = k) =>
            runners'[v][j] \in {NoRunner, runners[v][j]}
    BY <2>5
  <2>. QED
    BY <1>2, <2>1, <2>5, <2>6, <2>7, <2>9, <2>10, <2>11, <2>12, <2>13
<1>. QED BY <1>1, <1>2

-----------------------------------------------------------------------------
(* Runs and lanes                                                          *)

\* A task that begins finds its lane free: it has no run of its own yet, and only
\* compactions of other lanes are under way in the workspace of its lane.
LEMMA LaneIsFree ==
    ASSUME CountInv, RunInv, NEW w \in Workspace, NEW s \in Slot, BeginTask(w, s)
    PROVE  /\ s \in chain[w] /\ s <= slotCounter
           /\ stage[s] = "none" /\ runCwd[s] = NoWhere
           /\ executingSlot[w] = NoSlot
           /\ activeRuns[w] # NoSlot => activeRuns[w] \in moved
           /\ \A t \in Slot : Underway(t) => t # s /\ (t \notin moved => runCwd[t] # w)
           /\ chain' = chain /\ slotCounter' = slotCounter
           /\ executingSlot' = [executingSlot EXCEPT ![w] = s]
<1>1. /\ s \in chain[w] /\ phase[w] = "ready"
      /\ chain' = chain /\ slotCounter' = slotCounter
      /\ executingSlot' = [executingSlot EXCEPT ![w] = s]
  BY DEF BeginTask, IsHead, taskVars
<1>2. executingSlot[w] = NoSlot /\ s <= slotCounter
  BY <1>1, ExecutingIsHead
<1>3. stage[s] = "none" /\ runCwd[s] = NoWhere
  BY <1>1, <1>2, RunsAssumption DEF RunInv, LaneTasks, Slot
<1>4. \A t \in Slot : Underway(t) => t # s /\ (t \notin moved => runCwd[t] # w)
  BY <1>2, <1>3 DEF RunInv, LaneRuns, Underway, Slot
<1>5. activeRuns[w] # NoSlot => activeRuns[w] \in moved
  BY <1>4 DEF RunInv, LaneRuns, RunType
<1>. QED BY <1>1, <1>2, <1>3, <1>4, <1>5

\* A task that goes on to run, or is over at once, takes the place that its lane
\* has made free; a compaction may run in another workspace.
LEMMA BeginRun ==
    ASSUME CountInv, RunInv, NEW w \in Workspace, NEW s \in Slot, BeginTask(w, s),
           NEW st \in {"announcing", "running", "over"}, NEW v \in Workspace,
           stage' = [stage EXCEPT ![s] = st],
           \/ st = "over" /\ runCwd' = runCwd
           \/ runCwd' = [runCwd EXCEPT ![s] = v],
           st = "announcing" => s \in CompactTask,
           moved' \in {moved, moved \cup {s}}, moved' \subseteq CompactTask,
           s \notin moved' => v = w,
           IF st = "running"
           THEN /\ v = w /\ activeRuns[w] = NoSlot
                /\ activeRuns' = [activeRuns EXCEPT ![w] = s]
                /\ overtaken' = IF \E i \in windows : i.cwd = w THEN overtaken \cup {s}
                                ELSE overtaken
           ELSE activeRuns' = activeRuns /\ overtaken' = overtaken,
           windows' = windows, covered' = covered, droppedFor' \subseteq moved'
    PROVE  LaneTasks' /\ LaneRuns' /\ ActiveOrDisturbed'
<1>f. /\ s \in chain[w] /\ s <= slotCounter
      /\ stage[s] = "none" /\ runCwd[s] = NoWhere
      /\ executingSlot[w] = NoSlot
      /\ \A t \in Slot : Underway(t) => t # s /\ (t \notin moved => runCwd[t] # w)
      /\ chain' = chain /\ slotCounter' = slotCounter
      /\ executingSlot' = [executingSlot EXCEPT ![w] = s]
  BY LaneIsFree
<1>t. /\ stage \in [Slot -> Stage]
      /\ runCwd \in [Slot -> Workspace \cup {NoWhere}]
      /\ activeRuns \in [Workspace -> Slot \cup {NoSlot}]
      /\ executingSlot \in [Workspace -> Slot \cup {NoSlot}]
      /\ chain \in [Workspace -> SUBSET Slot]
  BY DEF RunInv, RunType, CountInv, TypeOK
<1>e. /\ executingSlot'[w] = s
      /\ \A u \in Workspace : u # w => executingSlot'[u] = executingSlot[u]
  BY <1>f, <1>t
<1>s. /\ stage'[s] = st
      /\ \A t \in Slot : t # s => stage'[t] = stage[t] /\ runCwd'[t] = runCwd[t]
      /\ st # "over" => runCwd'[s] = v
  BY <1>t
<1>m. /\ stopped' = stopped
      /\ \A t \in Slot : t # s => (t \in moved' <=> t \in moved)
  BY DEF BeginTask
<1>a. /\ \A u \in Workspace : u # w \/ st # "running" => activeRuns'[u] = activeRuns[u]
      /\ st = "running" => activeRuns'[w] = s
  BY <1>f, <1>t
<1>1. LaneTasks'
  <2>1. ASSUME NEW u \in Workspace, NEW t \in chain[u], t # executingSlot'[u]
        PROVE  stage'[t] = "none"
    <3>1. t # s
      BY <1>e, <1>f, <2>1 DEF RunInv, LaneTasks
    <3>2. t # executingSlot[u]
      BY <1>e, <1>f, <1>t, <2>1 DEF Slot
    <3>3. t \in Slot
      BY <1>t
    <3>. QED BY <1>s, <3>1, <3>2, <3>3 DEF RunInv, LaneTasks
  <2>2. \A t \in Slot : t > slotCounter => stage'[t] = "none"
    BY <1>f, <1>s, QueueAssumption DEF RunInv, LaneTasks, CountInv, TypeOK, Slot
  <2>3. \A t \in Slot : stage'[t] = "none" => runCwd'[t] = NoWhere
    BY <1>s DEF RunInv, LaneTasks
  <2>. QED BY <1>f, <2>1, <2>2, <2>3 DEF RunInv, LaneTasks
<1>2. ASSUME NEW t \in Slot, Underway(t)'
      PROVE  /\ runCwd'[t] \in Workspace
             /\ t \notin moved' => executingSlot'[runCwd'[t]] = t
             /\ t # s => Underway(t) /\ runCwd'[t] = runCwd[t]
  <2>1. CASE t = s
    BY <1>2, <1>e, <1>s, <2>1 DEF Underway
  <2>2. CASE t # s
    <3>1. Underway(t) /\ runCwd'[t] = runCwd[t] /\ runCwd[t] \in Workspace
      BY <1>2, <1>s, <2>2 DEF Underway, RunInv, LaneRuns
    <3>2. ASSUME t \notin moved' PROVE executingSlot'[runCwd'[t]] = t
      <4>1. t \notin moved
        BY <1>m, <2>2, <3>2
      <4>2. runCwd[t] # w /\ executingSlot[runCwd[t]] = t
        BY <1>f, <3>1, <4>1 DEF RunInv, LaneRuns
      <4>. QED BY <1>e, <3>1, <4>2
    <3>. QED BY <2>2, <3>1, <3>2
  <2>. QED BY <2>1, <2>2
<1>3. \A t \in Slot : stage'[t] = "announcing" => t \in CompactTask
  BY <1>s DEF RunInv, LaneRuns
<1>4. ASSUME NEW u \in Workspace, activeRuns'[u] # NoSlot
      PROVE  Underway(activeRuns[u])' /\ runCwd'[activeRuns'[u]] = u
  <2>1. CASE u = w /\ st = "running"
    BY <1>a, <1>s, <2>1 DEF Underway
  <2>2. CASE ~(u = w /\ st = "running")
    <3>1. activeRuns'[u] = activeRuns[u] /\ activeRuns[u] \in Slot
      BY <1>4, <1>a, <1>t, <2>2
    <3>2. Underway(activeRuns[u]) /\ runCwd[activeRuns[u]] = u
      BY <1>4, <3>1 DEF RunInv, LaneRuns
    <3>3. activeRuns[u] # s
      BY <1>f, <3>1, <3>2
    <3>. QED BY <1>s, <3>1, <3>2, <3>3 DEF Underway
  <2>. QED BY <2>1, <2>2
<1>5. LaneRuns'
  BY <1>2, <1>3, <1>4 DEF LaneRuns
<1>6. ASSUME NEW t \in Slot \ CompactTask, IsLive(t)', t \notin Disturbed'
      PROVE  /\ activeRuns'[runCwd'[t]] = t
             /\ \A i \in windows' : i.cwd = runCwd'[t] => i.run = t /\ i.stoppedSlot = t
  <2>1. CASE t = s
    <3>1. st = "running" /\ runCwd'[s] = w
      BY <1>6, <1>s, <2>1 DEF IsLive
    <3>2. ~\E i \in windows : i.cwd = w
      BY <1>6, <2>1, <3>1 DEF Disturbed
    <3>. QED BY <1>a, <2>1, <3>1, <3>2
  <2>2. CASE t # s
    <3>1. /\ runCwd'[t] = runCwd[t] /\ runCwd[t] \in Workspace
          /\ IsLive(t) /\ Underway(t)
      BY <1>2, <1>6, <1>s, <2>2 DEF IsLive, Underway
    <3>2. t \notin Disturbed
      BY <1>6, <1>m DEF Disturbed
    <3>3. runCwd[t] # w
      BY <1>f, <1>6, <3>1 DEF RunInv, LaneRuns
    <3>. QED BY <1>a, <3>1, <3>2, <3>3 DEF RunInv, ActiveOrDisturbed
  <2>. QED BY <2>1, <2>2
<1>. QED BY <1>1, <1>5, <1>6 DEF ActiveOrDisturbed

LEMMA BeginTypes ==
    ASSUME RunType, NEW w \in Workspace, NEW s \in Slot,
           ForwardToClaude(w, s) \/ BeginCompact(w, s)
    PROVE  RunType'
<1>1. CASE ForwardToClaude(w, s)
  <2>1. CASE activeRuns[w] # NoSlot
    BY <1>1, <2>1 DEF ForwardToClaude, RunType, Stage
  <2>2. CASE activeRuns[w] = NoSlot
    <3>. PICK r \in Instance : Register(w, s, r)
      BY <1>1, <2>2 DEF ForwardToClaude
    <3>1. UNCHANGED <<agentKind, configVersion, windows>>
      BY <1>1 DEF ForwardToClaude
    <3>. QED BY <3>1 DEF Register, RunType, Stage
  <2>. QED BY <2>1, <2>2
<1>2. CASE BeginCompact(w, s)
  <2>1. UNCHANGED <<agentKind, activeRuns, configVersion, windows, begunConfig>>
    BY <1>2 DEF BeginCompact, ghostVars
  <2>2. stage' \in [Slot -> Stage]
    BY <1>2 DEF BeginCompact, RunType, Stage
  <2>3. /\ runCwd' \in [Slot -> Workspace \cup {NoWhere}]
        /\ runRunner' \in [Slot -> Instance \cup {NoRunner}]
    <3>1. \/ UNCHANGED <<runCwd, runRunner>>
          \/ \E v \in Workspace, r \in Instance :
                /\ runCwd' = [runCwd EXCEPT ![s] = v]
                /\ runRunner' = [runRunner EXCEPT ![s] = r]
      BY <1>2 DEF BeginCompact, CompactCwd
    <3>. QED BY <3>1 DEF RunType
  <2>. QED BY <2>1, <2>2, <2>3 DEF RunType
<1>. QED BY <1>1, <1>2

LEMMA RunTypeNext ==
    ASSUME CountInv, RunType, [BridgeNext]_vars
    PROVE  RunType'
<1>1. CASE ClearRunners
  BY <1>1, RunsAssumption DEF ClearRunners, RunType, runVars, ghostVars
<1>2. ASSUME NEW w \in Workspace, InterruptBegins(w) PROVE RunType'
  <2>1. activeRuns[w] \in Slot
    BY <1>2 DEF InterruptBegins, RunType
  <2>2. executingSlot[w] \in Slot \cup {NoSlot}
    BY ExecutingIsHead
  <2>3. windows' \subseteq Window
    BY <1>2, <2>1, <2>2 DEF InterruptBegins, RunType, Window
  <2>. QED BY <1>2, <2>3 DEF InterruptBegins, RunType, runVars, ghostVars
<1>3. ASSUME NEW s \in Slot, StreamEnds(s) \/ FallbackCard(s) PROVE RunType'
  BY <1>3 DEF StreamEnds, FallbackCard, RunType, Stage, ghostVars
<1>4. ASSUME NEW s \in Slot, FinalizeRun(s) PROVE RunType'
  <2>1. activeRuns' \in [Workspace -> Slot \cup {NoSlot}]
    BY <1>4 DEF FinalizeRun, RunType
  <2>2. stage' \in [Slot -> Stage]
    BY <1>4 DEF FinalizeRun, RunType, Stage
  <2>. QED BY <1>4, <2>1, <2>2 DEF FinalizeRun, RunType, ghostVars
<1>5. ASSUME NEW s \in Slot, StartCompact(s) PROVE RunType'
  <2>1. /\ stage' \in [Slot -> Stage]
        /\ begunConfig' \in [Slot -> 0 .. MaxConfig]
    BY <1>5 DEF StartCompact, Register, RunType, Stage
  <2>2. /\ runCwd' \in [Slot -> Workspace \cup {NoWhere}]
        /\ runRunner' \in [Slot -> Instance \cup {NoRunner}]
    BY <1>5 DEF StartCompact, Register, RunType
  <2>3. activeRuns' \in [Workspace -> Slot \cup {NoSlot}]
    BY <1>5 DEF StartCompact, Register, RunType
  <2>. QED BY <1>5, <2>1, <2>2, <2>3 DEF StartCompact, RunType
<1>6. ASSUME NEW s \in Slot, EndCompact(s) PROVE RunType'
  <2>1. activeRuns' \in [Workspace -> Slot \cup {NoSlot}]
    BY <1>6 DEF EndCompact, RunType
  <2>2. stage' \in [Slot -> Stage]
    BY <1>6 DEF EndCompact, RunType, Stage
  <2>. QED BY <1>6, <2>1, <2>2 DEF EndCompact, RunType, ghostVars
<1>7. ASSUME NEW i \in windows, InterruptEnds(i) PROVE RunType'
  <2>1. activeRuns' \in [Workspace -> Slot \cup {NoSlot}]
    BY <1>7 DEF InterruptEnds, RunType
  <2>. QED BY <1>7, <2>1 DEF InterruptEnds, RunType, ghostVars
<1>8. CASE UNCHANGED bridgeVars
  BY <1>8 DEF bridgeVars, runVars, ghostVars, RunType
<1>. QED
  BY <1>1, <1>2, <1>3, <1>4, <1>5, <1>6, <1>7, <1>8, BeginTypes DEF BridgeNext, vars

\* A step that leaves the lanes alone, and the runs but for moving one task on
\* within its body.
LEMMA RunGoesOn ==
    ASSUME CountInv, RunInv, NEW s \in Slot, Underway(s),
           NEW st \in {"running", "ended", "fallback", "over"},
           stage' = [stage EXCEPT ![s] = st],
           st = "over" => \A v \in Workspace : activeRuns'[v] # s,
           \A v \in Workspace : activeRuns'[v] # activeRuns[v] =>
              runCwd[s] = v /\ activeRuns'[v] = IF st = "over" THEN NoSlot ELSE s,
           UNCHANGED <<chain, slotCounter, executingSlot, runCwd, droppedFor,
                       moved>>
    PROVE  LaneTasks' /\ LaneRuns'
<1>t. /\ stage \in [Slot -> Stage]
      /\ activeRuns \in [Workspace -> Slot \cup {NoSlot}]
      /\ chain \in [Workspace -> SUBSET Slot]
  BY DEF RunInv, RunType, CountInv, TypeOK
<1>s. stage'[s] = st /\ \A t \in Slot : t # s => stage'[t] = stage[t]
  BY <1>t
<1>1. \A t \in Slot : (stage'[t] = "none" <=> stage[t] = "none")
  BY <1>s DEF Underway
<1>2. LaneTasks'
  <2>1. \A v \in Workspace : \A t \in chain'[v] :
           t # executingSlot'[v] => stage'[t] = "none"
    BY <1>t, <1>1 DEF RunInv, LaneTasks
  <2>. QED BY <1>1, <2>1 DEF RunInv, LaneTasks
<1>3. \A t \in Slot : Underway(t)' => Underway(t)
  BY <1>s DEF Underway
<1>4. \A t \in Slot : Underway(t) /\ (t # s \/ st # "over") => Underway(t)'
  BY <1>s DEF Underway
<1>5. \A t \in Slot : stage'[t] = "announcing" => t \in CompactTask
  BY <1>s DEF RunInv, LaneRuns
<1>6. ASSUME NEW v \in Workspace, activeRuns'[v] # NoSlot
      PROVE  Underway(activeRuns[v])' /\ runCwd'[activeRuns'[v]] = v
  <2>1. CASE activeRuns'[v] = activeRuns[v]
    <3>1. activeRuns[v] \in Slot
      BY <1>6, <1>t, <2>1
    <3>2. Underway(activeRuns[v]) /\ runCwd[activeRuns[v]] = v
      BY <1>6, <2>1 DEF RunInv, LaneRuns
    <3>. QED BY <1>s, <2>1, <3>1, <3>2 DEF Underway
  <2>2. CASE activeRuns'[v] # activeRuns[v]
    <3>1. runCwd[s] = v /\ activeRuns'[v] = s /\ st # "over"
      BY <1>6, <2>2
    <3>. QED BY <1>s, <3>1 DEF Underway
  <2>. QED BY <2>1, <2>2
<1>7. LaneRuns'
  BY <1>3, <1>5, <1>6 DEF RunInv, LaneRuns
<1>. QED BY <1>2, <1>7

LEMMA LanesUnderQueue ==
    ASSUME CountInv, RunInv, NEW w \in Workspace,
           \/ \E m \in Message :
                Enqueue(w, m) \/ EnqueueRejected(w, m) \/ RemoveFromQueue(w, m)
           \/ \E s \in Slot :
                SkipTask(w, s) \/ (BodyReturned(w, s) /\ Settle(w, s)),
           UNCHANGED bridgeVars
    PROVE  LaneTasks' /\ LaneRuns' /\ ActiveOrDisturbed'
<1>u. /\ UNCHANGED <<stage, runCwd, activeRuns, windows, droppedFor, moved, overtaken,
                     covered>>
      /\ stopped' = stopped
  BY DEF bridgeVars, runVars, ghostVars, Enqueue, EnqueueRejected, RemoveFromQueue,
         SkipTask, Settle, DecrementExecutingCount, countVars
<1>t. /\ stage \in [Slot -> Stage]
      /\ slotCounter \in 0 .. MaxSlot
      /\ chain \in [Workspace -> SUBSET Slot]
      /\ executingSlot \in [Workspace -> Slot \cup {NoSlot}]
  BY DEF RunInv, RunType, CountInv, TypeOK
<1>1. ActiveOrDisturbed'
  BY <1>u DEF RunInv, ActiveOrDisturbed, IsLive, Disturbed
<1>2. ASSUME NEW m \in Message, Enqueue(w, m)
      PROVE  LaneTasks' /\ LaneRuns'
  <2>1. /\ slotCounter' = slotCounter + 1 /\ slotCounter < MaxSlot
        /\ chain' = [chain EXCEPT ![w] = @ \cup {slotCounter + 1}]
        /\ executingSlot' = executingSlot
    BY <1>2 DEF Enqueue, MintSlot
  <2>2. \A v \in Workspace : \A s \in chain[v] : s <= slotCounter
    BY DEF CountInv, Minted
  <2>3. \A v \in Workspace : \A s \in Slot :
           s \in chain'[v] <=> s \in chain[v] \/ (v = w /\ s = slotCounter + 1)
    BY <1>t, <2>1
  <2>4. stage[slotCounter + 1] = "none" /\ slotCounter + 1 \in Slot
    BY <1>t, <2>1, QueueAssumption DEF RunInv, LaneTasks, Slot
  <2>5. \A u, v \in Workspace : \A s \in Slot : s \in chain'[u] /\ s \in chain'[v] => u = v
    BY <1>t, <2>2, <2>3 DEF RunInv, LaneTasks
  <2>6. \A v \in Workspace : \A s \in chain'[v] : s # executingSlot'[v] => stage[s] = "none"
    BY <1>t, <2>1, <2>4 DEF RunInv, LaneTasks
  <2>7. \A s \in Slot : s > slotCounter' => stage[s] = "none"
    BY <1>t, <2>1 DEF RunInv, LaneTasks, Slot
  <2>8. LaneTasks'
    BY <1>u, <2>5, <2>6, <2>7 DEF RunInv, LaneTasks
  <2>9. LaneRuns'
    BY <1>u, <2>1 DEF RunInv, LaneRuns, Underway
  <2>. QED BY <2>8, <2>9
<1>3. ASSUME NEW m \in Message, EnqueueRejected(w, m)
      PROVE  LaneTasks' /\ LaneRuns'
  <2>1. /\ slotCounter' = slotCounter + 1
        /\ chain' = chain /\ executingSlot' = executingSlot
    BY <1>3 DEF EnqueueRejected, MintSlot, chainVars, countVars
  <2>2. \A s \in Slot : s > slotCounter' => stage[s] = "none"
    BY <1>t, <2>1 DEF RunInv, LaneTasks, Slot
  <2>3. LaneTasks'
    BY <1>u, <2>1, <2>2 DEF RunInv, LaneTasks
  <2>. QED BY <1>u, <2>1, <2>3 DEF RunInv, LaneRuns, Underway
<1>4. ASSUME \/ \E m \in Message : RemoveFromQueue(w, m)
             \/ \E s \in Slot : SkipTask(w, s)
      PROVE  LaneTasks' /\ LaneRuns'
  <2>1. UNCHANGED <<chain, slotCounter, executingSlot>>
    BY <1>4 DEF RemoveFromQueue, SkipTask, taskVars, chainVars, countVars
  <2>. QED BY <1>u, <2>1 DEF RunInv, LaneTasks, LaneRuns, Underway
<1>5. ASSUME NEW s \in Slot, BodyReturned(w, s), Settle(w, s)
      PROVE  LaneTasks' /\ LaneRuns'
  <2>1. /\ chain' = [chain EXCEPT ![w] = @ \ {s}]
        /\ slotCounter' = slotCounter
        /\ executingSlot' = [executingSlot EXCEPT ![w] = IF @ = s THEN NoSlot ELSE @]
        /\ IsHead(w, s)
    BY <1>5 DEF Settle, DecrementExecutingCount, taskVars
  <2>2. executingSlot[w] \in {NoSlot, s}
    BY <1>t, <2>1, ExecutingIsHead DEF IsHead, Slot
  <2>3. executingSlot[w] = s => stage[s] = "over"
    BY <1>5, ExecutingIsHead DEF BodyReturned, Slot
  <2>4. executingSlot'[w] = NoSlot
    BY <1>t, <2>1, <2>2
  <2>5. \A v \in Workspace : v # w => /\ chain'[v] = chain[v]
                                      /\ executingSlot'[v] = executingSlot[v]
    BY <1>t, <2>1
  <2>6. chain'[w] = chain[w] \ {s}
    BY <1>t, <2>1
  <2>7. \A v \in Workspace : chain'[v] \subseteq chain[v]
    BY <2>5, <2>6
  <2>8. \A v \in Workspace : \A t \in chain'[v] : t # executingSlot'[v] => stage[t] = "none"
    <3>1. ASSUME NEW t \in chain'[w] PROVE stage[t] = "none"
      <4>1. t # s /\ t \in chain[w] /\ t # NoSlot
        BY <1>t, <2>6 DEF Slot
      <4>. QED BY <2>2, <4>1 DEF RunInv, LaneTasks
    <3>. QED BY <2>5, <3>1 DEF RunInv, LaneTasks
  <2>9. LaneTasks'
    <3>1. \A u, v \in Workspace : \A t \in Slot : t \in chain'[u] /\ t \in chain'[v] => u = v
      BY <2>7 DEF RunInv, LaneTasks
    <3>. QED BY <1>u, <2>1, <2>8, <3>1 DEF RunInv, LaneTasks
  <2>10. ASSUME NEW t \in Slot, Underway(t)
         PROVE  runCwd[t] \in Workspace /\ (t \notin moved => executingSlot'[runCwd[t]] = t)
    <3>0. SUFFICES ASSUME t \notin moved PROVE executingSlot'[runCwd[t]] = t
      BY <2>10 DEF RunInv, LaneRuns
    <3>1. runCwd[t] \in Workspace /\ executingSlot[runCwd[t]] = t
      BY <2>10, <3>0 DEF RunInv, LaneRuns
    <3>2. runCwd[t] # w
      BY <1>t, <2>2, <2>3, <2>10, <3>1 DEF Underway, Slot
    <3>. QED BY <2>5, <3>1, <3>2
  <2>11. LaneRuns'
    BY <1>u, <2>10 DEF RunInv, LaneRuns, Underway
  <2>. QED BY <2>9, <2>11
<1>. QED BY <1>1, <1>2, <1>3, <1>4, <1>5

LEMMA LanesNext ==
    ASSUME CountInv, RunInv, [BridgeNext]_vars
    PROVE  LaneTasks' /\ LaneRuns' /\ ActiveOrDisturbed'
<1>t. /\ stage \in [Slot -> Stage]
      /\ runCwd \in [Slot -> Workspace \cup {NoWhere}]
      /\ activeRuns \in [Workspace -> Slot \cup {NoSlot}]
      /\ windows \subseteq Window
  BY DEF RunInv, RunType
<1>i. LaneTasks /\ LaneRuns /\ ActiveOrDisturbed
  BY DEF RunInv
<1>1. CASE ClearRunners
  <2>1. UNCHANGED <<chain, slotCounter, executingSlot, stage, runCwd, activeRuns,
                    windows, droppedFor, moved, overtaken, covered, stopped>>
    BY <1>1 DEF ClearRunners, runVars, ghostVars, queueVars, taskVars, chainVars,
                countVars
  <2>. QED
    BY <1>i, <2>1 DEF LaneTasks, LaneRuns, ActiveOrDisturbed, Underway, IsLive, Disturbed
<1>2. ASSUME NEW w \in Workspace, InterruptBegins(w)
      PROVE  LaneTasks' /\ LaneRuns' /\ ActiveOrDisturbed'
  <2>1. UNCHANGED <<chain, slotCounter, executingSlot, stage, runCwd, activeRuns,
                    droppedFor, moved, overtaken, covered, stopped>>
    BY <1>2 DEF InterruptBegins, runVars, ghostVars, queueVars, taskVars, chainVars,
                countVars
  <2>2. LaneTasks' /\ LaneRuns'
    BY <1>i, <2>1 DEF LaneTasks, LaneRuns, Underway
  <2>3. \A i \in windows' : \/ i \in windows
                             \/ /\ i.cwd = w /\ i.run = activeRuns[w]
                                /\ i.stoppedSlot = executingSlot[w]
    BY <1>2 DEF InterruptBegins
  <2>4. \A t \in Slot \ CompactTask : IsLive(t) => executingSlot[runCwd[t]] = t
    BY <1>i DEF LaneRuns, IsLive, Underway
  <2>5. ActiveOrDisturbed'
    BY <1>i, <2>1, <2>3, <2>4 DEF ActiveOrDisturbed, IsLive, Disturbed
  <2>. QED BY <2>2, <2>5
<1>3. ASSUME NEW w \in Workspace, NEW s \in Slot, ForwardToClaude(w, s)
      PROVE  LaneTasks' /\ LaneRuns' /\ ActiveOrDisturbed'
  <2>1. BeginTask(w, s) /\ UNCHANGED <<windows, moved>>
    BY <1>3 DEF ForwardToClaude
  <2>2. moved \subseteq CompactTask /\ droppedFor \subseteq moved
    BY <1>i DEF LaneRuns
  <2>3. CASE activeRuns[w] = NoSlot
    <3>1. PICK r \in Instance : Register(w, s, r) /\ UNCHANGED droppedFor
      BY <1>3, <2>3 DEF ForwardToClaude
    <3>2. covered' = covered
      BY <2>3, <3>1 DEF Register
    <3>. QED BY <2>1, <2>2, <2>3, <3>1, <3>2, BeginRun DEF Register
  <2>4. CASE activeRuns[w] # NoSlot
    <3>1. activeRuns[w] \in moved
      BY <2>1, <2>4, LaneIsFree
    <3>2. /\ droppedFor' = droppedFor \cup {activeRuns[w]}
          /\ stage' = [stage EXCEPT ![s] = "over"]
          /\ UNCHANGED <<runCwd, activeRuns, overtaken, covered>>
      BY <1>3, <2>4 DEF ForwardToClaude
    <3>. QED BY <2>1, <2>2, <3>1, <3>2, BeginRun
  <2>. QED BY <2>3, <2>4
<1>4. ASSUME NEW w \in Workspace, NEW s \in Slot, BeginCompact(w, s)
      PROVE  LaneTasks' /\ LaneRuns' /\ ActiveOrDisturbed'
  <2>1. /\ BeginTask(w, s) /\ s \in CompactTask
        /\ UNCHANGED <<activeRuns, windows, droppedFor, overtaken, covered>>
    BY <1>4 DEF BeginCompact
  <2>2. moved \subseteq CompactTask /\ droppedFor \subseteq moved
    BY <1>i DEF LaneRuns
  <2>3. CASE stage' = [stage EXCEPT ![s] = "over"] /\ UNCHANGED <<runCwd, moved>>
    BY <2>1, <2>2, <2>3, BeginRun
  <2>4. ASSUME NEW v \in Workspace, stage' = [stage EXCEPT ![s] = "announcing"],
               runCwd' = [runCwd EXCEPT ![s] = v],
               moved' = moved \cup (IF v = w THEN {} ELSE {s})
        PROVE  LaneTasks' /\ LaneRuns' /\ ActiveOrDisturbed'
    <3>1. /\ moved' \in {moved, moved \cup {s}} /\ moved' \subseteq CompactTask
          /\ s \notin moved' => v = w
          /\ droppedFor' \subseteq moved'
      BY <2>1, <2>2, <2>4
    <3>. QED BY <2>1, <2>4, <3>1, BeginRun
  <2>. QED BY <1>4, <2>3, <2>4 DEF BeginCompact, CompactCwd
<1>5. ASSUME NEW s \in Slot, StreamEnds(s) \/ FallbackCard(s)
      PROVE  LaneTasks' /\ LaneRuns' /\ ActiveOrDisturbed'
  <2>1. PICK st \in {"ended", "fallback"} : stage' = [stage EXCEPT ![s] = st]
    BY <1>5 DEF StreamEnds, FallbackCard
  <2>2. /\ Underway(s)
        /\ UNCHANGED <<chain, slotCounter, executingSlot, runCwd, activeRuns,
                       windows, droppedFor, moved, overtaken, covered, stopped>>
    BY <1>5 DEF StreamEnds, FallbackCard, Underway, ghostVars, queueVars, taskVars,
                chainVars, countVars
  <2>3. LaneTasks' /\ LaneRuns'
    BY <2>1, <2>2, RunGoesOn
  <2>4. \A t \in Slot : IsLive(t)' => IsLive(t)
    BY <1>t, <2>1 DEF IsLive
  <2>5. ActiveOrDisturbed'
    BY <1>i, <2>2, <2>4 DEF ActiveOrDisturbed, Disturbed
  <2>. QED BY <2>3, <2>5
<1>6. ASSUME NEW s \in Slot, FinalizeRun(s) \/ EndCompact(s)
      PROVE  LaneTasks' /\ LaneRuns' /\ ActiveOrDisturbed'
  <2>1. /\ Underway(s)
        /\ stage' = [stage EXCEPT ![s] = "over"]
        /\ UNCHANGED <<chain, slotCounter, executingSlot, runCwd, windows, droppedFor,
                       moved, overtaken, covered, stopped>>
    BY <1>6 DEF FinalizeRun, EndCompact, Underway, ghostVars, queueVars, taskVars,
                chainVars, countVars
  <2>2. runCwd[s] \in Workspace
    BY <1>i, <2>1 DEF LaneRuns
  <2>3. /\ \A v \in Workspace : v # runCwd[s] => activeRuns'[v] = activeRuns[v]
        /\ activeRuns'[runCwd[s]] = IF activeRuns[runCwd[s]] = s THEN NoSlot
                                    ELSE activeRuns[runCwd[s]]
    BY <1>6, <1>t, <2>2 DEF FinalizeRun, EndCompact
  <2>4. \A v \in Workspace : v # runCwd[s] => activeRuns[v] # s
    BY <1>i DEF LaneRuns, Slot
  <2>5. s # NoSlot
    BY DEF Slot
  <2>6. LaneTasks' /\ LaneRuns'
    <3>1. \A v \in Workspace : activeRuns'[v] # s
      BY <2>2, <2>3, <2>4, <2>5
    <3>2. \A v \in Workspace : activeRuns'[v] # activeRuns[v] =>
             runCwd[s] = v /\ activeRuns'[v] = NoSlot
      BY <2>2, <2>3
    <3>. QED BY <2>1, <3>1, <3>2, RunGoesOn
  <2>7. \A t \in Slot : IsLive(t)' => IsLive(t) /\ t # s
    BY <1>t, <2>1 DEF IsLive
  <2>8. \A t \in Slot : IsLive(t) => runCwd[t] \in Workspace
    BY <1>i DEF LaneRuns, IsLive, Underway
  <2>9. ActiveOrDisturbed'
    BY <1>i, <2>1, <2>2, <2>3, <2>7, <2>8 DEF ActiveOrDisturbed, Disturbed
  <2>. QED BY <2>6, <2>9
<1>7. ASSUME NEW s \in Slot, StartCompact(s)
      PROVE  LaneTasks' /\ LaneRuns' /\ ActiveOrDisturbed'
  <2>. DEFINE w == runCwd[s]
  <2>1. /\ stage[s] = "announcing" /\ Underway(s)
        /\ stage' = [stage EXCEPT ![s] = "running"]
        /\ activeRuns' = [activeRuns EXCEPT ![w] = s]
        /\ overtaken' = IF \E i \in windows : i.cwd = w THEN overtaken \cup {s}
                        ELSE overtaken
        /\ covered' = covered \cup ({activeRuns[w]} \ {NoSlot})
        /\ UNCHANGED <<chain, slotCounter, executingSlot, windows, droppedFor, moved,
                       stopped>>
    BY <1>7 DEF StartCompact, Register, Underway, queueVars, taskVars, chainVars,
                countVars
  <2>2. runCwd' = runCwd
    BY <1>7, <1>t DEF StartCompact, Register
  <2>3. w \in Workspace
    BY <1>i, <2>1 DEF LaneRuns
  <2>4. /\ \A v \in Workspace : v # w => activeRuns'[v] = activeRuns[v]
        /\ activeRuns'[w] = s
    BY <1>t, <2>1, <2>3
  <2>5. LaneTasks' /\ LaneRuns'
    BY <2>1, <2>2, <2>4, RunGoesOn
  <2>6. ASSUME NEW t \in Slot \ CompactTask, IsLive(t)', t \notin Disturbed'
        PROVE  /\ activeRuns'[runCwd'[t]] = t
               /\ \A i \in windows' : i.cwd = runCwd'[t] => i.run = t /\ i.stoppedSlot = t
    <3>1. t # s
      BY <1>i, <2>1, <2>6 DEF LaneRuns
    <3>2. IsLive(t) /\ t \notin Disturbed
      BY <1>t, <2>1, <2>6, <3>1 DEF IsLive, Disturbed
    <3>3. activeRuns[runCwd[t]] = t /\ runCwd[t] \in Workspace /\ t # NoSlot
      BY <1>i, <2>6, <3>2 DEF ActiveOrDisturbed, LaneRuns, IsLive, Underway, Slot
    <3>4. runCwd[t] # w
      BY <2>1, <2>6, <3>3 DEF Disturbed
    <3>. QED BY <1>i, <2>1, <2>2, <2>4, <2>6, <3>2, <3>3, <3>4 DEF ActiveOrDisturbed
  <2>7. ActiveOrDisturbed'
    BY <2>6 DEF ActiveOrDisturbed
  <2>. QED BY <2>5, <2>7
<1>8. ASSUME NEW i \in windows, InterruptEnds(i)
      PROVE  LaneTasks' /\ LaneRuns' /\ ActiveOrDisturbed'
  <2>1. /\ windows' \subseteq windows
        /\ UNCHANGED <<stage, runCwd, droppedFor, moved, overtaken, covered>>
    BY <1>8 DEF InterruptEnds, ghostVars
  <2>2. UNCHANGED <<chain, slotCounter, executingSlot>>
    BY <1>8 DEF InterruptEnds, ResetExecutingCount, queueVars, taskVars, chainVars,
                countVars
  <2>3. i.cwd \in Workspace
    BY <1>t DEF Window
  <2>4. /\ \A v \in Workspace : v # i.cwd => activeRuns'[v] = activeRuns[v]
        /\ activeRuns'[i.cwd] = IF activeRuns[i.cwd] = i.run THEN NoSlot
                                ELSE activeRuns[i.cwd]
    BY <1>8, <1>t, <2>3 DEF InterruptEnds
  <2>5. LaneTasks' /\ LaneRuns'
    BY <1>i, <2>1, <2>2, <2>4 DEF LaneTasks, LaneRuns, Underway
  <2>6. \A t \in Slot : IsLive(t) => runCwd[t] \in Workspace
    BY <1>i DEF LaneRuns, IsLive, Underway
  <2>7. stopped \subseteq stopped' /\ (i.stoppedSlot # NoSlot => i.stoppedSlot \in stopped')
    BY <1>8 DEF InterruptEnds, ResetExecutingCount, queueVars, countVars
  <2>8. ASSUME NEW t \in Slot \ CompactTask, IsLive(t)', t \notin Disturbed'
        PROVE  /\ activeRuns'[runCwd'[t]] = t
               /\ \A j \in windows' : j.cwd = runCwd'[t] => j.run = t /\ j.stoppedSlot = t
    <3>1. IsLive(t) /\ t \notin Disturbed /\ t \notin stopped' /\ t # NoSlot
      BY <2>1, <2>7, <2>8 DEF IsLive, Disturbed, Slot
    <3>2. runCwd[t] # i.cwd
      BY <1>i, <2>7, <2>8, <3>1 DEF ActiveOrDisturbed
    <3>. QED BY <1>i, <2>1, <2>4, <2>6, <2>8, <3>1, <3>2 DEF ActiveOrDisturbed
  <2>9. ActiveOrDisturbed'
    BY <2>8 DEF ActiveOrDisturbed
  <2>. QED BY <2>5, <2>9
<1>9. CASE UNCHANGED vars
  <2>1. UNCHANGED <<chain, slotCounter, executingSlot, stage, runCwd, activeRuns,
                    windows, droppedFor, moved, overtaken, covered, stopped>>
    BY <1>9 DEF vars, bridgeVars, runVars, ghostVars, queueVars, taskVars, chainVars,
                countVars
  <2>. QED
    BY <1>i, <2>1 DEF LaneTasks, LaneRuns, ActiveOrDisturbed, Underway, IsLive, Disturbed
<1>. QED
  BY <1>1, <1>2, <1>3, <1>4, <1>5, <1>6, <1>7, <1>8, <1>9, LanesUnderQueue
     DEF BridgeNext

LEMMA RunInvNext ==
    ASSUME CountInv, RunInv, [BridgeNext]_vars
    PROVE  CountInv' /\ RunInv'
<1>t. RunType /\ BegunSlots
  BY DEF RunInv
<1>1. [QueueNext]_queueVars
  BY <1>t, QueueStep
<1>2. CountInv'
  BY <1>1, CountNext
<1>3. RunType'
  BY <1>t, RunTypeNext
<1>4. /\ \A s \in Slot : HasBegun(s) => HasBegun(s)'
      /\ \A w \in Workspace :
            \/ executingSlot'[w] \in {NoSlot, executingSlot[w]}
            \/ executingSlot'[w] \in Slot /\ HasBegun(executingSlot[w])'
  BY <1>1, BegunStays
<1>5. \A i \in windows' : i \in windows \/ \E w \in Workspace : i.stoppedSlot = executingSlot[w]
  <2>1. ASSUME NEW w \in Workspace, InterruptBegins(w)
        PROVE  \A i \in windows' : i \in windows \/ i.stoppedSlot = executingSlot[w]
    BY <2>1 DEF InterruptBegins
  <2>2. CASE windows' \subseteq windows
    BY <2>2
  <2>3. ASSUME NEW w \in Workspace, NEW s \in Slot,
               ForwardToClaude(w, s) \/ BeginCompact(w, s)
        PROVE  windows' = windows
    BY <2>3 DEF ForwardToClaude, BeginCompact
  <2>4. ASSUME NEW s \in Slot,
               \/ StreamEnds(s) \/ FallbackCard(s) \/ FinalizeRun(s)
               \/ StartCompact(s) \/ EndCompact(s)
        PROVE  windows' = windows
    BY <2>4 DEF StreamEnds, FallbackCard, FinalizeRun, StartCompact, EndCompact
  <2>5. ASSUME NEW i \in windows, InterruptEnds(i)
        PROVE  windows' \subseteq windows
    BY <2>5 DEF InterruptEnds
  <2>6. CASE ClearRunners \/ UNCHANGED bridgeVars
    BY <2>6 DEF ClearRunners, bridgeVars
  <2>. QED BY <2>1, <2>2, <2>3, <2>4, <2>5, <2>6 DEF BridgeNext, vars
<1>6. \A w \in Workspace : executingSlot[w] \in Slot \cup {NoSlot}
  BY ExecutingIsHead
<1>7. \A i \in windows : i.stoppedSlot \in Slot \cup {NoSlot}
  BY <1>t DEF RunType, Window
<1>8. \A w \in Workspace : executingSlot'[w] # NoSlot => HasBegun(executingSlot[w])'
  <2>1. ASSUME NEW w \in Workspace, executingSlot'[w] = executingSlot[w],
               executingSlot[w] # NoSlot
        PROVE  HasBegun(executingSlot[w])'
    <3>1. executingSlot[w] \in Slot /\ HasBegun(executingSlot[w])
      BY <1>6, <1>t, <2>1 DEF BegunSlots
    <3>. QED BY <1>4, <2>1, <3>1 DEF HasBegun
  <2>. QED BY <1>4, <2>1
<1>9. ASSUME NEW i \in windows', i.stoppedSlot # NoSlot PROVE executed'[i.stoppedSlot] # NotRun
  <2>1. i.stoppedSlot \in Slot /\ HasBegun(i.stoppedSlot)
    BY <1>5, <1>6, <1>7, <1>9, <1>t DEF BegunSlots
  <2>. QED BY <1>4, <2>1 DEF HasBegun
<1>10. BegunSlots'
  BY <1>8, <1>9 DEF BegunSlots, HasBegun
<1>. QED BY <1>2, <1>3, <1>10, LanesNext DEF RunInv

-----------------------------------------------------------------------------
(* Runs and runners                                                        *)

CacheFacts ==
    /\ CountInv /\ RunInv /\ CacheType /\ CacheInv
    /\ InstancesCreated /\ LiveRunnerIsKept

\* What has disturbed a run stays so.
LEMMA DisturbedGrows ==
    ASSUME BegunSlots, RunType, [BridgeNext]_vars
    PROVE  Disturbed \subseteq Disturbed'
<1>1. stopped \subseteq stopped'
  <2>1. [QueueNext]_queueVars
    BY QueueStep
  <2>. QED
    BY <2>1 DEF QueueNext, Enqueue, EnqueueRejected, RemoveFromQueue, EditQueuedTask,
                BeginTask, SkipTask, Settle, DecrementExecutingCount,
                ResetExecutingCount, queueVars, countVars
<1>2. ASSUME NEW w \in Workspace, NEW s \in Slot, ForwardToClaude(w, s)
      PROVE  overtaken \subseteq overtaken' /\ covered \subseteq covered'
  BY <1>2 DEF ForwardToClaude, Register
<1>3. ASSUME NEW s \in Slot, StartCompact(s)
      PROVE  overtaken \subseteq overtaken' /\ covered \subseteq covered'
  BY <1>3 DEF StartCompact, Register
<1>4. ASSUME \/ ClearRunners
             \/ \E w \in Workspace : InterruptBegins(w) \/ \E s \in Slot : BeginCompact(w, s)
             \/ \E s \in Slot : StreamEnds(s) \/ FallbackCard(s) \/ FinalizeRun(s) \/ EndCompact(s)
             \/ \E i \in windows : InterruptEnds(i)
             \/ UNCHANGED bridgeVars
      PROVE  overtaken' = overtaken /\ covered' = covered
  BY <1>4 DEF ClearRunners, InterruptBegins, BeginCompact, StreamEnds, FallbackCard,
              FinalizeRun, EndCompact, InterruptEnds, bridgeVars, ghostVars
<1>5. overtaken \subseteq overtaken' /\ covered \subseteq covered'
  BY <1>2, <1>3, <1>4 DEF BridgeNext, vars
<1>. QED BY <1>1, <1>5 DEF Disturbed

LEMMA LiveFacts ==
    ASSUME CacheFacts, NEW s \in Slot \ CompactTask, IsLive(s), s \notin Disturbed
    PROVE  /\ runCwd[s] \in Workspace /\ agentKind[s] \in Kind
           /\ activeRuns[runCwd[s]] = s /\ s # NoSlot
           /\ runners[runCwd[s]][agentKind[s]] = runRunner[s]
           /\ runRunner[s] \in registered /\ runRunner[s] # NoRunner
BY DEF CacheFacts, RunInv, RunType, LaneRuns, ActiveOrDisturbed, LiveRunnerIsKept,
       CacheType, Instance, IsLive, Underway, Slot

\* A step that gives the cache no other content and starts no message run.
LEMMA CacheFrame ==
    ASSUME CacheFacts, UNCHANGED cacheVars,
           UNCHANGED <<runCwd, agentKind>>,
           \A s \in Slot : runRunner'[s] <= runnerCount,
           \A s \in Slot \ CompactTask :
              IsLive(s)' => IsLive(s) /\ runRunner'[s] = runRunner[s],
           Disturbed \subseteq Disturbed'
    PROVE  CacheType' /\ CacheInv' /\ InstancesCreated' /\ LiveRunnerIsKept'
<1>1. CacheType' /\ CacheInv' /\ InstancesCreated'
  BY DEF CacheFacts, cacheVars, CacheType, CacheInv, InstancesCreated
<1>2. ASSUME NEW s \in Slot \ CompactTask, IsLive(s)', s \notin Disturbed'
      PROVE  /\ runRunner'[s] \in registered'
             /\ runners'[runCwd'[s]][agentKind'[s]] = runRunner'[s]
  <2>1. IsLive(s) /\ s \notin Disturbed /\ runRunner'[s] = runRunner[s]
    BY <1>2
  <2>. QED BY <2>1, LiveFacts DEF cacheVars
<1>. QED BY <1>1, <1>2 DEF LiveRunnerIsKept

\* A step that discards slots, none of them that of a live run which counts.
LEMMA CacheEvict ==
    ASSUME CacheFacts, NEW D \in SUBSET (Workspace \X Kind),
           runners' = CacheWithout(D), registered' = RegisteredWithout(D),
           staleRunnerSlots' \subseteq Workspace \X Kind,
           UNCHANGED <<runnerCount, runnerConfig, runCwd, runRunner, agentKind>>,
           Disturbed \subseteq Disturbed',
           \A s \in Slot : IsLive(s)' => IsLive(s),
           \A s \in Slot \ CompactTask :
              IsLive(s)' /\ s \notin Disturbed' => <<runCwd[s], agentKind[s]>> \notin D
    PROVE  CacheType' /\ CacheInv' /\ InstancesCreated' /\ LiveRunnerIsKept'
<1>i. CacheType /\ CacheInv
  BY DEF CacheFacts
<1>1. CacheType' /\ CacheInv' /\ InstancesCreated'
  BY <1>i, EvictSlots DEF CacheFacts, CacheType, InstancesCreated
<1>2. ASSUME NEW s \in Slot \ CompactTask, IsLive(s)', s \notin Disturbed'
      PROVE  /\ runRunner'[s] \in registered'
             /\ runners'[runCwd'[s]][agentKind'[s]] = runRunner'[s]
  <2>. DEFINE w == runCwd[s]
              k == agentKind[s]
  <2>1. IsLive(s) /\ s \notin Disturbed /\ <<w, k>> \notin D
    BY <1>2
  <2>2. /\ w \in Workspace /\ k \in Kind
        /\ runners[w][k] = runRunner[s]
        /\ runners[w][k] \in registered \ {NoRunner}
    BY <2>1, LiveFacts
  <2>. HIDE DEF w, k
  <2>3. runners'[w][k] = runners[w][k] /\ runners[w][k] \in registered'
    BY <1>i, <2>1, <2>2, EvictSlots
  <2>. QED BY <2>2, <2>3 DEF w, k
<1>. QED BY <1>1, <1>2 DEF LiveRunnerIsKept

\* getRunner spares the runner of a live run, also when it makes room.
LEMMA CacheGet ==
    ASSUME CacheFacts, NEW w \in Workspace, NEW k \in Kind, NEW r \in Instance,
           GetRunner(w, k, r), UNCHANGED agentKind, Disturbed \subseteq Disturbed',
           \A s \in Slot : runRunner'[s] \in {runRunner[s], r},
           \A s \in Slot \ CompactTask : IsLive(s)' =>
              \/ /\ IsLive(s) /\ runCwd'[s] = runCwd[s] /\ runRunner'[s] = runRunner[s]
              \/ runCwd'[s] = w /\ agentKind[s] = k /\ runRunner'[s] = r
    PROVE  CacheType' /\ CacheInv' /\ InstancesCreated' /\ LiveRunnerIsKept'
<1>i. CacheType /\ CacheInv /\ configVersion \in 0 .. MaxConfig
  BY DEF CacheFacts, RunInv, RunType
<1>g. /\ CacheType' /\ CacheInv'
      /\ runners'[w][k] = r
      /\ runnerCount <= runnerCount'
      /\ \A v \in Workspace, j \in Kind :
            /\ runners[v][j] # NoRunner
            /\ <<v, j>> \notin DeadSlots(w)
            => /\ runners'[v][j] = runners[v][j]
               /\ runners'[v][j] \in registered'
  BY <1>i, GetRunnerEffect
<1>r. r \in registered' /\ r <= runnerCount'
  BY <1>g DEF CacheInv, Instance
<1>1. InstancesCreated'
  <2>1. ASSUME NEW s \in Slot PROVE runRunner'[s] <= runnerCount'
    <3>1. runRunner[s] \in Int /\ runRunner[s] <= runnerCount
      BY DEF CacheFacts, InstancesCreated, RunInv, RunType, Instance
    <3>2. runnerCount \in Int /\ runnerCount' \in Int
      BY <1>i, <1>g DEF CacheType
    <3>. QED BY <1>g, <1>r, <3>1, <3>2
  <2>. QED BY <2>1 DEF InstancesCreated
<1>2. ASSUME NEW s \in Slot \ CompactTask, IsLive(s)', s \notin Disturbed'
      PROVE  /\ runRunner'[s] \in registered'
             /\ runners'[runCwd'[s]][agentKind'[s]] = runRunner'[s]
  <2>1. CASE runCwd'[s] = w /\ agentKind[s] = k /\ runRunner'[s] = r
    BY <1>g, <1>r, <2>1
  <2>2. CASE IsLive(s) /\ runCwd'[s] = runCwd[s] /\ runRunner'[s] = runRunner[s]
    <3>. DEFINE v == runCwd[s]
                j == agentKind[s]
    <3>1. /\ v \in Workspace /\ j \in Kind
          /\ runners[v][j] = runRunner[s] /\ runRunner[s] # NoRunner
      <4>1. s \notin Disturbed
        BY <1>2
      <4>. QED BY <2>2, <4>1, LiveFacts
    <3>2. IsRunning(runRunner[s])
      BY <2>2 DEF IsRunning, IsLive
    <3>. HIDE DEF v, j
    <3>3. <<v, j>> \notin DeadSlots(w)
      BY <3>1, <3>2, DeadSlotsAreIdle
    <3>4. runners'[v][j] = runners[v][j] /\ runners'[v][j] \in registered'
      BY <1>g, <3>1, <3>3
    <3>. QED BY <2>2, <3>1, <3>4 DEF v, j
  <2>. QED BY <1>2, <2>1, <2>2
<1>. QED BY <1>g, <1>1, <1>2 DEF LiveRunnerIsKept

LEMMA CacheNext ==
    ASSUME CacheFacts, [BridgeNext]_vars
    PROVE  CacheType' /\ CacheInv' /\ InstancesCreated' /\ LiveRunnerIsKept'
<1>. DEFINE Goal == CacheType' /\ CacheInv' /\ InstancesCreated' /\ LiveRunnerIsKept'
<1>t. RunType /\ LaneRuns /\ ActiveOrDisturbed /\ CountInv /\ RunInv
      /\ CacheType /\ InstancesCreated
  BY DEF CacheFacts, RunInv
<1>c. \A s \in Slot : runRunner[s] <= runnerCount
  BY <1>t DEF InstancesCreated
<1>d. Disturbed \subseteq Disturbed'
  BY <1>t, DisturbedGrows DEF RunInv
<1>1. CASE ClearRunners
  <2>. DEFINE idle == {w \in Workspace : activeRuns[w] = NoSlot}
              D == {d \in idle \X Kind : Held(d) # NoRunner}
              busy == {w \in Workspace : activeRuns[w] # NoSlot}
              E == {d \in busy \X Kind : Held(d) # NoRunner}
  <2>1. Workspace \ busy = idle
    OBVIOUS
  <2>2. /\ runners' = CacheWithout(D) /\ registered' = RegisteredWithout(D)
        /\ staleRunnerSlots' = (staleRunnerSlots \ D) \cup E
    BY <1>1, <2>1 DEF ClearRunners
  <2>3. UNCHANGED <<runnerCount, runnerConfig, stage, runCwd, runRunner, agentKind>>
    BY <1>1 DEF ClearRunners, runVars, ghostVars
  <2>4. /\ D \in SUBSET (Workspace \X Kind)
        /\ staleRunnerSlots' \subseteq Workspace \X Kind
    BY <1>t, <2>2 DEF CacheType
  <2>5. ASSUME NEW s \in Slot \ CompactTask, IsLive(s)', s \notin Disturbed'
        PROVE  <<runCwd[s], agentKind[s]>> \notin D
    <3>1. IsLive(s) /\ s \notin Disturbed
      BY <1>d, <2>3, <2>5 DEF IsLive
    <3>2. activeRuns[runCwd[s]] # NoSlot
      BY <2>5, <3>1, LiveFacts
    <3>. QED BY <3>2
  <2>6. \A s \in Slot : IsLive(s)' => IsLive(s)
    BY <2>3 DEF IsLive
  <2>. HIDE DEF D, E
  <2>. QED BY <1>d, <2>2, <2>3, <2>4, <2>5, <2>6, CacheEvict
<1>2. ASSUME NEW w \in Workspace, NEW s \in Slot, ForwardToClaude(w, s)
      PROVE  Goal
  <2>1. BeginTask(w, s) /\ UNCHANGED agentKind
    BY <1>2 DEF ForwardToClaude
  <2>2. agentKind[s] \in Kind
    BY <1>t DEF RunType
  <2>3. CASE activeRuns[w] # NoSlot
    <3>1. stage' = [stage EXCEPT ![s] = "over"] /\ UNCHANGED <<runCwd, runRunner, cacheVars>>
      BY <1>2, <2>3 DEF ForwardToClaude
    <3>2. \A t \in Slot \ CompactTask : IsLive(t)' => IsLive(t)
      BY <1>t, <3>1 DEF IsLive, RunType
    <3>. QED BY <1>c, <1>d, <2>1, <3>1, <3>2, CacheFrame
  <2>4. CASE activeRuns[w] = NoSlot
    <3>1. PICK r \in Instance : GetRunner(w, agentKind[s], r) /\ Register(w, s, r)
      BY <1>2, <2>4 DEF ForwardToClaude
    <3>2. /\ stage' = [stage EXCEPT ![s] = "running"]
          /\ runCwd' = [runCwd EXCEPT ![s] = w]
          /\ runRunner' = [runRunner EXCEPT ![s] = r]
      BY <3>1 DEF Register
    <3>3. \A t \in Slot : t # s => /\ stage'[t] = stage[t]
                                   /\ runCwd'[t] = runCwd[t]
                                   /\ runRunner'[t] = runRunner[t]
      BY <1>t, <3>2 DEF RunType
    <3>4. runCwd'[s] = w /\ runRunner'[s] = r
      BY <1>t, <3>2 DEF RunType
    <3>5. \A t \in Slot \ CompactTask : IsLive(t)' =>
                \/ /\ IsLive(t) /\ runCwd'[t] = runCwd[t] /\ runRunner'[t] = runRunner[t]
                \/ runCwd'[t] = w /\ agentKind[t] = agentKind[s] /\ runRunner'[t] = r
      BY <3>3, <3>4 DEF IsLive
    <3>6. \A t \in Slot : runRunner'[t] \in {runRunner[t], r}
      BY <3>3, <3>4
    <3>. QED BY <1>d, <2>1, <2>2, <3>1, <3>5, <3>6, CacheGet
  <2>. QED BY <2>3, <2>4
<1>3. ASSUME NEW w \in Workspace, NEW s \in Slot, BeginCompact(w, s)
      PROVE  Goal
  <2>1. s \in CompactTask /\ UNCHANGED agentKind
    BY <1>3 DEF BeginCompact
  <2>2. agentKind[s] \in Kind
    BY <1>t DEF RunType
  <2>3. CASE UNCHANGED <<runCwd, runRunner, cacheVars>> /\ stage' = [stage EXCEPT ![s] = "over"]
    <3>1. \A t \in Slot \ CompactTask : IsLive(t)' => IsLive(t)
      BY <1>t, <2>3 DEF IsLive, RunType
    <3>. QED BY <1>c, <1>d, <2>1, <2>3, <3>1, CacheFrame
  <2>4. ASSUME NEW v \in Workspace, NEW r \in Instance, GetRunner(v, agentKind[s], r),
               \/ /\ stage' = [stage EXCEPT ![s] = "over"]
                  /\ UNCHANGED <<runCwd, runRunner>>
               \/ /\ stage' = [stage EXCEPT ![s] = "announcing"]
                  /\ runCwd' = [runCwd EXCEPT ![s] = v]
                  /\ runRunner' = [runRunner EXCEPT ![s] = r]
        PROVE  Goal
    <3>1. \A t \in Slot : t # s => /\ stage'[t] = stage[t]
                                   /\ runCwd'[t] = runCwd[t]
                                   /\ runRunner'[t] = runRunner[t]
      BY <1>t, <2>4 DEF RunType
    <3>2. runRunner'[s] \in {runRunner[s], r}
      BY <1>t, <2>4 DEF RunType
    <3>3. \A t \in Slot \ CompactTask : IsLive(t)' =>
             IsLive(t) /\ runCwd'[t] = runCwd[t] /\ runRunner'[t] = runRunner[t]
      BY <2>1, <3>1 DEF IsLive
    <3>4. \A t \in Slot : runRunner'[t] \in {runRunner[t], r}
      BY <3>1, <3>2
    <3>. QED BY <1>d, <2>1, <2>2, <2>4, <3>3, <3>4, CacheGet
  <2>. QED BY <1>3, <2>3, <2>4 DEF BeginCompact, CompactCwd
<1>4. ASSUME NEW s \in Slot, FallbackCard(s) PROVE Goal
  <2>1. /\ stage[s] = "ended" /\ stage' = [stage EXCEPT ![s] = "fallback"]
        /\ UNCHANGED <<runCwd, runRunner, agentKind>>
    BY <1>4 DEF FallbackCard, ghostVars
  <2>2. PICK r \in Instance : GetRunner(runCwd[s], agentKind[s], r)
    BY <1>4 DEF FallbackCard
  <2>3. agentKind[s] \in Kind
    BY <1>t DEF RunType
  <2>4. runCwd[s] \in Workspace
    BY <1>t, <2>1 DEF LaneRuns, Underway
  <2>5. \A t \in Slot \ CompactTask : IsLive(t)' => IsLive(t)
    BY <1>t, <2>1 DEF IsLive, RunType
  <2>. QED BY <1>d, <2>1, <2>2, <2>3, <2>4, <2>5, CacheGet
<1>5. ASSUME NEW s \in Slot, FinalizeRun(s) PROVE Goal
  <2>. DEFINE w == runCwd[s]
              D == {<<w, agentKind[s]>>}
  <2>1. /\ stage[s] \in {"ended", "fallback"}
        /\ stage' = [stage EXCEPT ![s] = "over"]
        /\ UNCHANGED <<runCwd, runRunner, agentKind>>
    BY <1>5 DEF FinalizeRun, ghostVars
  <2>2. \A t \in Slot : IsLive(t)' => IsLive(t)
    BY <1>t, <2>1 DEF IsLive, RunType
  <2>3. CASE UNCHANGED cacheVars
    BY <1>c, <1>d, <2>1, <2>2, <2>3, CacheFrame
  <2>4. CASE activeRuns[w] = s /\ EvictRunnerSlots(D)
    <3>1. w \in Workspace /\ agentKind[s] \in Kind
      BY <1>t, <2>1 DEF LaneRuns, Underway, RunType
    <3>2. D \in SUBSET (Workspace \X Kind)
      BY <3>1
    <3>3. ASSUME NEW t \in Slot \ CompactTask, IsLive(t)', t \notin Disturbed'
          PROVE  <<runCwd[t], agentKind[t]>> \notin D
      <4>0. IsLive(t) /\ t \notin Disturbed
        BY <1>d, <2>2, <3>3
      <4>1. IsLive(t) /\ activeRuns[runCwd[t]] = t
        BY <4>0, LiveFacts
      <4>2. runCwd[t] # w
        BY <2>1, <2>4, <4>1 DEF IsLive
      <4>. QED BY <4>2
    <3>4. /\ runners' = CacheWithout(D) /\ registered' = RegisteredWithout(D)
          /\ staleRunnerSlots' \subseteq Workspace \X Kind
          /\ UNCHANGED <<runnerCount, runnerConfig>>
      BY <1>t, <2>4 DEF EvictRunnerSlots, CacheType
    <3>. HIDE DEF D, w
    <3>. QED BY <1>d, <2>1, <2>2, <3>2, <3>3, <3>4, CacheEvict
  <2>. QED BY <1>5, <2>3, <2>4 DEF FinalizeRun
<1>6. ASSUME NEW i \in windows, InterruptEnds(i) PROVE Goal
  <2>. DEFINE D == {<<i.cwd, agentKind[i.run]>>}
  <2>1. /\ EvictRunnerSlots(D)
        /\ UNCHANGED <<stage, runCwd, runRunner, agentKind>>
    BY <1>6 DEF InterruptEnds, ghostVars
  <2>2. i.cwd \in Workspace /\ agentKind[i.run] \in Kind
    BY <1>t DEF RunType, Window
  <2>3. D \in SUBSET (Workspace \X Kind)
    BY <2>2
  <2>4. ASSUME NEW t \in Slot \ CompactTask, IsLive(t)', t \notin Disturbed'
        PROVE  <<runCwd[t], agentKind[t]>> \notin D
    <3>1. IsLive(t) /\ t \notin Disturbed /\ t \notin stopped' /\ t # NoSlot
      BY <1>d, <2>1, <2>4 DEF IsLive, Disturbed, Slot
    <3>2. i.stoppedSlot # NoSlot => i.stoppedSlot \in stopped'
      BY <1>6 DEF InterruptEnds, ResetExecutingCount
    <3>3. runCwd[t] # i.cwd
      BY <1>t, <2>4, <3>1, <3>2 DEF ActiveOrDisturbed
    <3>. QED BY <3>3
  <2>5. /\ runners' = CacheWithout(D) /\ registered' = RegisteredWithout(D)
        /\ staleRunnerSlots' \subseteq Workspace \X Kind
        /\ UNCHANGED <<runnerCount, runnerConfig>>
    BY <1>t, <2>1 DEF EvictRunnerSlots, CacheType
  <2>6. \A t \in Slot : IsLive(t)' => IsLive(t)
    BY <2>1 DEF IsLive
  <2>. HIDE DEF D
  <2>. QED BY <1>d, <2>1, <2>3, <2>4, <2>5, <2>6, CacheEvict
<1>7. ASSUME NEW s \in Slot, StartCompact(s) PROVE Goal
  <2>1. /\ stage[s] = "announcing" /\ Register(runCwd[s], s, runRunner[s])
        /\ UNCHANGED <<agentKind, cacheVars>>
    BY <1>7 DEF StartCompact
  <2>2. s \in CompactTask
    BY <1>t, <2>1 DEF LaneRuns
  <2>3. /\ runCwd' = runCwd /\ runRunner' = runRunner
        /\ stage' = [stage EXCEPT ![s] = "running"]
    BY <1>t, <2>1 DEF Register, RunType
  <2>4. \A t \in Slot \ CompactTask : IsLive(t)' => IsLive(t)
    BY <1>t, <2>2, <2>3 DEF IsLive, RunType
  <2>. QED BY <1>c, <1>d, <2>1, <2>3, <2>4, CacheFrame
<1>8. ASSUME NEW s \in Slot, StreamEnds(s) \/ EndCompact(s) PROVE Goal
  <2>1. /\ \/ stage' = [stage EXCEPT ![s] = "ended"]
           \/ stage' = [stage EXCEPT ![s] = "over"]
        /\ UNCHANGED <<agentKind, runCwd, runRunner, cacheVars>>
    BY <1>8 DEF StreamEnds, EndCompact, ghostVars
  <2>2. \A t \in Slot \ CompactTask : IsLive(t)' => IsLive(t)
    BY <1>t, <2>1 DEF IsLive, RunType
  <2>. QED BY <1>c, <1>d, <2>1, <2>2, CacheFrame
<1>9. CASE UNCHANGED bridgeVars \/ \E w \in Workspace : InterruptBegins(w)
  <2>1. UNCHANGED <<agentKind, stage, runCwd, runRunner, cacheVars>>
    BY <1>9 DEF InterruptBegins, bridgeVars, runVars, ghostVars
  <2>2. \A t \in Slot \ CompactTask : IsLive(t)' => IsLive(t)
    BY <2>1 DEF IsLive
  <2>. QED BY <1>c, <1>d, <2>1, <2>2, CacheFrame
<1>. QED
  BY <1>1, <1>2, <1>3, <1>4, <1>5, <1>6, <1>7, <1>8, <1>9 DEF BridgeNext, vars

-----------------------------------------------------------------------------
(* Runners and the configuration                                           *)

\* A task keeps its agent, and once it has a workspace, that.
LEMMA RunStays ==
    ASSUME CountInv, RunInv, [BridgeNext]_vars
    PROVE  /\ agentKind' = agentKind
           /\ \A s \in Slot : runCwd[s] # NoWhere => runCwd'[s] = runCwd[s]
<1>t. RunType
  BY DEF RunInv
<1>1. ASSUME NEW w \in Workspace, NEW s \in Slot,
             ForwardToClaude(w, s) \/ BeginCompact(w, s)
      PROVE  /\ agentKind' = agentKind
             /\ \A t \in Slot : runCwd[t] # NoWhere => runCwd'[t] = runCwd[t]
  <2>1. BeginTask(w, s) /\ agentKind' = agentKind
    BY <1>1 DEF ForwardToClaude, BeginCompact
  <2>2. runCwd[s] = NoWhere
    BY <2>1, LaneIsFree
  <2>3. runCwd' = runCwd \/ \E v \in Workspace : runCwd' = [runCwd EXCEPT ![s] = v]
    BY <1>1 DEF ForwardToClaude, BeginCompact, CompactCwd, Register
  <2>. QED BY <1>t, <2>1, <2>2, <2>3 DEF RunType
<1>2. ASSUME NEW s \in Slot, StartCompact(s)
      PROVE  agentKind' = agentKind /\ runCwd' = runCwd
  BY <1>2, <1>t DEF StartCompact, Register, RunType
<1>3. ASSUME NEW s \in Slot,
             StreamEnds(s) \/ FallbackCard(s) \/ FinalizeRun(s) \/ EndCompact(s)
      PROVE  agentKind' = agentKind /\ runCwd' = runCwd
  BY <1>3 DEF StreamEnds, FallbackCard, FinalizeRun, EndCompact
<1>4. ASSUME NEW i \in windows, InterruptEnds(i)
      PROVE  agentKind' = agentKind /\ runCwd' = runCwd
  BY <1>4 DEF InterruptEnds
<1>5. CASE \/ ClearRunners \/ \E w \in Workspace : InterruptBegins(w)
           \/ UNCHANGED bridgeVars
  BY <1>5 DEF ClearRunners, InterruptBegins, bridgeVars, runVars
<1>. QED BY <1>1, <1>2, <1>3, <1>4, <1>5 DEF BridgeNext, vars

LEMMA WindowRunsNext ==
    ASSUME CountInv, RunInv, WindowRuns, [BridgeNext]_vars
    PROVE  WindowRuns'
<1>t. RunType /\ LaneRuns
  BY DEF RunInv
<1>1. \A s \in Slot : runCwd[s] # NoWhere => runCwd'[s] = runCwd[s]
  BY RunStays
<1>2. ASSUME NEW i \in windows PROVE runCwd'[i.run] = i.cwd
  <2>1. i.run \in Slot /\ i.cwd \in Workspace /\ runCwd[i.run] = i.cwd
    BY <1>t DEF WindowRuns, RunType, Window
  <2>. QED BY <1>1, <2>1, RunsAssumption
<1>3. ASSUME NEW w \in Workspace, InterruptBegins(w) PROVE WindowRuns'
  <2>1. runCwd[activeRuns[w]] = w /\ runCwd' = runCwd
    BY <1>3, <1>t DEF InterruptBegins, LaneRuns, runVars
  <2>2. \A i \in windows' : i \in windows \/ (i.run = activeRuns[w] /\ i.cwd = w)
    BY <1>3 DEF InterruptBegins
  <2>. QED BY <1>2, <2>1, <2>2 DEF WindowRuns
<1>4. CASE windows' \subseteq windows
  BY <1>2, <1>4 DEF WindowRuns
<1>5. ASSUME NEW w \in Workspace, NEW s \in Slot,
             ForwardToClaude(w, s) \/ BeginCompact(w, s)
      PROVE  windows' = windows
  BY <1>5 DEF ForwardToClaude, BeginCompact
<1>6. ASSUME NEW s \in Slot,
             \/ StreamEnds(s) \/ FallbackCard(s) \/ FinalizeRun(s)
             \/ StartCompact(s) \/ EndCompact(s)
      PROVE  windows' = windows
  BY <1>6 DEF StreamEnds, FallbackCard, FinalizeRun, StartCompact, EndCompact
<1>7. ASSUME NEW i \in windows, InterruptEnds(i)
      PROVE  windows' \subseteq windows
  BY <1>7 DEF InterruptEnds
<1>8. CASE ClearRunners \/ UNCHANGED bridgeVars
  BY <1>4, <1>8 DEF ClearRunners, bridgeVars
<1>. QED BY <1>3, <1>4, <1>5, <1>6, <1>7, <1>8 DEF BridgeNext, vars

\* What MarkedInstances says of the cache, apart from the runs.
MarkedSlots(w) ==
    \A k \in Kind : runners[w][k] # NoRunner =>
       /\ \E s \in Slot : runCwd[s] = w
       /\ AgentOf(w, k) =>
             \/ runnerConfig[runners[w][k]] = configVersion
             \/ activeRuns[w] # NoSlot /\ <<w, k>> \in staleRunnerSlots

\* What it says of the message runs under way.
RunsAsBegun(w) ==
    \A s \in Slot : Underway(s) /\ s \notin CompactTask /\ runCwd[s] = w =>
       runRunner[s] # NoRunner /\ runnerConfig[runRunner[s]] = begunConfig[s]

LEMMA MarkedIsBoth ==
    \A w \in Workspace : MarkedInstances(w) <=> MarkedSlots(w) /\ RunsAsBegun(w)
BY DEF MarkedInstances, MarkedSlots, RunsAsBegun

\* The runs of w go on as they are, on instances that keep their configuration.
LEMMA RunsFrame ==
    ASSUME RunType, InstancesCreated, NEW w \in Workspace, RunsAsBegun(w),
           \A x \in Instance : x <= runnerCount => runnerConfig'[x] = runnerConfig[x],
           \A s \in Slot : Underway(s)' /\ s \notin CompactTask /\ runCwd'[s] = w =>
              /\ Underway(s) /\ runCwd[s] = w
              /\ runRunner'[s] = runRunner[s] /\ begunConfig'[s] = begunConfig[s]
    PROVE  RunsAsBegun(w)'
BY DEF RunsAsBegun, RunType, InstancesCreated, Instance

\* The slots of w are the same, and its run has not left.
LEMMA SlotsFrame ==
    ASSUME NEW w \in Workspace, MarkedSlots(w),
           UNCHANGED <<runners, runnerConfig, staleRunnerSlots, configVersion, agentKind,
                       runCwd>>,
           activeRuns[w] # NoSlot => activeRuns'[w] # NoSlot
    PROVE  MarkedSlots(w)'
BY DEF MarkedSlots, AgentOf

\* getRunner answers for a task in w, whose runs are all of one agent, or somewhere
\* else.
LEMMA SlotsAfterGet ==
    ASSUME RunType, CacheType, CacheInv, NEW w \in Workspace, MarkedSlots(w),
           NEW v \in Workspace, NEW k \in Kind, NEW r \in Instance, GetRunner(v, k, r),
           UNCHANGED <<agentKind, configVersion>>,
           \A s \in Slot : runCwd[s] # NoWhere => runCwd'[s] = runCwd[s],
           activeRuns[w] # NoSlot => activeRuns'[w] # NoSlot,
           v = w => \E s \in Slot : runCwd'[s] = w,
           \A s, t \in Slot : runCwd'[s] = w /\ runCwd'[t] = w => agentKind[s] = agentKind[t]
    PROVE  MarkedSlots(w)'
<1>g. /\ runners'[v][k] = r
      /\ \A u \in Workspace, j \in Kind : ~(u = v /\ j = k) =>
            runners'[u][j] \in {NoRunner, runners[u][j]}
      /\ \A u \in Workspace, j \in Kind :
            /\ runners[u][j] # NoRunner /\ runners'[u][j] # NoRunner
            /\ <<u, j>> \in staleRunnerSlots
            => <<u, j>> \in staleRunnerSlots'
      /\ \A x \in Instance : x <= runnerCount => runnerConfig'[x] = runnerConfig[x]
      /\ runners[v][k] = NoRunner => runnerConfig'[r] = configVersion
      /\ runners[v][k] # NoRunner => runners[v][k] = r
  BY GetRunnerEffect DEF RunType
<1>. SUFFICES ASSUME NEW j \in Kind, runners'[w][j] # NoRunner
              PROVE  /\ \E s \in Slot : runCwd'[s] = w
                     /\ AgentOf(w, j)' =>
                           \/ runnerConfig'[runners'[w][j]] = configVersion
                           \/ activeRuns'[w] # NoSlot /\ <<w, j>> \in staleRunnerSlots'
  BY DEF MarkedSlots
<1>1. CASE runners[w][j] # NoRunner
  <2>1. runners'[w][j] = runners[w][j]
    BY <1>1, <1>g
  <2>2. runners[w][j] \in Instance /\ runners[w][j] <= runnerCount
    BY <1>1 DEF CacheType, CacheInv
  <2>3. runnerConfig'[runners'[w][j]] = runnerConfig[runners[w][j]]
    BY <1>g, <2>1, <2>2
  <2>4. <<w, j>> \in staleRunnerSlots => <<w, j>> \in staleRunnerSlots'
    BY <1>1, <1>g
  <2>5. PICK t \in Slot : runCwd[t] = w
    BY <1>1 DEF MarkedSlots
  <2>6. runCwd'[t] = w
    BY <2>5, RunsAssumption
  <2>7. AgentOf(w, j)' => AgentOf(w, j)
    BY <2>5, <2>6 DEF AgentOf
  <2>. QED BY <1>1, <2>3, <2>4, <2>6, <2>7 DEF MarkedSlots
<1>2. CASE runners[w][j] = NoRunner
  <2>1. w = v /\ j = k
    BY <1>2, <1>g
  <2>. QED BY <1>2, <1>g, <2>1
<1>. QED BY <1>1, <1>2

\* Discarded slots need no mark; the run of w leaves only with its slot, unless
\* that is current.
LEMMA SlotsAfterEvict ==
    ASSUME RunType, NEW w \in Workspace, MarkedSlots(w),
           NEW D \in SUBSET (Workspace \X Kind), EvictRunnerSlots(D),
           UNCHANGED <<agentKind, configVersion, runCwd>>,
           \/ activeRuns[w] # NoSlot => activeRuns'[w] # NoSlot
           \/ \A s \in Slot : runCwd[s] = w => <<w, agentKind[s]>> \in D
    PROVE  MarkedSlots(w)'
<1>g. /\ \A k \in Kind :
            runners'[w][k] = IF <<w, k>> \in D THEN NoRunner ELSE runners[w][k]
      /\ staleRunnerSlots' = staleRunnerSlots \ D /\ runnerConfig' = runnerConfig
  BY DEF EvictRunnerSlots, CacheWithout
<1>. SUFFICES ASSUME NEW j \in Kind, runners'[w][j] # NoRunner
              PROVE  /\ \E s \in Slot : runCwd[s] = w
                     /\ AgentOf(w, j) =>
                           \/ runnerConfig[runners'[w][j]] = configVersion
                           \/ activeRuns'[w] # NoSlot /\ <<w, j>> \in staleRunnerSlots'
  BY <1>g DEF MarkedSlots, AgentOf
<1>1. <<w, j>> \notin D
  BY <1>g
<1>2. runners'[w][j] = runners[w][j] /\ runners[w][j] # NoRunner
  BY <1>1, <1>g
<1>3. AgentOf(w, j) => (activeRuns[w] # NoSlot => activeRuns'[w] # NoSlot)
  BY <1>1 DEF AgentOf
<1>4. <<w, j>> \in staleRunnerSlots => <<w, j>> \in staleRunnerSlots'
  BY <1>1, <1>g
<1>. QED BY <1>2, <1>3, <1>4 DEF MarkedSlots

\* A step that starts no message run in w and makes no other use of its instances.
RunsOfStay(w) ==
    \A s \in Slot : Underway(s)' /\ s \notin CompactTask /\ runCwd'[s] = w =>
       /\ Underway(s) /\ runCwd[s] = w
       /\ runRunner'[s] = runRunner[s] /\ begunConfig'[s] = begunConfig[s]

LEMMA ForwardMarks ==
    ASSUME CacheFacts, [BridgeNext]_vars,
           NEW w \in Workspace, OneAgentNoCompaction(w)', MarkedSlots(w), RunsAsBegun(w),
           NEW v \in Workspace, NEW s \in Slot, ForwardToClaude(v, s)
    PROVE  MarkedSlots(w)' /\ RunsAsBegun(w)'
<1>t. /\ RunType /\ CountInv /\ RunInv /\ CacheType /\ CacheInv /\ InstancesCreated
      /\ configVersion \in 0 .. MaxConfig
  BY DEF CacheFacts, RunInv, RunType
<1>s. \A t \in Slot : runCwd[t] # NoWhere => runCwd'[t] = runCwd[t]
  BY <1>t, RunStays
<1>1. BeginTask(v, s) /\ UNCHANGED <<agentKind, configVersion>>
  BY DEF ForwardToClaude
<1>b. CASE activeRuns[v] # NoSlot
  <2>1. /\ UNCHANGED <<runCwd, runRunner, activeRuns, cacheVars, begunConfig>>
        /\ stage' = [stage EXCEPT ![s] = "over"]
    BY <1>b DEF ForwardToClaude
  <2>2. RunsOfStay(w)
    BY <1>t, <2>1 DEF RunsOfStay, Underway, RunType
  <2>3. RunsAsBegun(w)'
    BY <1>t, <2>1, <2>2, RunsFrame DEF RunsOfStay, cacheVars
  <2>4. MarkedSlots(w)'
    BY <1>1, <2>1, SlotsFrame DEF cacheVars
  <2>. QED BY <2>3, <2>4
<1>f. CASE activeRuns[v] = NoSlot
  <2>. PICK r \in Instance : GetRunner(v, agentKind[s], r) /\ Register(v, s, r)
    BY <1>f DEF ForwardToClaude
  <2>. DEFINE k == agentKind[s]
  <2>3. k \in Kind
    BY <1>t DEF RunType
  <2>4. /\ stage'[s] = "running" /\ runCwd'[s] = v
        /\ runRunner'[s] = r /\ begunConfig'[s] = configVersion
        /\ \A u \in Workspace : activeRuns[u] # NoSlot => activeRuns'[u] = activeRuns[u]
        /\ \A t \in Slot : t # s => /\ stage'[t] = stage[t]
                                    /\ runCwd'[t] = runCwd[t]
                                    /\ runRunner'[t] = runRunner[t]
                                    /\ begunConfig'[t] = begunConfig[t]
    BY <1>f, <1>t DEF Register, RunType
  <2>g. /\ \A x \in Instance : x <= runnerCount => runnerConfig'[x] = runnerConfig[x]
        /\ runners[v][k] = NoRunner => runnerConfig'[r] = configVersion
        /\ runners[v][k] # NoRunner => runners[v][k] = r
    BY <1>t, <2>3, GetRunnerEffect
  <2>o. \A t, u \in Slot : runCwd'[t] = w /\ runCwd'[u] = w => agentKind[t] = agentKind[u]
    BY <1>1 DEF OneAgentNoCompaction
  <2>. HIDE DEF k
  <2>5. MarkedSlots(w)'
    <3>1. v = w => \E t \in Slot : runCwd'[t] = w
      BY <2>4
    <3>2. activeRuns[w] # NoSlot => activeRuns'[w] # NoSlot
      BY <2>4
    <3>3. GetRunner(v, k, r)
      BY DEF k
    <3>. QED BY <1>1, <1>s, <1>t, <2>3, <2>o, <3>1, <3>2, <3>3, SlotsAfterGet
  <2>6. CASE v # w
    <3>1. RunsOfStay(w)
      BY <2>4, <2>6 DEF RunsOfStay, Underway
    <3>2. RunsAsBegun(w)'
      BY <1>t, <2>g, <3>1, RunsFrame DEF RunsOfStay
    <3>. QED BY <2>5, <3>2
  <2>7. CASE v = w
    <3>1. runnerConfig'[r] = configVersion
      <4>1. CASE runners[w][k] # NoRunner
        <5>1. runners[w][k] = r /\ r <= runnerCount
          BY <1>t, <2>3, <2>7, <2>g, <4>1 DEF CacheInv
        <5>2. PICK t \in Slot : runCwd[t] = w
          BY <2>3, <4>1 DEF MarkedSlots
        <5>3. runCwd'[t] = w
          BY <1>s, <5>2, RunsAssumption
        <5>4. AgentOf(w, k)
          BY <2>4, <2>7, <2>o, <5>2, <5>3 DEF AgentOf, k
        <5>5. runnerConfig[r] = configVersion
          BY <1>f, <2>3, <2>7, <4>1, <5>1, <5>4 DEF MarkedSlots
        <5>. QED BY <2>g, <5>1, <5>5
      <4>. QED BY <2>7, <2>g, <4>1
    <3>2. ASSUME NEW t \in Slot, Underway(t)', runCwd'[t] = w, t \notin CompactTask
          PROVE  t = s
      <4>1. \A u \in Slot : Underway(u) => u # s /\ (u \notin moved => runCwd[u] # v)
        BY <1>1, <1>t, LaneIsFree
      <4>. QED BY <1>t, <2>4, <2>7, <3>2, <4>1 DEF Underway, RunInv, LaneRuns
    <3>3. r # NoRunner
      BY DEF Instance
    <3>4. RunsAsBegun(w)'
      BY <2>4, <3>1, <3>2, <3>3 DEF RunsAsBegun
    <3>. QED BY <2>5, <3>4
  <2>. QED BY <2>6, <2>7
<1>. QED BY <1>b, <1>f

LEMMA ClearMarks ==
    ASSUME CacheFacts, ClearRunners,
           NEW w \in Workspace, MarkedSlots(w), RunsAsBegun(w)
    PROVE  MarkedSlots(w)' /\ RunsAsBegun(w)'
<1>. DEFINE idle == {v \in Workspace : activeRuns[v] = NoSlot}
            D == {d \in idle \X Kind : Held(d) # NoRunner}
            busy == {v \in Workspace : activeRuns[v] # NoSlot}
            E == {d \in busy \X Kind : Held(d) # NoRunner}
<1>1. Workspace \ busy = idle
  OBVIOUS
<1>2. /\ runners' = CacheWithout(D)
      /\ staleRunnerSlots' = (staleRunnerSlots \ D) \cup E
  BY <1>1 DEF ClearRunners
<1>3. UNCHANGED <<runnerConfig, stage, runCwd, runRunner, agentKind, activeRuns,
                  begunConfig>>
  BY DEF ClearRunners, runVars, ghostVars
<1>4. RunsAsBegun(w)'
  BY <1>3 DEF RunsAsBegun, Underway
<1>5. ASSUME NEW k \in Kind, runners'[w][k] # NoRunner
      PROVE  /\ \E s \in Slot : runCwd[s] = w
             /\ activeRuns[w] # NoSlot /\ <<w, k>> \in staleRunnerSlots'
  <2>1. <<w, k>> \notin D /\ runners[w][k] # NoRunner
    BY <1>2, <1>5 DEF CacheWithout
  <2>2. Held(<<w, k>>) # NoRunner
    BY <2>1 DEF Held
  <2>3. w \notin idle
    BY <2>1, <2>2
  <2>4. <<w, k>> \in E
    BY <2>2, <2>3
  <2>. QED BY <1>2, <2>1, <2>3, <2>4 DEF MarkedSlots
<1>6. MarkedSlots(w)'
  BY <1>3, <1>5 DEF MarkedSlots
<1>. QED BY <1>4, <1>6

LEMMA FinalizeMarks ==
    ASSUME CacheFacts, UNCHANGED <<agentKind, configVersion>>,
           NEW w \in Workspace, OneAgentNoCompaction(w), MarkedSlots(w), RunsAsBegun(w),
           NEW s \in Slot, FinalizeRun(s)
    PROVE  MarkedSlots(w)' /\ RunsAsBegun(w)'
<1>t. RunType /\ LaneRuns /\ CacheType /\ InstancesCreated
  BY DEF CacheFacts, RunInv
<1>. DEFINE v == runCwd[s]
            D == {<<v, agentKind[s]>>}
<1>1. /\ stage[s] \in {"ended", "fallback"}
      /\ stage' = [stage EXCEPT ![s] = "over"]
      /\ UNCHANGED <<runCwd, runRunner, begunConfig>>
  BY DEF FinalizeRun, ghostVars
<1>2. v \in Workspace /\ agentKind[s] \in Kind
  BY <1>1, <1>t DEF LaneRuns, Underway, RunType
<1>3. v # w => activeRuns'[w] = activeRuns[w]
  BY <1>2, <1>t DEF FinalizeRun, RunType
<1>4. runnerConfig' = runnerConfig
  BY DEF FinalizeRun, EvictRunnerSlots, cacheVars
<1>5. RunsAsBegun(w)'
  <2>1. RunsOfStay(w)
    BY <1>1, <1>t DEF RunsOfStay, Underway, RunType
  <2>. QED BY <1>4, <1>t, <2>1, RunsFrame DEF RunsOfStay
<1>6. CASE EvictRunnerSlots(D)
  <2>1. \/ activeRuns[w] # NoSlot => activeRuns'[w] # NoSlot
        \/ \A t \in Slot : runCwd[t] = w => <<w, agentKind[t]>> \in D
    BY <1>3 DEF OneAgentNoCompaction
  <2>2. D \in SUBSET (Workspace \X Kind)
    BY <1>2
  <2>. HIDE DEF D
  <2>3. MarkedSlots(w)'
    BY <1>1, <1>6, <1>t, <2>1, <2>2, SlotsAfterEvict
  <2>. QED BY <1>5, <2>3
<1>7. CASE UNCHANGED cacheVars /\ (v = w /\ activeRuns[w] = s => <<v, agentKind[s]>> \notin staleRunnerSlots)
  <2>1. CASE activeRuns[w] # NoSlot => activeRuns'[w] # NoSlot
    <3>1. MarkedSlots(w)'
      BY <1>1, <1>7, <1>t, <2>1, SlotsFrame DEF cacheVars
    <3>. QED BY <1>5, <3>1
  <2>2. CASE ~(activeRuns[w] # NoSlot => activeRuns'[w] # NoSlot)
    <3>1. v = w /\ activeRuns[w] = s
      BY <1>3, <2>2, <1>2, <1>t DEF FinalizeRun, RunType
    <3>2. ASSUME NEW k \in Kind, runners[w][k] # NoRunner
          PROVE  /\ \E t \in Slot : runCwd[t] = w
                 /\ AgentOf(w, k) => runnerConfig[runners[w][k]] = configVersion
      <4>1. SUFFICES ASSUME AgentOf(w, k)
                     PROVE  runnerConfig[runners[w][k]] = configVersion
        BY <3>2 DEF MarkedSlots
      <4>2. k = agentKind[s]
        BY <3>1, <4>1 DEF OneAgentNoCompaction, AgentOf
      <4>3. <<w, k>> \notin staleRunnerSlots
        BY <1>7, <3>1, <4>2
      <4>. QED BY <3>2, <4>1, <4>3 DEF MarkedSlots
    <3>3. MarkedSlots(w)'
      BY <1>1, <1>7, <3>2 DEF MarkedSlots, AgentOf, cacheVars
    <3>. QED BY <1>5, <3>3
  <2>. QED BY <2>1, <2>2
<1>. QED BY <1>6, <1>7 DEF FinalizeRun

LEMMA ConfigNext ==
    ASSUME CacheFacts, WindowRuns, ConfigInv, [BridgeNext]_vars
    PROVE  ConfigInv'
<1>t. /\ RunType /\ LaneRuns /\ CountInv /\ RunInv /\ CacheType /\ CacheInv
      /\ InstancesCreated /\ configVersion \in 0 .. MaxConfig
  BY DEF CacheFacts, RunInv, RunType
<1>s. /\ agentKind' = agentKind
      /\ \A s \in Slot : runCwd[s] # NoWhere => runCwd'[s] = runCwd[s]
  BY <1>t, RunStays
<1>. SUFFICES ASSUME NEW w \in Workspace, OneAgentNoCompaction(w)'
              PROVE  MarkedSlots(w)' /\ RunsAsBegun(w)'
  BY DEF ConfigInv, MarkedInstances, MarkedSlots, RunsAsBegun
<1>o. OneAgentNoCompaction(w)
  BY <1>s, RunsAssumption DEF OneAgentNoCompaction
<1>m. MarkedSlots(w) /\ RunsAsBegun(w)
  BY <1>o, MarkedIsBoth DEF ConfigInv
<1>. DEFINE Goal == MarkedSlots(w)' /\ RunsAsBegun(w)'
<1>k. \A s, t \in Slot : runCwd'[s] = w /\ runCwd'[t] = w => agentKind[s] = agentKind[t]
  BY <1>s DEF OneAgentNoCompaction
<1>1. ASSUME NEW u \in Workspace, NEW s \in Slot, BeginCompact(u, s) PROVE Goal
  <2>1. s \in CompactTask /\ UNCHANGED <<activeRuns, configVersion, begunConfig>>
    BY <1>1 DEF BeginCompact
  <2>2. agentKind[s] \in Kind
    BY <1>t DEF RunType
  <2>3. CASE UNCHANGED <<runCwd, runRunner, cacheVars>> /\ stage' = [stage EXCEPT ![s] = "over"]
    <3>1. RunsOfStay(w)
      BY <1>t, <2>1, <2>3 DEF RunsOfStay, Underway, RunType
    <3>2. RunsAsBegun(w)'
      BY <1>m, <1>t, <2>3, <3>1, RunsFrame DEF RunsOfStay, cacheVars
    <3>3. MarkedSlots(w)'
      BY <1>m, <1>s, <2>1, <2>3, SlotsFrame DEF cacheVars
    <3>. QED BY <3>2, <3>3
  <2>4. ASSUME NEW v \in Workspace, NEW r \in Instance, GetRunner(v, agentKind[s], r),
               \/ /\ activeRuns[v] # NoSlot
                  /\ stage' = [stage EXCEPT ![s] = "over"]
                  /\ UNCHANGED <<runCwd, runRunner>>
               \/ /\ stage' = [stage EXCEPT ![s] = "announcing"]
                  /\ runCwd' = [runCwd EXCEPT ![s] = v]
                  /\ runRunner' = [runRunner EXCEPT ![s] = r]
        PROVE  Goal
    <3>1. \A t \in Slot : t # s => /\ stage'[t] = stage[t]
                                    /\ runCwd'[t] = runCwd[t]
                                    /\ runRunner'[t] = runRunner[t]
      BY <1>t, <2>4 DEF RunType
    <3>2. v = w => \E t \in Slot : runCwd'[t] = w
      <4>1. CASE activeRuns[v] # NoSlot /\ UNCHANGED runCwd
        BY <1>t, <4>1 DEF LaneRuns, RunType
      <4>2. CASE runCwd' = [runCwd EXCEPT ![s] = v]
        BY <1>t, <4>2 DEF RunType
      <4>. QED BY <2>4, <4>1, <4>2
    <3>3. RunsOfStay(w)
      BY <2>1, <3>1 DEF RunsOfStay, Underway
    <3>4. \A x \in Instance : x <= runnerCount => runnerConfig'[x] = runnerConfig[x]
      BY <1>t, <2>2, <2>4, GetRunnerEffect
    <3>5. RunsAsBegun(w)'
      BY <1>m, <1>t, <3>3, <3>4, RunsFrame DEF RunsOfStay
    <3>6. MarkedSlots(w)'
      BY <1>k, <1>m, <1>s, <1>t, <2>1, <2>2, <2>4, <3>2, SlotsAfterGet
    <3>. QED BY <3>5, <3>6
  <2>. QED BY <1>1, <2>3, <2>4 DEF BeginCompact, CompactCwd
<1>2. ASSUME NEW s \in Slot, FallbackCard(s) PROVE Goal
  <2>1. /\ stage[s] = "ended" /\ stage' = [stage EXCEPT ![s] = "fallback"]
        /\ UNCHANGED <<runCwd, runRunner, activeRuns, configVersion, begunConfig>>
    BY <1>2 DEF FallbackCard, ghostVars
  <2>2. runCwd[s] \in Workspace /\ agentKind[s] \in Kind
    BY <1>t, <2>1 DEF LaneRuns, Underway, RunType
  <2>3. PICK r \in Instance : GetRunner(runCwd[s], agentKind[s], r)
    BY <1>2 DEF FallbackCard
  <2>4. RunsOfStay(w)
    BY <1>t, <2>1 DEF RunsOfStay, Underway, RunType
  <2>5. \A x \in Instance : x <= runnerCount => runnerConfig'[x] = runnerConfig[x]
    BY <1>t, <2>2, <2>3, GetRunnerEffect
  <2>6. RunsAsBegun(w)'
    BY <1>m, <1>t, <2>4, <2>5, RunsFrame DEF RunsOfStay
  <2>7. runCwd[s] = w => \E t \in Slot : runCwd'[t] = w
    BY <2>1
  <2>8. MarkedSlots(w)'
    BY <1>k, <1>m, <1>s, <1>t, <2>1, <2>2, <2>3, <2>7, SlotsAfterGet
  <2>. QED BY <2>6, <2>8
<1>3. ASSUME NEW s \in Slot, StartCompact(s) PROVE Goal
  <2>1. /\ stage[s] = "announcing" /\ Register(runCwd[s], s, runRunner[s])
        /\ UNCHANGED <<cacheVars, configVersion>>
    BY <1>3 DEF StartCompact
  <2>2. s \in CompactTask /\ s # NoSlot
    BY <1>t, <2>1 DEF LaneRuns, Slot
  <2>3. \A t \in Slot : t # s => /\ stage'[t] = stage[t]
                                 /\ runCwd'[t] = runCwd[t]
                                 /\ runRunner'[t] = runRunner[t]
                                 /\ begunConfig'[t] = begunConfig[t]
    BY <1>t, <2>1 DEF Register, RunType
  <2>4. activeRuns[w] # NoSlot => activeRuns'[w] # NoSlot
    BY <1>t, <2>1, <2>2 DEF Register, RunType
  <2>5. RunsOfStay(w)
    BY <2>2, <2>3 DEF RunsOfStay, Underway
  <2>6. RunsAsBegun(w)'
    BY <1>m, <1>t, <2>1, <2>5, RunsFrame DEF RunsOfStay, cacheVars
  <2>7. runCwd' = runCwd
    BY <1>t, <2>1 DEF Register, RunType
  <2>8. MarkedSlots(w)'
    BY <1>m, <1>s, <2>1, <2>4, <2>7, SlotsFrame DEF cacheVars
  <2>. QED BY <2>6, <2>8
<1>4. ASSUME NEW s \in Slot, StreamEnds(s) \/ EndCompact(s) PROVE Goal
  <2>1. /\ stage[s] \in {"running", "ended"}
        /\ \E st \in {"ended", "over"} : stage' = [stage EXCEPT ![s] = st]
        /\ UNCHANGED <<runCwd, runRunner, cacheVars, configVersion, begunConfig>>
    BY <1>4 DEF StreamEnds, EndCompact, ghostVars
  <2>2. RunsOfStay(w)
    BY <1>t, <2>1 DEF RunsOfStay, Underway, RunType
  <2>3. activeRuns[w] # NoSlot => activeRuns'[w] # NoSlot
    <3>1. CASE EndCompact(s)
      <4>1. runCwd[s] # w
        BY <1>o, <3>1 DEF EndCompact, OneAgentNoCompaction
      <4>. QED BY <1>t, <3>1, <4>1 DEF EndCompact, RunType
    <3>. QED BY <1>4, <3>1 DEF StreamEnds
  <2>4. RunsAsBegun(w)'
    BY <1>m, <1>t, <2>1, <2>2, RunsFrame DEF RunsOfStay, cacheVars
  <2>5. MarkedSlots(w)'
    BY <1>m, <1>s, <1>t, <2>1, <2>3, SlotsFrame DEF cacheVars
  <2>. QED BY <2>4, <2>5
<1>5. ASSUME NEW i \in windows, InterruptEnds(i) PROVE Goal
  <2>. DEFINE D == {<<i.cwd, agentKind[i.run]>>}
  <2>1. /\ EvictRunnerSlots(D)
        /\ UNCHANGED <<stage, runCwd, runRunner, configVersion, begunConfig>>
    BY <1>5 DEF InterruptEnds, ghostVars
  <2>2. i.cwd \in Workspace /\ i.run \in Slot /\ agentKind[i.run] \in Kind
    BY <1>t DEF RunType, Window
  <2>3. D \in SUBSET (Workspace \X Kind)
    BY <2>2
  <2>4. \/ activeRuns[w] # NoSlot => activeRuns'[w] # NoSlot
        \/ \A t \in Slot : runCwd[t] = w => <<w, agentKind[t]>> \in D
    <3>1. CASE i.cwd = w
      <4>1. runCwd[i.run] = w
        BY <3>1 DEF WindowRuns
      <4>. QED BY <1>o, <2>2, <3>1, <4>1 DEF OneAgentNoCompaction
    <3>2. CASE i.cwd # w
      BY <1>5, <1>t, <2>2, <3>2 DEF InterruptEnds, RunType
    <3>. QED BY <3>1, <3>2
  <2>5. RunsOfStay(w) /\ runnerConfig' = runnerConfig
    BY <2>1 DEF RunsOfStay, Underway, EvictRunnerSlots
  <2>6. RunsAsBegun(w)'
    BY <1>m, <1>t, <2>5, RunsFrame DEF RunsOfStay
  <2>. HIDE DEF D
  <2>7. MarkedSlots(w)'
    BY <1>m, <1>s, <1>t, <2>1, <2>3, <2>4, SlotsAfterEvict
  <2>. QED BY <2>6, <2>7
<1>6. CASE UNCHANGED bridgeVars \/ \E v \in Workspace : InterruptBegins(v)
  <2>1. UNCHANGED <<stage, runCwd, runRunner, activeRuns, cacheVars, configVersion,
                    begunConfig>>
    BY <1>6 DEF InterruptBegins, bridgeVars, runVars, ghostVars
  <2>2. RunsOfStay(w)
    BY <2>1 DEF RunsOfStay, Underway
  <2>3. RunsAsBegun(w)'
    BY <1>m, <1>t, <2>1, <2>2, RunsFrame DEF RunsOfStay, cacheVars
  <2>4. MarkedSlots(w)'
    BY <1>m, <1>s, <1>t, <2>1, SlotsFrame DEF cacheVars
  <2>. QED BY <2>3, <2>4
<1>7. ASSUME NEW s \in Slot, FinalizeRun(s) PROVE Goal
  BY <1>7, <1>m, <1>o, FinalizeMarks DEF FinalizeRun
<1>8. CASE ClearRunners
  BY <1>8, <1>m, ClearMarks
<1>9. ASSUME NEW v \in Workspace, NEW s \in Slot, ForwardToClaude(v, s) PROVE Goal
  BY <1>9, <1>m, ForwardMarks
<1>. QED
  BY <1>1, <1>2, <1>3, <1>4, <1>5, <1>6, <1>7, <1>8, <1>9 DEF BridgeNext, vars

-----------------------------------------------------------------------------
(* The theorems                                                            *)

LEMMA BridgeInvariant == BridgeSpec => []BridgeInv
<1>1. BridgeInv /\ [BridgeNext]_vars => BridgeInv'
  <2>. SUFFICES ASSUME BridgeInv, [BridgeNext]_vars PROVE BridgeInv'
    OBVIOUS
  <2>1. CacheFacts /\ WindowRuns /\ ConfigInv /\ CountInv /\ RunInv
    BY DEF BridgeInv, CacheFacts
  <2>. QED BY <2>1, RunInvNext, CacheNext, WindowRunsNext, ConfigNext DEF BridgeInv
<1>. QED BY <1>1, BridgeInvInit, PTL DEF BridgeSpec

\* A message that reaches the head of its lane is never answered "busy" and thrown
\* away, and no two runs are live in one workspace, whatever is stopped or
\* reconfigured in between, but for compactions whose user has changed directory.
THEOREM LaneServesOneRun == BridgeSpec => []OneLiveRunPerWorkspace
<1>1. BridgeInv => OneLiveRunPerWorkspace
  BY DEF BridgeInv, RunInv, LaneRuns, OneLiveRunPerWorkspace, IsLive, Underway
<1>. QED BY <1>1, BridgeInvariant, PTL

\* The runner of a live message run stays in the cache and in the exit dispatcher,
\* through configuration changes, evictions for room and the end of other runs,
\* unless the run has overtaken an interrupt of its workspace, was itself stopped, or
\* lost its entry to a compaction whose user has changed directory.
THEOREM LiveRunKeepsItsRunner == BridgeSpec => []LiveRunnerIsKept
BY BridgeInvariant, PTL DEF BridgeInv

\* Where one agent runs and nothing is compacted, a message that begins after a
\* configuration change runs on a runner made after it.
THEOREM RunsUseTheConfigTheyBeganWith == BridgeSpec => []RunsOnCurrentConfig
<1>1. BridgeInv => RunsOnCurrentConfig
  <2>. SUFFICES ASSUME BridgeInv, NEW w \in Workspace, OneAgentNoCompaction(w),
                       NEW s \in Slot, IsLive(s), runCwd[s] = w
                PROVE  runnerConfig[runRunner[s]] = begunConfig[s]
    BY DEF RunsOnCurrentConfig
  <2>1. MarkedInstances(w)
    BY DEF BridgeInv, ConfigInv
  <2>2. s \notin CompactTask
    BY DEF OneAgentNoCompaction
  <2>. QED BY <2>1, <2>2 DEF MarkedInstances, IsLive, Underway
<1>. QED BY <1>1, BridgeInvariant, PTL
=============================================================================
