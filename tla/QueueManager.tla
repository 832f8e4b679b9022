---------------------------- MODULE QueueManager ----------------------------
(***************************************************************************)
(* The per-workspace serial queue of the bridge (bridge/queue-manager.ts). *)
(*                                                                         *)
(* Each workspace owns a promise chain.  enqueue() appends a link to it    *)
(* and records the task in a list and in an index by message id; when the  *)
(* chain reaches the link, the link either runs the task or, if the task   *)
(* has left the index in the meantime, skips it; one microtask later the   *)
(* link settles.  Between any two of these steps the event loop may run a  *)
(* card callback that cancels or edits a queued task, or the continuation  *)
(* of an interrupt that resets the executing count.                        *)
(*                                                                         *)
(* A task is named by its slot, the number slotCounter gives it.  Slots    *)
(* are minted in the order of the calls and both the chain and the list    *)
(* only grow at their ends, so each is the set of its slots and its order  *)
(* is the order of the numbers.                                            *)
(***************************************************************************)
EXTENDS Integers, FiniteSets

CONSTANTS
    Workspace,       \* the working directories, one serial lane each
    Message,         \* message ids: the keys tasks are queued under
    RepeatedKey,     \* keys that one card can enqueue any number of times
    MaxWaitingQueue, \* MAX_WAITING_QUEUE, the bound on the backlog of a lane
    MaxSlot,         \* bound: tasks submitted in one behaviour
    MaxEdit          \* bound: edits of one queued task

NoMessage == "none"      \* the key of a slot that is not minted yet

ASSUME QueueAssumption ==
    /\ RepeatedKey \subseteq Message
    /\ NoMessage \notin Message
    /\ MaxWaitingQueue \in Nat \ {0}
    /\ MaxSlot \in Nat
    /\ MaxEdit \in Nat

Slot == 1 .. MaxSlot
NoSlot == 0              \* undefined, in the maps that hold a slot or a task
Version == 0 .. MaxEdit  \* 0 is the text the task was enqueued with
NotRun == -1

VARIABLES
    slotCounter,      \* slots minted so far
    taskMsg,          \* [Slot -> Message]: messageId of each task
    chain,            \* [Workspace -> SUBSET Slot]: links that have not settled
    phase,            \* progress of the first link of each chain
    queuedTasks,      \* [Workspace -> SUBSET Slot]: the list shown on cards
    taskIndex,        \* [Workspace -> [Message -> Slot or NoSlot]]
    edited,           \* [Slot -> Version]: editedMessage of each task
    taskReplacements, \* [Workspace -> [Message -> Version]], 0 is no closure
    pendingOrExecutingCount,
    executingSlot,    \* [Workspace -> Slot or NoSlot]
    interruptedSlots, \* [Workspace -> SUBSET Slot]
    beganMessageIds,
    \* History variables: no step of the code depends on them.
    executed,         \* [Slot -> the version of its text it ran, or NotRun]
    removed,          \* slots that removeFromQueue reported as removed
    stopped           \* slots that an interrupt asked to reset

taskVars == <<slotCounter, taskMsg>>
chainVars == <<chain, phase, executed, beganMessageIds>>
listVars == <<queuedTasks, taskIndex, removed>>
editVars == <<edited, taskReplacements>>
countVars == <<pendingOrExecutingCount, executingSlot, interruptedSlots, stopped>>
queueVars == <<taskVars, chainVars, listVars, editVars, countVars>>

QueueInit ==
    /\ slotCounter = 0
    /\ taskMsg = [s \in Slot |-> NoMessage]
    /\ chain = [w \in Workspace |-> {}]
    /\ phase = [w \in Workspace |-> "ready"]
    /\ queuedTasks = [w \in Workspace |-> {}]
    /\ taskIndex = [w \in Workspace |-> [m \in Message |-> NoSlot]]
    /\ edited = [s \in Slot |-> 0]
    /\ taskReplacements = [w \in Workspace |-> [m \in Message |-> 0]]
    /\ pendingOrExecutingCount = [w \in Workspace |-> 0]
    /\ executingSlot = [w \in Workspace |-> NoSlot]
    /\ interruptedSlots = [w \in Workspace |-> {}]
    /\ beganMessageIds = {}
    /\ executed = [s \in Slot |-> NotRun]
    /\ removed = {}
    /\ stopped = {}

-----------------------------------------------------------------------------
(* enqueue                                                                 *)

\* The workspace looks busy: the new task gets a queue status card.
HasWaitingTasks(w) == pendingOrExecutingCount[w] > 0 \/ queuedTasks[w] # {}

\* A hand-typed message and an order.exec click carry a fresh key; the card
\* actions that go through the queue carry the id of the card they sit on.
KeyAvailable(m) == m \in RepeatedKey \/ \A s \in Slot : taskMsg[s] # m

\* Mutant of QueueFull: off by one.
QueueOverfull(w) == Cardinality(queuedTasks[w]) > MaxWaitingQueue

QueueFull(w) == Cardinality(queuedTasks[w]) >= MaxWaitingQueue

MintSlot(m) ==
    /\ slotCounter < MaxSlot
    /\ slotCounter' = slotCounter + 1
    /\ taskMsg' = [taskMsg EXCEPT ![slotCounter + 1] = m]

Enqueue(w, m) ==
    /\ KeyAvailable(m)
    /\ MintSlot(m)
    /\ ~QueueFull(w)
    /\ queuedTasks' = [queuedTasks EXCEPT ![w] = @ \cup {slotCounter + 1}]
    /\ taskIndex' = [taskIndex EXCEPT ![w][m] = slotCounter + 1]
    /\ pendingOrExecutingCount' = [pendingOrExecutingCount EXCEPT ![w] = @ + 1]
    /\ chain' = [chain EXCEPT ![w] = @ \cup {slotCounter + 1}]
    /\ UNCHANGED <<phase, executed, beganMessageIds, removed, editVars,
                   executingSlot, interruptedSlots, stopped>>

\* The backlog is full: the task is refused with a card and never runs.
EnqueueRejected(w, m) ==
    /\ KeyAvailable(m)
    /\ MintSlot(m)
    /\ QueueFull(w)
    /\ UNCHANGED <<chainVars, listVars, editVars, countVars>>

-----------------------------------------------------------------------------
(* The link of a task: begin, or skip, and then settle                     *)

IsHead(w, s) == s \in chain[w] /\ \A t \in chain[w] : s <= t

\* findIndex: the first entry of the list with this message id.
IsFirstEntry(w, m, s) ==
    /\ s \in queuedTasks[w] /\ taskMsg[s] = m
    /\ \A t \in queuedTasks[w] : taskMsg[t] = m => s <= t

\* Mutant of DropEntry: a task leaves the list and stays in the index.
DropListOnly(w, m) ==
    /\ queuedTasks' =
         [queuedTasks EXCEPT ![w] = {t \in @ : ~IsFirstEntry(w, m, t)}]
    /\ UNCHANGED taskIndex

\* Splices the first entry of m out of the list and m out of the index.
DropEntry(w, m) ==
    /\ taskIndex' = [taskIndex EXCEPT ![w][m] = NoSlot]
    /\ queuedTasks' =
         [queuedTasks EXCEPT ![w] = {t \in @ : ~IsFirstEntry(w, m, t)}]

BeginTask(w, s) ==
    LET m == taskMsg[s] IN
    /\ IsHead(w, s)
    /\ phase[w] = "ready"
    /\ taskIndex[w][m] # NoSlot
    /\ DropEntry(w, m)
    /\ beganMessageIds' = beganMessageIds \cup {m}
    /\ executed' = [executed EXCEPT ![s] = taskReplacements[w][m]]
    /\ taskReplacements' = [taskReplacements EXCEPT ![w][m] = 0]
    /\ pendingOrExecutingCount' =
         [pendingOrExecutingCount EXCEPT ![w] = IF @ < 1 THEN 1 ELSE @]
    /\ executingSlot' = [executingSlot EXCEPT ![w] = s]
    /\ phase' = [phase EXCEPT ![w] = "running"]
    /\ UNCHANGED <<taskVars, chain, edited, removed, interruptedSlots, stopped>>

\* The task has left the index: it was cancelled, so its body is not called.
SkipTask(w, s) ==
    /\ IsHead(w, s)
    /\ phase[w] = "ready"
    /\ taskIndex[w][taskMsg[s]] = NoSlot
    /\ phase' = [phase EXCEPT ![w] = "skipped"]
    /\ UNCHANGED <<taskVars, chain, executed, beganMessageIds, listVars,
                   editVars, countVars>>

\* decrementExecutingCount: the decrement of an interrupted slot is skipped.
DecrementExecutingCount(w, s) ==
    /\ executingSlot' =
         [executingSlot EXCEPT ![w] = IF @ = s THEN NoSlot ELSE @]
    /\ interruptedSlots' = [interruptedSlots EXCEPT ![w] = @ \ {s}]
    /\ pendingOrExecutingCount' =
         [pendingOrExecutingCount EXCEPT
            ![w] = IF s \in interruptedSlots[w] \/ @ = 0 THEN @ ELSE @ - 1]
    /\ UNCHANGED stopped

\* Mutant of Settle: a skipped link never settles.
SettleAfterRun(w, s) ==
    /\ IsHead(w, s)
    /\ phase[w] = "running"
    /\ DecrementExecutingCount(w, s)
    /\ chain' = [chain EXCEPT ![w] = @ \ {s}]
    /\ phase' = [phase EXCEPT ![w] = "ready"]
    /\ UNCHANGED <<taskVars, executed, beganMessageIds, listVars, editVars>>

\* The task body has returned or thrown, or the link was skipped.
Settle(w, s) ==
    /\ IsHead(w, s)
    /\ phase[w] \in {"running", "skipped"}
    /\ DecrementExecutingCount(w, s)
    /\ chain' = [chain EXCEPT ![w] = @ \ {s}]
    /\ phase' = [phase EXCEPT ![w] = "ready"]
    /\ UNCHANGED <<taskVars, executed, beganMessageIds, listVars, editVars>>

-----------------------------------------------------------------------------
(* What card callbacks and interrupts do to the queue                      *)

\* removeFromQueue: the closure of the task goes with it.
RemoveFromQueue(w, m) ==
    /\ taskIndex[w][m] # NoSlot
    /\ removed' = removed \cup {taskIndex[w][m]}
    /\ DropEntry(w, m)
    /\ taskReplacements' = [taskReplacements EXCEPT ![w][m] = 0]
    /\ UNCHANGED <<taskVars, chainVars, edited, countVars>>

\* Mutant of EditQueuedTask: only the first edit registers a closure.
EditRegistersOnce(w, m) ==
    LET s == taskIndex[w][m] IN
    /\ s # NoSlot
    /\ edited[s] < MaxEdit
    /\ taskReplacements' =
         [taskReplacements EXCEPT ![w][m] = IF @ = 0 THEN edited[s] + 1 ELSE @]
    /\ edited' = [edited EXCEPT ![s] = @ + 1]
    /\ UNCHANGED <<taskVars, chainVars, listVars, countVars>>

\* queue.input: register the closure with the new text, then update the task;
\* nothing is awaited in between.
EditQueuedTask(w, m) ==
    LET s == taskIndex[w][m] IN
    /\ s # NoSlot
    /\ edited[s] < MaxEdit
    /\ taskReplacements' = [taskReplacements EXCEPT ![w][m] = edited[s] + 1]
    /\ edited' = [edited EXCEPT ![s] = @ + 1]
    /\ UNCHANGED <<taskVars, chainVars, listVars, countVars>>

\* Mutant of ResetExecutingCount: resets whatever runs by now.
ResetWhateverRuns(w, expectedSlot) ==
    /\ stopped' = stopped \cup {expectedSlot}
    /\ IF executingSlot[w] # NoSlot /\ pendingOrExecutingCount[w] # 0
       THEN /\ pendingOrExecutingCount' = [pendingOrExecutingCount EXCEPT ![w] = 0]
            /\ interruptedSlots' =
                 [interruptedSlots EXCEPT ![w] = @ \cup {executingSlot[w]}]
       ELSE UNCHANGED <<pendingOrExecutingCount, interruptedSlots>>
    /\ UNCHANGED <<taskVars, chainVars, listVars, editVars, executingSlot>>

\* resetExecutingCount: expectedSlot was read from executingSlot before the
\* runner was stopped, so it is a slot that has begun, perhaps long ago.
ResetExecutingCount(w, expectedSlot) ==
    /\ stopped' = stopped \cup {expectedSlot}
    /\ IF executingSlot[w] = expectedSlot /\ pendingOrExecutingCount[w] # 0
       THEN /\ pendingOrExecutingCount' = [pendingOrExecutingCount EXCEPT ![w] = 0]
            /\ interruptedSlots' =
                 [interruptedSlots EXCEPT ![w] = @ \cup {executingSlot[w]}]
       ELSE UNCHANGED <<pendingOrExecutingCount, interruptedSlots>>
    /\ UNCHANGED <<taskVars, chainVars, listVars, editVars, executingSlot>>

HasBegun(s) == executed[s] # NotRun

-----------------------------------------------------------------------------
QueueNext ==
    \E w \in Workspace :
       \/ \E m \in Message :
            \/ Enqueue(w, m)
            \/ EnqueueRejected(w, m)
            \/ RemoveFromQueue(w, m)
            \/ EditQueuedTask(w, m)
       \/ \E s \in Slot :
            \/ BeginTask(w, s)
            \/ SkipTask(w, s)
            \/ Settle(w, s)
            \/ HasBegun(s) /\ ResetExecutingCount(w, s)

QueueSpec == QueueInit /\ [][QueueNext]_queueVars

\* The event loop drains the promise chains, and every run ends: the idle
\* watchdog stops a silent agent and an interrupt kills its process.
QueueFairness ==
    \A w \in Workspace :
       WF_queueVars(\E s \in Slot : BeginTask(w, s) \/ SkipTask(w, s) \/ Settle(w, s))

FairQueueSpec == QueueSpec /\ QueueFairness

-----------------------------------------------------------------------------
(* Properties                                                              *)

\* The values every variable may take.
TypeOK ==
    /\ slotCounter \in 0 .. MaxSlot
    /\ taskMsg \in [Slot -> Message \cup {NoMessage}]
    /\ chain \in [Workspace -> SUBSET Slot]
    /\ phase \in [Workspace -> {"ready", "running", "skipped"}]
    /\ queuedTasks \in [Workspace -> SUBSET Slot]
    /\ taskIndex \in [Workspace -> [Message -> Slot \cup {NoSlot}]]
    /\ edited \in [Slot -> Version]
    /\ taskReplacements \in [Workspace -> [Message -> Version]]
    /\ pendingOrExecutingCount \in [Workspace -> Nat]
    /\ executingSlot \in [Workspace -> Slot \cup {NoSlot}]
    /\ interruptedSlots \in [Workspace -> SUBSET Slot]
    /\ beganMessageIds \subseteq Message
    /\ executed \in [Slot -> Version \cup {NotRun}]
    /\ removed \subseteq Slot
    /\ stopped \subseteq Slot

\* A task that runs and that nobody asked to stop is counted: the next message
\* to its workspace gets a queue status card.  The reset of an interrupt whose
\* stop window outlived the interrupted task must not hide its successor.
VisibleWhileExecuting ==
    \A w \in Workspace : \A s \in Slot :
       IsHead(w, s) /\ phase[w] = "running" /\ s \notin stopped
          => pendingOrExecutingCount[w] >= 1

\* A lane whose chain has drained has nothing left in its bookkeeping: no
\* leaked count makes the next message look queued, and no leftover credit
\* makes a later settle skip its decrement.
IdleLaneIsClean ==
    \A w \in Workspace : chain[w] = {} =>
       /\ pendingOrExecutingCount[w] = 0
       /\ executingSlot[w] = NoSlot
       /\ interruptedSlots[w] = {}

\* The index and the list hold the same tasks (queue-manager.ts:105-113).
IndexMirrorsList ==
    \A w \in Workspace :
       /\ \A m \in Message : taskIndex[w][m] # NoSlot =>
             taskIndex[w][m] \in queuedTasks[w] /\ taskMsg[taskIndex[w][m]] = m
       /\ \A s \in queuedTasks[w] : taskIndex[w][taskMsg[s]] = s

\* A task whose cancel button answered "removed" never runs, and a task whose
\* body was not called is one that a cancel removed.
CancelledNeverRuns ==
    /\ \A s \in removed : ~HasBegun(s)
    /\ \A w \in Workspace : \A s \in Slot :
          IsHead(w, s) /\ phase[w] = "skipped" => s \in removed

\* A task runs the text of the last edit that was accepted for it.
LatestEditRuns == \A s \in Slot : HasBegun(s) => executed[s] = edited[s]

\* A replacement closure belongs to a task that still waits: none is left to
\* replace the body of a later task, or to be kept alive for ever.
NoDeadClosure ==
    \A w \in Workspace : \A m \in Message :
       taskReplacements[w][m] # 0 => taskIndex[w][m] # NoSlot

Lane == INSTANCE SerialQueue WITH
            MaxWaiting <- MaxWaitingQueue, NoTask <- NoSlot,
            submitted <- slotCounter, waiting <- queuedTasks,
            running <- executingSlot

\* Tasks run one at a time, in the order they came, and a full lane refuses.
ImplementsSerialQueue == Lane!Spec

\* A lane always moves on: a task that runs ends, and the first of the tasks
\* that wait starts, skipped links and interrupts notwithstanding.
LanesMoveOn == Lane!Fairness
=============================================================================
