------------------------- MODULE QueueManagerProofs -------------------------
(***************************************************************************)
(* Proofs about QueueManager, for every set of workspaces and messages and *)
(* every bound.  The first half makes no assumption on the keys: types,    *)
(* and the executing count.  The second half assumes that no key is        *)
(* enqueued twice (RepeatedKey = {}), without which they do not hold: the  *)
(* index, cancellation, edits, and the refinement of SerialQueue.          *)
(***************************************************************************)
EXTENDS QueueManager, FiniteSetTheorems, TLAPS

USE QueueAssumption DEF NoSlot, NotRun

-----------------------------------------------------------------------------
(* The inductive invariant of the executing count                          *)

\* Every link and every entry is a slot that was minted, with its key.
Minted ==
    /\ \A s \in Slot : s <= slotCounter => taskMsg[s] \in Message
    /\ \A w \in Workspace : \A s \in chain[w] : s <= slotCounter

\* executingSlot is the head of the chain exactly while its body runs; only the
\* task that runs can hold the credit of an interrupt; the count never exceeds
\* the links that will still decrement it; and it shows the task that runs.
LaneCount(w) ==
    /\ phase[w] # "ready" => chain[w] # {}
    /\ phase[w] = "running" => executingSlot[w] # NoSlot /\ IsHead(w, executingSlot[w])
    /\ phase[w] # "running" => executingSlot[w] = NoSlot
    /\ \A s \in interruptedSlots[w] : s = executingSlot[w]
    /\ pendingOrExecutingCount[w] <= Cardinality(chain[w] \ interruptedSlots[w])
    /\ phase[w] = "running" /\ executingSlot[w] \notin stopped
          => pendingOrExecutingCount[w] >= 1

CountInv == TypeOK /\ Minted /\ \A w \in Workspace : LaneCount(w)

LEMMA SlotFinite == \A S \in SUBSET Slot : IsFiniteSet(S) /\ Cardinality(S) \in Nat
<1>1. IsFiniteSet(Slot)
  BY FS_Interval DEF Slot
<1>. QED BY <1>1, FS_Subset, FS_CardinalityType

LEMMA CountInvInit == QueueInit => CountInv
<1>. SUFFICES ASSUME QueueInit PROVE CountInv
  OBVIOUS
<1>1. TypeOK
  BY DEF QueueInit, TypeOK, Slot, Version
<1>2. Minted
  BY DEF QueueInit, Minted, Slot
<1>3. \A w \in Workspace : LaneCount(w)
  BY FS_EmptySet DEF QueueInit, LaneCount
<1>. QED BY <1>1, <1>2, <1>3 DEF CountInv

-----------------------------------------------------------------------------
(* Types                                                                   *)

LEMMA TypeNext == CountInv /\ [QueueNext]_queueVars => TypeOK' /\ Minted'
<1>. SUFFICES ASSUME CountInv, [QueueNext]_queueVars PROVE TypeOK' /\ Minted'
  OBVIOUS
<1>. USE DEF CountInv
<1>1. ASSUME NEW w \in Workspace, NEW m \in Message, Enqueue(w, m)
      PROVE  TypeOK' /\ Minted'
  BY <1>1 DEF TypeOK, Minted, Enqueue, MintSlot, editVars, Slot
<1>2. ASSUME NEW w \in Workspace, NEW m \in Message, EnqueueRejected(w, m)
      PROVE  TypeOK' /\ Minted'
  BY <1>2 DEF TypeOK, Minted, EnqueueRejected, MintSlot, chainVars, listVars,
              editVars, countVars, Slot
<1>3. ASSUME NEW w \in Workspace, NEW m \in Message, RemoveFromQueue(w, m)
      PROVE  TypeOK' /\ Minted'
  BY <1>3 DEF TypeOK, Minted, RemoveFromQueue, DropEntry, taskVars, chainVars,
              countVars, Version
<1>4. ASSUME NEW w \in Workspace, NEW m \in Message, EditQueuedTask(w, m)
      PROVE  TypeOK' /\ Minted'
  BY <1>4 DEF TypeOK, Minted, EditQueuedTask, taskVars, chainVars, listVars,
              countVars, Version
<1>5. ASSUME NEW w \in Workspace, NEW s \in Slot, BeginTask(w, s)
      PROVE  TypeOK' /\ Minted'
  <2>1. taskMsg[s] \in Message
    BY <1>5 DEF Minted, BeginTask, IsHead
  <2>. QED
    BY <1>5, <2>1 DEF TypeOK, Minted, BeginTask, DropEntry, taskVars, Version
<1>6. ASSUME NEW w \in Workspace, NEW s \in Slot, SkipTask(w, s)
      PROVE  TypeOK' /\ Minted'
  BY <1>6 DEF TypeOK, Minted, SkipTask, taskVars, listVars, editVars, countVars
<1>7. ASSUME NEW w \in Workspace, NEW s \in Slot, Settle(w, s)
      PROVE  TypeOK' /\ Minted'
  BY <1>7 DEF TypeOK, Minted, Settle, DecrementExecutingCount, taskVars,
              listVars, editVars
<1>8. ASSUME NEW w \in Workspace, NEW s \in Slot, ResetExecutingCount(w, s)
      PROVE  TypeOK' /\ Minted'
  <2>1. CASE executingSlot[w] = s /\ pendingOrExecutingCount[w] # 0
    <3>1. /\ pendingOrExecutingCount' = [pendingOrExecutingCount EXCEPT ![w] = 0]
          /\ interruptedSlots' = [interruptedSlots EXCEPT ![w] = @ \cup {s}]
      BY <1>8, <2>1 DEF ResetExecutingCount
    <3>. QED
      BY <1>8, <2>1, <3>1 DEF TypeOK, Minted, ResetExecutingCount, taskVars,
                              chainVars, listVars, editVars
  <2>2. CASE ~(executingSlot[w] = s /\ pendingOrExecutingCount[w] # 0)
    <3>1. UNCHANGED <<pendingOrExecutingCount, interruptedSlots>>
      BY <1>8, <2>2 DEF ResetExecutingCount
    <3>. QED
      BY <1>8, <3>1 DEF TypeOK, Minted, ResetExecutingCount, taskVars,
                        chainVars, listVars, editVars
  <2>. QED BY <2>1, <2>2
<1>9. ASSUME UNCHANGED queueVars
      PROVE  TypeOK' /\ Minted'
  BY <1>9 DEF TypeOK, Minted, queueVars, taskVars, chainVars, listVars,
              editVars, countVars
<1>. QED
  BY <1>1, <1>2, <1>3, <1>4, <1>5, <1>6, <1>7, <1>8, <1>9 DEF QueueNext

-----------------------------------------------------------------------------
(* The executing count                                                     *)

\* A lane that a step leaves alone keeps its part of the invariant.
LEMMA CountFrame ==
    ASSUME NEW v \in Workspace, LaneCount(v),
           chain'[v] = chain[v], phase'[v] = phase[v],
           executingSlot'[v] = executingSlot[v],
           interruptedSlots'[v] = interruptedSlots[v],
           pendingOrExecutingCount'[v] = pendingOrExecutingCount[v],
           stopped \subseteq stopped'
    PROVE  LaneCount(v)'
BY DEF LaneCount, IsHead

LEMMA CountNext == CountInv /\ [QueueNext]_queueVars => CountInv'
<1>. SUFFICES ASSUME CountInv, [QueueNext]_queueVars PROVE CountInv'
  OBVIOUS
<1>0. TypeOK' /\ Minted'
  BY TypeNext
<1>. SUFFICES ASSUME NEW v \in Workspace PROVE LaneCount(v)'
  BY <1>0 DEF CountInv
<1>t. TypeOK /\ Minted /\ LaneCount(v)
  BY DEF CountInv
<1>1. ASSUME NEW w \in Workspace, NEW m \in Message, Enqueue(w, m)
      PROVE  LaneCount(v)'
  <2>1. CASE v # w
    BY <1>1, <1>t, <2>1, CountFrame DEF Enqueue, TypeOK
  <2>2. CASE v = w
    <3>1. /\ slotCounter + 1 \in Slot \ chain[w]
          /\ \A t \in chain[w] : t <= slotCounter + 1
      BY <1>1, <1>t DEF Enqueue, MintSlot, Minted, TypeOK, Slot
    <3>2. /\ chain'[w] = chain[w] \cup {slotCounter + 1}
          /\ pendingOrExecutingCount'[w] = pendingOrExecutingCount[w] + 1
      BY <1>1, <1>t DEF Enqueue, TypeOK
    <3>3. /\ interruptedSlots' = interruptedSlots
          /\ executingSlot' = executingSlot
          /\ phase' = phase
          /\ stopped' = stopped
      BY <1>1 DEF Enqueue
    <3>4. slotCounter + 1 \notin interruptedSlots[w]
      BY <1>t, <2>2, <3>1 DEF LaneCount, IsHead, TypeOK, Slot
    <3>5. chain'[w] \ interruptedSlots'[w]
             = (chain[w] \ interruptedSlots[w]) \cup {slotCounter + 1}
      BY <3>2, <3>3, <3>4
    <3>6. Cardinality(chain'[w] \ interruptedSlots'[w])
             = Cardinality(chain[w] \ interruptedSlots[w]) + 1
      <4>1. chain[w] \ interruptedSlots[w] \in SUBSET Slot
        BY <1>t DEF TypeOK
      <4>. QED BY <3>1, <3>5, <4>1, SlotFinite, FS_AddElement
    <3>7. chain[w] \ interruptedSlots[w] \in SUBSET Slot
      BY <1>t DEF TypeOK
    <3>8. Cardinality(chain[w] \ interruptedSlots[w]) \in Nat
      BY <3>7, SlotFinite
    <3>9. pendingOrExecutingCount[w] \in Nat
      BY <1>t DEF TypeOK
    <3>. QED
      BY <1>t, <2>2, <3>1, <3>2, <3>3, <3>6, <3>8, <3>9 DEF LaneCount, IsHead
  <2>. QED BY <2>1, <2>2
<1>2. ASSUME NEW w \in Workspace, NEW m \in Message,
             \/ EnqueueRejected(w, m)
             \/ RemoveFromQueue(w, m)
             \/ EditQueuedTask(w, m)
      PROVE  LaneCount(v)'
  BY <1>2, <1>t, CountFrame DEF EnqueueRejected, RemoveFromQueue, EditQueuedTask,
                                chainVars, countVars
<1>3. ASSUME NEW w \in Workspace, NEW s \in Slot, BeginTask(w, s)
      PROVE  LaneCount(v)'
  <2>1. CASE v # w
    BY <1>3, <1>t, <2>1, CountFrame DEF BeginTask, TypeOK
  <2>2. CASE v = w
    <3>1. /\ chain' = chain
          /\ interruptedSlots' = interruptedSlots
          /\ executingSlot'[w] = s
          /\ phase'[w] = "running"
          /\ pendingOrExecutingCount'[w]
                = IF pendingOrExecutingCount[w] < 1 THEN 1
                  ELSE pendingOrExecutingCount[w]
      BY <1>3, <1>t DEF BeginTask, TypeOK
    <3>2. IsHead(w, s) /\ phase[w] = "ready" /\ chain[w] \subseteq Slot
      BY <1>3, <1>t DEF BeginTask, TypeOK
    <3>3. interruptedSlots[w] = {}
      BY <1>t, <2>2, <3>2 DEF LaneCount, TypeOK, Slot
    <3>4. Cardinality(chain[w]) >= 1
      <4>1. IsFiniteSet(chain[w]) /\ chain[w] # {}
        BY <3>2, SlotFinite DEF IsHead
      <4>. QED BY <4>1, FS_EmptySet, FS_CardinalityType
    <3>5. chain[w] \ interruptedSlots[w] = chain[w]
      BY <3>3
    <3>. QED
      BY <1>t, <2>2, <3>1, <3>2, <3>3, <3>4, <3>5 DEF LaneCount, IsHead, TypeOK, Slot
  <2>. QED BY <2>1, <2>2
<1>4. ASSUME NEW w \in Workspace, NEW s \in Slot, SkipTask(w, s)
      PROVE  LaneCount(v)'
  <2>1. CASE v # w
    BY <1>4, <1>t, <2>1, CountFrame DEF SkipTask, countVars, TypeOK
  <2>2. CASE v = w
    BY <1>4, <1>t, <2>2 DEF LaneCount, SkipTask, IsHead, countVars, TypeOK
  <2>. QED BY <2>1, <2>2
<1>5. ASSUME NEW w \in Workspace, NEW s \in Slot, Settle(w, s)
      PROVE  LaneCount(v)'
  <2>1. CASE v # w
    BY <1>5, <1>t, <2>1, CountFrame DEF Settle, DecrementExecutingCount, TypeOK
  <2>2. CASE v = w
    <3>1. /\ chain'[w] = chain[w] \ {s}
          /\ phase'[w] = "ready"
          /\ executingSlot'[w] = (IF executingSlot[w] = s THEN 0 ELSE executingSlot[w])
          /\ interruptedSlots'[w] = interruptedSlots[w] \ {s}
          /\ pendingOrExecutingCount'[w]
                = IF s \in interruptedSlots[w] \/ pendingOrExecutingCount[w] = 0
                  THEN pendingOrExecutingCount[w]
                  ELSE pendingOrExecutingCount[w] - 1
      BY <1>5, <1>t DEF Settle, DecrementExecutingCount, TypeOK
    <3>2. /\ IsHead(w, s)
          /\ executingSlot[w] \in {0, s}
          /\ chain[w] \subseteq Slot
      BY <1>5, <1>t, <2>2 DEF LaneCount, Settle, IsHead, TypeOK, Slot
    <3>3. executingSlot'[w] = 0 /\ interruptedSlots'[w] = {}
      BY <1>t, <2>2, <3>1, <3>2 DEF LaneCount, TypeOK, Slot
    <3>4. DEFINE owed == Cardinality(chain[w] \ interruptedSlots[w])
    <3>5. owed \in Nat /\ pendingOrExecutingCount[w] \in Nat
      BY <1>t, SlotFinite DEF TypeOK
    <3>6. Cardinality(chain'[w])
             = IF s \in interruptedSlots[w] THEN owed ELSE owed - 1
      <4>1. CASE s \in interruptedSlots[w]
        <5>1. chain'[w] = chain[w] \ interruptedSlots[w]
          BY <1>t, <2>2, <3>1, <3>2, <4>1 DEF LaneCount
        <5>. QED BY <4>1, <5>1
      <4>2. CASE s \notin interruptedSlots[w]
        <5>1. /\ chain[w] \ interruptedSlots[w] = chain[w]
              /\ s \in chain[w]
          BY <1>t, <2>2, <3>2, <4>2 DEF LaneCount, IsHead, TypeOK, Slot
        <5>2. IsFiniteSet(chain[w])
          BY <3>2, SlotFinite
        <5>3. Cardinality(chain[w] \ {s}) = Cardinality(chain[w]) - 1
          BY <5>1, <5>2, FS_RemoveElement
        <5>. QED BY <3>1, <4>2, <5>1, <5>3
      <4>. QED BY <4>1, <4>2
    <3>7. chain'[w] \ interruptedSlots'[w] = chain'[w]
      BY <3>3
    <3>8. pendingOrExecutingCount[w] <= owed
      BY <1>t, <2>2 DEF LaneCount
    <3>12. Cardinality(chain'[w]) \in Nat
      BY <1>0, SlotFinite DEF TypeOK
    <3>. HIDE DEF owed
    <3>9. pendingOrExecutingCount'[w] <= Cardinality(chain'[w] \ interruptedSlots'[w])
      <4>1. CASE s \in interruptedSlots[w]
        <5>1. /\ pendingOrExecutingCount'[w] = pendingOrExecutingCount[w]
              /\ Cardinality(chain'[w]) = owed
          BY <3>1, <3>6, <4>1
        <5>. QED BY <5>1, <3>7, <3>8
      <4>2. CASE s \notin interruptedSlots[w]
        <5>1. pendingOrExecutingCount'[w] = IF pendingOrExecutingCount[w] = 0 THEN 0
                                            ELSE pendingOrExecutingCount[w] - 1
          BY <3>1, <4>2
        <5>2. Cardinality(chain'[w]) = owed - 1
          BY <3>6, <4>2
        <5>3. pendingOrExecutingCount'[w] <= Cardinality(chain'[w])
          BY <3>5, <3>8, <3>12, <5>1, <5>2
        <5>. QED BY <3>7, <5>3
      <4>. QED BY <4>1, <4>2
    <3>10. phase'[w] = "ready"
      BY <3>1
    <3>11. LaneCount(w)'
      BY <3>3, <3>9, <3>10, Zenon DEF LaneCount
    <3>. QED BY <2>2, <3>11
  <2>. QED BY <2>1, <2>2
<1>6. ASSUME NEW w \in Workspace, NEW s \in Slot, ResetExecutingCount(w, s)
      PROVE  LaneCount(v)'
  <2>1. stopped' = stopped \cup {s} /\ chain' = chain /\ phase' = phase
        /\ executingSlot' = executingSlot
    BY <1>6 DEF ResetExecutingCount, chainVars
  <2>2. CASE v = w /\ executingSlot[w] = s /\ pendingOrExecutingCount[w] # 0
    <3>1. /\ pendingOrExecutingCount'[w] = 0
          /\ interruptedSlots'[w] = interruptedSlots[w] \cup {s}
      BY <1>6, <1>t, <2>2 DEF ResetExecutingCount, TypeOK
    <3>2. Cardinality(chain'[w] \ interruptedSlots'[w]) \in Nat
      BY <1>0, SlotFinite DEF TypeOK
    <3>. QED BY <1>t, <2>1, <2>2, <3>1, <3>2 DEF LaneCount, IsHead
  <2>3. CASE ~(v = w /\ executingSlot[w] = s /\ pendingOrExecutingCount[w] # 0)
    <3>1. /\ pendingOrExecutingCount'[v] = pendingOrExecutingCount[v]
          /\ interruptedSlots'[v] = interruptedSlots[v]
      BY <1>6, <1>t, <2>3 DEF ResetExecutingCount, TypeOK
    <3>. QED BY <1>t, <2>1, <3>1, CountFrame
  <2>. QED BY <2>2, <2>3
<1>7. ASSUME UNCHANGED queueVars
      PROVE  LaneCount(v)'
  BY <1>7, <1>t, CountFrame DEF queueVars, chainVars, countVars
<1>. QED
  BY <1>1, <1>2, <1>3, <1>4, <1>5, <1>6, <1>7 DEF QueueNext

\* The lane that executes a task has it at the head of its chain.
LEMMA ExecutingIsHead ==
    ASSUME CountInv, NEW w \in Workspace
    PROVE  /\ executingSlot[w] \in Slot \cup {NoSlot}
           /\ phase[w] # "running" => executingSlot[w] = NoSlot
           /\ executingSlot[w] # NoSlot =>
                 phase[w] = "running" /\ IsHead(w, executingSlot[w])
           /\ chain[w] \subseteq Slot
           /\ \A s \in chain[w] : s <= slotCounter
BY DEF CountInv, LaneCount, TypeOK, Minted

\* What has begun has begun for good, and what a lane executes has begun.
LEMMA BegunStays ==
    ASSUME CountInv, [QueueNext]_queueVars
    PROVE  /\ \A s \in Slot : HasBegun(s) => HasBegun(s)'
           /\ \A w \in Workspace :
                 \/ executingSlot'[w] \in {NoSlot, executingSlot[w]}
                 \/ executingSlot'[w] \in Slot /\ HasBegun(executingSlot[w])'
<1>t. TypeOK
  BY DEF CountInv
<1>1. ASSUME NEW w \in Workspace, NEW m \in Message,
             \/ Enqueue(w, m) \/ EnqueueRejected(w, m)
             \/ RemoveFromQueue(w, m) \/ EditQueuedTask(w, m)
      PROVE  executed' = executed /\ executingSlot' = executingSlot
  BY <1>1 DEF Enqueue, EnqueueRejected, RemoveFromQueue, EditQueuedTask, chainVars,
              countVars
<1>2. ASSUME NEW w \in Workspace, NEW s \in Slot, BeginTask(w, s)
      PROVE  /\ \A t \in Slot : HasBegun(t) => HasBegun(t)'
             /\ HasBegun(s)'
             /\ executingSlot' = [executingSlot EXCEPT ![w] = s]
  <2>1. taskMsg[s] \in Message
    BY <1>2 DEF CountInv, Minted, BeginTask, IsHead
  <2>2. taskReplacements[w][taskMsg[s]] \in Version
    BY <1>t, <2>1 DEF TypeOK
  <2>3. executed' = [executed EXCEPT ![s] = taskReplacements[w][taskMsg[s]]]
    BY <1>2 DEF BeginTask
  <2>4. taskReplacements[w][taskMsg[s]] # NotRun
    BY <2>2 DEF Version
  <2>5. \A t \in Slot : executed'[t] = executed[t] \/ t = s
    BY <1>t, <2>3 DEF TypeOK
  <2>6. executed'[s] # NotRun
    BY <1>t, <2>3, <2>4 DEF TypeOK
  <2>. QED BY <1>2, <2>5, <2>6 DEF HasBegun, BeginTask
<1>3. ASSUME NEW w \in Workspace, NEW s \in Slot, Settle(w, s)
      PROVE  /\ executed' = executed
             /\ executingSlot' =
                  [executingSlot EXCEPT ![w] = IF @ = s THEN NoSlot ELSE @]
  BY <1>3 DEF Settle, DecrementExecutingCount
<1>4. ASSUME NEW w \in Workspace, NEW s \in Slot,
             SkipTask(w, s) \/ ResetExecutingCount(w, s)
      PROVE  executed' = executed /\ executingSlot' = executingSlot
  BY <1>4 DEF SkipTask, ResetExecutingCount, chainVars, countVars
<1>5. CASE executed' = executed /\ executingSlot' = executingSlot
  BY <1>5 DEF HasBegun
<1>6. CASE \E w \in Workspace, s \in Slot : BeginTask(w, s)
  <2>. PICK w \in Workspace, s \in Slot : BeginTask(w, s)
    BY <1>6
  <2>1. \A v \in Workspace : v # w => executingSlot'[v] = executingSlot[v]
    BY <1>2, <1>t DEF TypeOK
  <2>2. executingSlot'[w] = s
    BY <1>2, <1>t DEF TypeOK
  <2>3. \A t \in Slot : HasBegun(t) => HasBegun(t)'
    BY <1>2
  <2>4. HasBegun(executingSlot[w])'
    BY <1>2, <2>2 DEF HasBegun
  <2>. QED BY <2>1, <2>2, <2>3, <2>4
<1>7. CASE \E w \in Workspace, s \in Slot : Settle(w, s)
  BY <1>3, <1>7, <1>t DEF TypeOK, HasBegun
<1>8. CASE UNCHANGED queueVars
  BY <1>5, <1>8 DEF queueVars, chainVars, countVars
<1>. QED BY <1>1, <1>4, <1>5, <1>6, <1>7, <1>8 DEF QueueNext

LEMMA CountInvariant == QueueSpec => []CountInv
BY CountInvInit, CountNext, PTL DEF QueueSpec

\* Every variable keeps its type, whatever is enqueued, cancelled, edited or
\* interrupted.
THEOREM TypeCorrect == QueueSpec => []TypeOK
BY CountInvariant, PTL DEF CountInv

\* A task that runs and was not itself stopped is never hidden from the count,
\* however late the continuation of an earlier interrupt resets it.
THEOREM RunningTaskIsVisible == QueueSpec => []VisibleWhileExecuting
<1>1. CountInv => VisibleWhileExecuting
  <2>. SUFFICES ASSUME CountInv, NEW w \in Workspace, NEW s \in Slot,
                       IsHead(w, s), phase[w] = "running", s \notin stopped
                PROVE  pendingOrExecutingCount[w] >= 1
    BY DEF VisibleWhileExecuting
  <2>1. TypeOK /\ LaneCount(w)
    BY DEF CountInv
  <2>2. executingSlot[w] = s
    BY <2>1 DEF LaneCount, IsHead, TypeOK, Slot
  <2>. QED BY <2>1, <2>2 DEF LaneCount
<1>. QED BY <1>1, CountInvariant, PTL

\* A lane whose chain has drained has a count of zero, no executing slot and no
\* credit of an interrupt left.
THEOREM DrainedLaneIsClean == QueueSpec => []IdleLaneIsClean
<1>1. CountInv => IdleLaneIsClean
  <2>. SUFFICES ASSUME CountInv, NEW w \in Workspace, chain[w] = {}
                PROVE  /\ pendingOrExecutingCount[w] = 0
                       /\ executingSlot[w] = NoSlot
                       /\ interruptedSlots[w] = {}
    BY DEF IdleLaneIsClean
  <2>1. TypeOK /\ LaneCount(w)
    BY DEF CountInv
  <2>2. executingSlot[w] = 0
    BY <2>1 DEF LaneCount, TypeOK
  <2>3. interruptedSlots[w] = {}
    BY <2>1, <2>2 DEF LaneCount, TypeOK, Slot
  <2>4. Cardinality(chain[w] \ interruptedSlots[w]) = 0
    BY FS_EmptySet
  <2>5. pendingOrExecutingCount[w] = 0
    BY <2>1, <2>4 DEF LaneCount, TypeOK
  <2>. QED BY <2>2, <2>3, <2>5
<1>. QED BY <1>1, CountInvariant, PTL

-----------------------------------------------------------------------------
(* Keys that are enqueued once: index, cancellation and edits              *)

MintedKeysDiffer ==
    \A s, t \in Slot :
       s <= slotCounter /\ t <= slotCounter /\ taskMsg[s] = taskMsg[t] => s = t

\* Where a task can be: a link is queued, removed or running, never two of
\* them; the list, the index and the closures agree.
LaneEntries(w) ==
    /\ queuedTasks[w] \subseteq chain[w]
    /\ \A s \in queuedTasks[w] :
          taskIndex[w][taskMsg[s]] = s /\ s \notin removed /\ ~HasBegun(s)
    /\ \A m \in Message : taskIndex[w][m] # NoSlot =>
          taskIndex[w][m] \in queuedTasks[w] /\ taskMsg[taskIndex[w][m]] = m
    /\ \A s \in chain[w] : s \in queuedTasks[w] \/ s \in removed \/ HasBegun(s)
    /\ \A s \in chain[w] : HasBegun(s) => phase[w] = "running" /\ IsHead(w, s)
    /\ phase[w] = "skipped" => \A s \in chain[w] : IsHead(w, s) => s \in removed
    /\ phase[w] = "running" => \A s \in chain[w] : IsHead(w, s) => HasBegun(s)
    /\ \A m \in Message : taskReplacements[w][m] =
          IF taskIndex[w][m] = NoSlot THEN 0 ELSE edited[taskIndex[w][m]]

\* What has become of each slot.
SlotFates ==
    /\ \A v, w \in Workspace : chain[v] \cap chain[w] # {} => v = w
    /\ \A s \in Slot : HasBegun(s) =>
          s <= slotCounter /\ s \notin removed /\ executed[s] = edited[s]
    /\ \A s \in removed : s <= slotCounter
    /\ \A s \in Slot : s > slotCounter => edited[s] = 0

KeyInv ==
    /\ CountInv
    /\ MintedKeysDiffer
    /\ SlotFates
    /\ \A w \in Workspace : LaneEntries(w)

LEMMA KeyInvInit == QueueInit => KeyInv
<1>. SUFFICES ASSUME QueueInit PROVE KeyInv
  OBVIOUS
<1>1. MintedKeysDiffer
  BY DEF QueueInit, MintedKeysDiffer, Slot
<1>2. SlotFates
  BY DEF QueueInit, SlotFates, HasBegun
<1>3. \A w \in Workspace : LaneEntries(w)
  BY DEF QueueInit, LaneEntries, HasBegun
<1>. QED BY <1>1, <1>2, <1>3, CountInvInit DEF KeyInv

\* The first entry with a key is the one the index names.
LEMMA DropEntryRemovesTheIndexed ==
    ASSUME KeyInv, NEW w \in Workspace, NEW m \in Message,
           taskIndex[w][m] # NoSlot, DropEntry(w, m)
    PROVE  /\ taskIndex[w][m] \in queuedTasks[w]
           /\ queuedTasks' = [queuedTasks EXCEPT ![w] = @ \ {taskIndex[w][m]}]
<1>. DEFINE i == taskIndex[w][m]
<1>1. /\ TypeOK
      /\ i \in queuedTasks[w] /\ taskMsg[i] = m
      /\ \A t \in queuedTasks[w] : taskIndex[w][taskMsg[t]] = t
  BY DEF KeyInv, CountInv, LaneEntries
<1>2. \A t \in queuedTasks[w] : IsFirstEntry(w, m, t) <=> t = i
  BY <1>1 DEF IsFirstEntry, TypeOK, Slot
<1>3. {t \in queuedTasks[w] : ~IsFirstEntry(w, m, t)} = queuedTasks[w] \ {i}
  BY <1>2
<1>. QED BY <1>1, <1>3 DEF DropEntry, TypeOK

LEMMA KeyNext ==
    ASSUME RepeatedKey = {}
    PROVE  KeyInv /\ [QueueNext]_queueVars => KeyInv'
<1>. SUFFICES ASSUME KeyInv, [QueueNext]_queueVars PROVE KeyInv'
  OBVIOUS
<1>c. CountInv /\ CountInv'
  BY CountNext DEF KeyInv
<1>t. TypeOK /\ Minted /\ MintedKeysDiffer /\ SlotFates /\ TypeOK'
  BY <1>c DEF KeyInv, CountInv
<1>l. \A v \in Workspace : LaneEntries(v)
  BY DEF KeyInv
<1>. SUFFICES MintedKeysDiffer' /\ SlotFates' /\ \A v \in Workspace : LaneEntries(v)'
  BY <1>c DEF KeyInv
<1>1. ASSUME NEW w \in Workspace, NEW m \in Message, Enqueue(w, m)
      PROVE  MintedKeysDiffer' /\ SlotFates' /\ \A v \in Workspace : LaneEntries(v)'
  <2>. DEFINE n == slotCounter + 1
  <2>1. /\ n \in Slot /\ slotCounter' = n /\ slotCounter \in Nat
        /\ taskMsg' = [taskMsg EXCEPT ![n] = m]
        /\ \A s \in Slot : taskMsg[s] # m
    BY <1>1, <1>t DEF Enqueue, MintSlot, KeyAvailable, TypeOK, Slot
  <2>2. /\ queuedTasks' = [queuedTasks EXCEPT ![w] = @ \cup {n}]
        /\ taskIndex' = [taskIndex EXCEPT ![w][m] = n]
        /\ chain' = [chain EXCEPT ![w] = @ \cup {n}]
        /\ phase' = phase /\ executed' = executed /\ removed' = removed
        /\ edited' = edited /\ taskReplacements' = taskReplacements
    BY <1>1 DEF Enqueue, editVars
  <2>3. MintedKeysDiffer'
    BY <1>t, <2>1 DEF MintedKeysDiffer, TypeOK, Slot
  <2>4. \A v \in Workspace : n \notin chain[v]
    BY <1>t, <2>1 DEF Minted
  <2>5. SlotFates'
    BY <1>t, <2>1, <2>2, <2>4 DEF SlotFates, HasBegun, TypeOK, Slot
  <2>6. ~HasBegun(n) /\ n \notin removed /\ edited[n] = 0
    BY <1>t, <2>1 DEF SlotFates
  <2>7. ASSUME NEW v \in Workspace, v # w PROVE LaneEntries(v)'
    <3>1. LaneEntries(v)
      BY <1>l
    <3>2. \A s \in Slot : s # n => taskMsg'[s] = taskMsg[s]
      BY <1>t, <2>1 DEF TypeOK
    <3>3. /\ queuedTasks'[v] = queuedTasks[v] /\ taskIndex'[v] = taskIndex[v]
          /\ chain'[v] = chain[v] /\ phase'[v] = phase[v]
      BY <1>t, <2>2, <2>7 DEF TypeOK
    <3>4. n \notin chain[v] /\ n \notin queuedTasks[v]
      BY <2>4, <3>1 DEF LaneEntries
    <3>. HIDE DEF n
    <3>. QED
      BY <1>t, <2>2, <3>1, <3>2, <3>3, <3>4 DEF LaneEntries, HasBegun, IsHead, TypeOK
  <2>8. LaneEntries(w)'
    <3>1. LaneEntries(w)
      BY <1>l
    <3>2. /\ queuedTasks'[w] = queuedTasks[w] \cup {n}
          /\ chain'[w] = chain[w] \cup {n}
          /\ taskIndex'[w][m] = n
          /\ \A p \in Message : p # m => taskIndex'[w][p] = taskIndex[w][p]
          /\ taskMsg'[n] = m
          /\ \A s \in Slot : s # n => taskMsg'[s] = taskMsg[s]
      BY <1>t, <2>1, <2>2 DEF TypeOK
    <3>3. n \notin chain[w] /\ \A s \in chain[w] : s < n /\ s \in Slot
      BY <1>t, <2>1 DEF Minted, TypeOK, Slot
    <3>4. \A s \in chain[w] : IsHead(w, s) <=> IsHead(w, s)'
      BY <3>2, <3>3, <2>1 DEF IsHead, Slot
    <3>5. n \notin queuedTasks[w] /\ taskIndex[w][m] = 0
      BY <1>t, <2>1, <3>1, <3>3 DEF LaneEntries, TypeOK
    <3>6. phase[w] # "ready" => chain[w] # {}
      BY <1>c DEF CountInv, LaneCount
    <3>7. \A s \in Slot : s = n /\ phase[w] # "ready" => ~IsHead(w, s)'
      BY <3>2, <3>3, <3>6, <2>1 DEF IsHead, Slot
    <3>. HIDE DEF n
    <3>81. queuedTasks'[w] \subseteq chain'[w]
      BY <3>1, <3>2 DEF LaneEntries
    <3>82. ASSUME NEW s \in queuedTasks'[w]
           PROVE  taskIndex'[w][taskMsg'[s]] = s /\ s \notin removed' /\ ~HasBegun(s)'
      <4>1. CASE s = n
        BY <2>2, <2>6, <3>2, <4>1 DEF HasBegun
      <4>2. CASE s # n
        <5>1. s \in queuedTasks[w] /\ s \in Slot /\ s <= slotCounter
          BY <1>t, <3>1, <3>2, <4>2 DEF LaneEntries, Minted, TypeOK
        <5>2. taskMsg'[s] = taskMsg[s] /\ taskMsg[s] # m /\ taskMsg[s] \in Message
          BY <1>t, <2>1, <3>2, <4>2, <5>1 DEF Minted
        <5>. QED BY <2>2, <3>1, <3>2, <5>1, <5>2 DEF LaneEntries, HasBegun
      <4>. QED BY <4>1, <4>2
    <3>83. ASSUME NEW p \in Message, taskIndex'[w][p] # NoSlot
           PROVE  taskIndex'[w][p] \in queuedTasks'[w] /\ taskMsg'[taskIndex'[w][p]] = p
      <4>1. CASE p = m
        BY <3>2, <4>1
      <4>2. CASE p # m
        <5>1. taskIndex[w][p] \in queuedTasks[w] /\ taskMsg[taskIndex[w][p]] = p
          BY <3>1, <3>2, <3>83, <4>2 DEF LaneEntries
        <5>2. taskIndex[w][p] # n /\ taskIndex[w][p] \in Slot
          BY <1>t, <3>5, <5>1 DEF TypeOK
        <5>. QED BY <3>2, <4>2, <5>1, <5>2
      <4>. QED BY <4>1, <4>2
    <3>91. ASSUME NEW s \in chain'[w]
           PROVE  /\ s \in queuedTasks'[w] \/ s \in removed' \/ HasBegun(s)'
                  /\ HasBegun(s)' => phase'[w] = "running" /\ IsHead(w, s)'
                  /\ phase'[w] = "skipped" /\ IsHead(w, s)' => s \in removed'
                  /\ phase'[w] = "running" /\ IsHead(w, s)' => HasBegun(s)'
      <4>1. CASE s = n
        <5>1. s \in queuedTasks'[w]
          BY <3>2, <4>1
        <5>2. ~HasBegun(s)'
          BY <2>2, <2>6, <4>1 DEF HasBegun
        <5>3. phase'[w] # "ready" => ~IsHead(w, s)'
          BY <2>1, <2>2, <3>7, <4>1
        <5>. QED BY <5>1, <5>2, <5>3
      <4>2. CASE s # n
        <5>1. s \in chain[w]
          BY <3>2, <4>2
        <5>2. IsHead(w, s) <=> IsHead(w, s)'
          BY <3>4, <5>1
        <5>. QED BY <2>2, <3>1, <3>2, <5>1, <5>2 DEF LaneEntries, HasBegun
      <4>. QED BY <4>1, <4>2
    <3>10. \A p \in Message : taskReplacements'[w][p] =
             IF taskIndex'[w][p] = NoSlot THEN 0 ELSE edited'[taskIndex'[w][p]]
      BY <2>2, <2>6, <3>1, <3>2, <3>5 DEF LaneEntries
    <3>. QED BY <3>81, <3>82, <3>83, <2>2, <3>91, <3>10 DEF LaneEntries
  <2>. QED BY <2>3, <2>5, <2>7, <2>8

\* The other steps mint no slot and leave the keys as they are.
<1>2. ASSUME taskMsg' = taskMsg, slotCounter' = slotCounter
      PROVE  MintedKeysDiffer'
  BY <1>t, <1>2 DEF MintedKeysDiffer
<1>3. ASSUME NEW v \in Workspace, taskMsg' = taskMsg,
             chain'[v] = chain[v], phase'[v] = phase[v],
             queuedTasks'[v] = queuedTasks[v], taskIndex'[v] = taskIndex[v],
             taskReplacements'[v] = taskReplacements[v],
             \A s \in chain[v] : /\ executed'[s] = executed[s]
                                 /\ edited'[s] = edited[s]
                                 /\ s \in removed' <=> s \in removed
      PROVE  LaneEntries(v)'
  <2>1. LaneEntries(v)
    BY <1>l
  <2>2. \A s \in chain[v] : IsHead(v, s)' <=> IsHead(v, s)
    BY <1>3 DEF IsHead
  <2>3. \A s \in chain[v] : HasBegun(s)' <=> HasBegun(s)
    BY <1>3 DEF HasBegun
  <2>4. \A m \in Message : taskIndex[v][m] # NoSlot => taskIndex[v][m] \in chain[v]
    BY <2>1 DEF LaneEntries
  <2>. QED BY <1>3, <2>1, <2>2, <2>3, <2>4 DEF LaneEntries
<1>4. ASSUME NEW w \in Workspace, NEW m \in Message, EnqueueRejected(w, m)
      PROVE  MintedKeysDiffer' /\ SlotFates' /\ \A v \in Workspace : LaneEntries(v)'
  <2>. DEFINE n == slotCounter + 1
  <2>1. /\ n \in Slot /\ slotCounter' = n /\ slotCounter \in Nat
        /\ taskMsg' = [taskMsg EXCEPT ![n] = m]
        /\ \A s \in Slot : taskMsg[s] # m
        /\ UNCHANGED <<chain, phase, executed, queuedTasks, taskIndex, removed,
                       edited, taskReplacements>>
    BY <1>4, <1>t DEF EnqueueRejected, MintSlot, KeyAvailable, TypeOK, Slot,
                      chainVars, listVars, editVars
  <2>2. MintedKeysDiffer'
    BY <1>t, <2>1 DEF MintedKeysDiffer, TypeOK, Slot
  <2>3. SlotFates'
    BY <1>t, <2>1 DEF SlotFates, HasBegun, TypeOK, Slot
  <2>4. ASSUME NEW v \in Workspace PROVE LaneEntries(v)'
    <3>1. LaneEntries(v)
      BY <1>l
    <3>2. \A s \in chain[v] : taskMsg'[s] = taskMsg[s] /\ s # n
      BY <1>t, <2>1 DEF Minted, TypeOK
    <3>3. queuedTasks[v] \subseteq chain[v]
      BY <3>1 DEF LaneEntries
    <3>. HIDE DEF n
    <3>. QED BY <2>1, <3>1, <3>2, <3>3 DEF LaneEntries, HasBegun, IsHead
  <2>. QED BY <2>2, <2>3, <2>4
<1>5. ASSUME NEW w \in Workspace, NEW m \in Message, RemoveFromQueue(w, m)
      PROVE  MintedKeysDiffer' /\ SlotFates' /\ \A v \in Workspace : LaneEntries(v)'
  <2>. DEFINE i == taskIndex[w][m]
  <2>1. /\ i \in queuedTasks[w]
        /\ queuedTasks' = [queuedTasks EXCEPT ![w] = @ \ {i}]
        /\ taskIndex' = [taskIndex EXCEPT ![w][m] = 0]
    BY <1>5, DropEntryRemovesTheIndexed DEF RemoveFromQueue, DropEntry
  <2>2. /\ removed' = removed \cup {i}
        /\ taskReplacements' = [taskReplacements EXCEPT ![w][m] = 0]
        /\ UNCHANGED <<slotCounter, taskMsg, chain, phase, executed, edited>>
    BY <1>5 DEF RemoveFromQueue, taskVars, chainVars
  <2>3. LaneEntries(w)
    BY <1>l
  <2>4. i \in chain[w] /\ i \in Slot /\ ~HasBegun(i) /\ taskMsg[i] = m /\ i <= slotCounter
    BY <1>t, <2>1, <2>3 DEF LaneEntries, TypeOK, Minted, Slot
  <2>8. i = taskIndex[w][m]
    OBVIOUS
  <2>. HIDE DEF i
  <2>5. SlotFates'
    BY <1>t, <2>2, <2>4 DEF SlotFates, HasBegun
  <2>6. ASSUME NEW v \in Workspace, v # w PROVE LaneEntries(v)'
    <3>1. i \notin chain[v]
      BY <1>t, <2>4, <2>6 DEF SlotFates
    <3>2. /\ queuedTasks'[v] = queuedTasks[v]
          /\ taskIndex'[v] = taskIndex[v]
          /\ taskReplacements'[v] = taskReplacements[v]
      BY <1>t, <2>1, <2>2, <2>6 DEF TypeOK
    <3>3. \A s \in chain[v] : s \in removed' <=> s \in removed
      BY <2>2, <3>1
    <3>. QED BY <1>3, <2>2, <3>2, <3>3
  <2>7. LaneEntries(w)'
    <3>1. /\ queuedTasks'[w] = queuedTasks[w] \ {i}
          /\ taskIndex'[w][m] = 0 /\ taskReplacements'[w][m] = 0
          /\ \A p \in Message : p # m =>
                /\ taskIndex'[w][p] = taskIndex[w][p]
                /\ taskReplacements'[w][p] = taskReplacements[w][p]
      BY <1>t, <2>1, <2>2 DEF TypeOK
    <3>2. \A s \in queuedTasks[w] : taskMsg[s] \in Message
      BY <1>t, <2>3 DEF LaneEntries, Minted, TypeOK
    <3>4. \A s \in queuedTasks'[w] : taskMsg[s] # m
      BY <2>3, <2>8, <3>1 DEF LaneEntries
    <3>5. \A p \in Message : p # m /\ taskIndex[w][p] # 0 => taskIndex[w][p] # i
      BY <2>3, <2>4 DEF LaneEntries
    <3>. QED
      BY <2>2, <2>3, <2>4, <3>1, <3>2, <3>4, <3>5 DEF LaneEntries, HasBegun, IsHead
  <2>. QED BY <1>2, <2>2, <2>5, <2>6, <2>7
<1>6. ASSUME NEW w \in Workspace, NEW m \in Message, EditQueuedTask(w, m)
      PROVE  MintedKeysDiffer' /\ SlotFates' /\ \A v \in Workspace : LaneEntries(v)'
  <2>. DEFINE i == taskIndex[w][m]
  <2>1. /\ i # 0
        /\ taskReplacements' = [taskReplacements EXCEPT ![w][m] = edited[i] + 1]
        /\ edited' = [edited EXCEPT ![i] = @ + 1]
        /\ UNCHANGED <<slotCounter, taskMsg, chain, phase, executed, queuedTasks,
                       taskIndex, removed>>
    BY <1>6 DEF EditQueuedTask, taskVars, chainVars, listVars
  <2>2. LaneEntries(w)
    BY <1>l
  <2>3. i \in chain[w] /\ i \in Slot /\ ~HasBegun(i) /\ taskMsg[i] = m /\ i <= slotCounter
    BY <1>t, <2>1, <2>2 DEF LaneEntries, TypeOK, Minted, Slot
  <2>8. i = taskIndex[w][m]
    OBVIOUS
  <2>. HIDE DEF i
  <2>4. SlotFates'
    BY <1>t, <2>1, <2>3 DEF SlotFates, HasBegun, TypeOK, Slot
  <2>5. ASSUME NEW v \in Workspace, v # w PROVE LaneEntries(v)'
    <3>1. i \notin chain[v]
      BY <1>t, <2>3, <2>5 DEF SlotFates
    <3>2. taskReplacements'[v] = taskReplacements[v]
      BY <1>t, <2>1, <2>5 DEF TypeOK
    <3>3. \A s \in chain[v] : edited'[s] = edited[s]
      BY <1>t, <2>1, <3>1 DEF TypeOK
    <3>. QED BY <1>3, <2>1, <3>2, <3>3
  <2>6. LaneEntries(w)'
    <3>1. /\ taskReplacements'[w][m] = edited'[i]
          /\ \A p \in Message : p # m => taskReplacements'[w][p] = taskReplacements[w][p]
          /\ \A s \in Slot : s # i => edited'[s] = edited[s]
      BY <1>t, <2>1, <2>3 DEF TypeOK
    <3>2. \A p \in Message : p # m /\ taskIndex[w][p] # 0 =>
             taskIndex[w][p] # i /\ taskIndex[w][p] \in Slot
      BY <1>t, <2>2, <2>3 DEF LaneEntries, TypeOK
    <3>3. \A p \in Message : taskReplacements'[w][p] =
             IF taskIndex'[w][p] = NoSlot THEN 0 ELSE edited'[taskIndex'[w][p]]
      BY <2>1, <2>2, <2>8, <3>1, <3>2 DEF LaneEntries
    <3>. QED BY <2>1, <2>2, <3>3 DEF LaneEntries, HasBegun, IsHead
  <2>. QED BY <1>2, <2>1, <2>4, <2>5, <2>6
<1>7. ASSUME NEW w \in Workspace, NEW s \in Slot, BeginTask(w, s)
      PROVE  MintedKeysDiffer' /\ SlotFates' /\ \A v \in Workspace : LaneEntries(v)'
  <2>. DEFINE m == taskMsg[s]
  <2>1. LaneEntries(w)
    BY <1>l
  <2>2. IsHead(w, s) /\ phase[w] = "ready" /\ m \in Message /\ s <= slotCounter
    BY <1>7, <1>t DEF BeginTask, IsHead, Minted
  <2>3. taskIndex[w][m] = s
    <3>1. taskIndex[w][m] \in chain[w] /\ taskMsg[taskIndex[w][m]] = m
      BY <1>7, <2>1, <2>2 DEF BeginTask, LaneEntries
    <3>. QED BY <1>t, <2>2, <3>1 DEF MintedKeysDiffer, Minted, TypeOK
  <2>4. /\ s \in queuedTasks[w]
        /\ queuedTasks' = [queuedTasks EXCEPT ![w] = @ \ {s}]
        /\ taskIndex' = [taskIndex EXCEPT ![w][m] = 0]
    <3>1. DropEntry(w, m) /\ taskIndex[w][m] # NoSlot
      BY <1>7 DEF BeginTask
    <3>2. /\ s \in queuedTasks[w]
          /\ queuedTasks' = [queuedTasks EXCEPT ![w] = @ \ {s}]
      BY <2>2, <2>3, <3>1, DropEntryRemovesTheIndexed
    <3>. QED BY <3>1, <3>2 DEF DropEntry
  <2>5. /\ executed' = [executed EXCEPT ![s] = taskReplacements[w][m]]
        /\ taskReplacements' = [taskReplacements EXCEPT ![w][m] = 0]
        /\ phase' = [phase EXCEPT ![w] = "running"]
        /\ UNCHANGED <<slotCounter, taskMsg, chain, removed, edited>>
    BY <1>7 DEF BeginTask, taskVars
  <2>6. taskReplacements[w][m] = edited[s] /\ s \notin removed /\ edited[s] \in Nat
    <3>1. taskReplacements[w][m] = edited[s] /\ s \notin removed
      BY <2>1, <2>2, <2>3, <2>4 DEF LaneEntries, Slot
    <3>. QED BY <1>t, <3>1 DEF TypeOK, Version
  <2>7. SlotFates'
    BY <1>t, <2>2, <2>5, <2>6 DEF SlotFates, HasBegun, TypeOK
  <2>8. ASSUME NEW v \in Workspace, v # w PROVE LaneEntries(v)'
    <3>1. s \notin chain[v]
      BY <1>t, <2>2, <2>8 DEF SlotFates, IsHead
    <3>2. /\ queuedTasks'[v] = queuedTasks[v]
          /\ taskIndex'[v] = taskIndex[v]
          /\ taskReplacements'[v] = taskReplacements[v]
          /\ phase'[v] = phase[v]
      BY <1>t, <2>4, <2>5, <2>8 DEF TypeOK
    <3>3. \A t \in chain[v] : executed'[t] = executed[t]
      BY <1>t, <2>5, <3>1 DEF TypeOK
    <3>. QED BY <1>3, <2>5, <3>2, <3>3
  <2>9. LaneEntries(w)'
    <3>1. /\ queuedTasks'[w] = queuedTasks[w] \ {s}
          /\ taskIndex'[w][m] = 0 /\ taskReplacements'[w][m] = 0
          /\ \A p \in Message : p # m =>
                /\ taskIndex'[w][p] = taskIndex[w][p]
                /\ taskReplacements'[w][p] = taskReplacements[w][p]
          /\ phase'[w] = "running"
          /\ HasBegun(s)'
          /\ \A t \in Slot : t # s => executed'[t] = executed[t]
      BY <1>t, <2>2, <2>4, <2>5, <2>6 DEF TypeOK, HasBegun
    <3>2. \A t \in queuedTasks[w] : taskMsg[t] \in Message /\ t \in Slot
      BY <1>t, <2>1 DEF LaneEntries, Minted, TypeOK
    <3>4. \A t \in queuedTasks'[w] : taskMsg[t] # m
      BY <2>1, <2>3, <3>1 DEF LaneEntries
    <3>5. \A p \in Message : p # m /\ taskIndex[w][p] # 0 => taskIndex[w][p] # s
      BY <2>1 DEF LaneEntries
    <3>6. \A t \in chain[w] : t \in Slot /\ ~HasBegun(t)
      BY <1>t, <2>1, <2>2 DEF LaneEntries, TypeOK
    <3>7. \A t \in chain[w] : HasBegun(t)' <=> t = s
      BY <3>1, <3>6 DEF HasBegun
    <3>8. \A t \in chain[w] : IsHead(w, t)' <=> t = s
      BY <1>t, <2>2, <2>5 DEF IsHead, TypeOK, Slot
    <3>. HIDE DEF m
    <3>. QED
      <4>1. /\ queuedTasks'[w] \subseteq chain'[w]
            /\ \A t \in queuedTasks'[w] :
                  taskIndex'[w][taskMsg'[t]] = t /\ t \notin removed' /\ ~HasBegun(t)'
        BY <2>1, <2>5, <3>1, <3>2, <3>4, <3>7 DEF LaneEntries
      <4>2. /\ \A p \in Message : taskIndex'[w][p] # NoSlot =>
                  /\ taskIndex'[w][p] \in queuedTasks'[w]
                  /\ taskMsg'[taskIndex'[w][p]] = p
            /\ \A p \in Message : taskReplacements'[w][p] =
                  IF taskIndex'[w][p] = NoSlot THEN 0 ELSE edited'[taskIndex'[w][p]]
        BY <2>1, <2>5, <3>1, <3>5 DEF LaneEntries
      <4>3. \A t \in chain'[w] :
               /\ t \in queuedTasks'[w] \/ t \in removed' \/ HasBegun(t)'
               /\ HasBegun(t)' => phase'[w] = "running" /\ IsHead(w, t)'
               /\ IsHead(w, t)' => HasBegun(t)'
        BY <2>1, <2>5, <3>1, <3>6, <3>7, <3>8 DEF LaneEntries
      <4>. QED BY <3>1, <4>1, <4>2, <4>3 DEF LaneEntries
  <2>. QED BY <1>2, <2>5, <2>7, <2>8, <2>9
<1>8. ASSUME NEW w \in Workspace, NEW s \in Slot, SkipTask(w, s)
      PROVE  MintedKeysDiffer' /\ SlotFates' /\ \A v \in Workspace : LaneEntries(v)'
  <2>1. LaneEntries(w)
    BY <1>l
  <2>2. /\ IsHead(w, s) /\ phase[w] = "ready" /\ taskIndex[w][taskMsg[s]] = 0
        /\ phase' = [phase EXCEPT ![w] = "skipped"]
        /\ UNCHANGED <<slotCounter, taskMsg, chain, executed, queuedTasks, taskIndex,
                       removed, edited, taskReplacements>>
    BY <1>8 DEF SkipTask, taskVars, listVars, editVars
  <2>3. s \in removed /\ s \in Slot
    BY <1>t, <2>1, <2>2 DEF LaneEntries, IsHead, TypeOK, Slot
  <2>4. SlotFates'
    BY <1>t, <2>2 DEF SlotFates, HasBegun
  <2>5. ASSUME NEW v \in Workspace, v # w PROVE LaneEntries(v)'
    <3>1. phase'[v] = phase[v]
      BY <1>t, <2>2, <2>5 DEF TypeOK
    <3>. QED BY <1>3, <2>2, <3>1
  <2>6. LaneEntries(w)'
    <3>1. phase'[w] = "skipped"
      BY <1>t, <2>2 DEF TypeOK
    <3>2. \A t \in chain[w] : ~HasBegun(t)
      BY <2>1, <2>2 DEF LaneEntries
    <3>3. \A t \in chain[w] : IsHead(w, t)' => t = s
      BY <1>t, <2>2 DEF IsHead, TypeOK, Slot
    <3>. QED BY <2>1, <2>2, <2>3, <3>1, <3>2, <3>3 DEF LaneEntries, HasBegun
  <2>. QED BY <1>2, <2>2, <2>4, <2>5, <2>6
<1>9. ASSUME NEW w \in Workspace, NEW s \in Slot, Settle(w, s)
      PROVE  MintedKeysDiffer' /\ SlotFates' /\ \A v \in Workspace : LaneEntries(v)'
  <2>1. LaneEntries(w)
    BY <1>l
  <2>2. /\ IsHead(w, s) /\ phase[w] \in {"running", "skipped"}
        /\ chain' = [chain EXCEPT ![w] = @ \ {s}]
        /\ phase' = [phase EXCEPT ![w] = "ready"]
        /\ UNCHANGED <<slotCounter, taskMsg, executed, queuedTasks, taskIndex,
                       removed, edited, taskReplacements>>
    BY <1>9 DEF Settle, taskVars, listVars, editVars
  <2>3. SlotFates'
    BY <1>t, <2>2 DEF SlotFates, HasBegun, TypeOK
  <2>4. ASSUME NEW v \in Workspace, v # w PROVE LaneEntries(v)'
    <3>1. chain'[v] = chain[v] /\ phase'[v] = phase[v]
      BY <1>t, <2>2, <2>4 DEF TypeOK
    <3>. QED BY <1>3, <2>2, <3>1
  <2>5. LaneEntries(w)'
    <3>1. phase'[w] = "ready" /\ chain'[w] = chain[w] \ {s}
      BY <1>t, <2>2 DEF TypeOK
    <3>2. s \in removed \/ HasBegun(s)
      <4>1. s \in chain[w]
        BY <2>2 DEF IsHead
      <4>2. CASE phase[w] = "skipped"
        BY <2>1, <2>2, <4>1, <4>2 DEF LaneEntries
      <4>3. CASE phase[w] = "running"
        BY <2>1, <2>2, <4>1, <4>3 DEF LaneEntries
      <4>. QED BY <2>2, <4>2, <4>3
    <3>3. s \notin queuedTasks[w]
      BY <2>1, <3>2 DEF LaneEntries
    <3>4. \A t \in chain'[w] : ~HasBegun(t)
      BY <1>t, <2>1, <2>2, <3>1 DEF LaneEntries, IsHead, TypeOK, Slot
    <3>. QED BY <2>1, <2>2, <3>1, <3>3, <3>4 DEF LaneEntries, HasBegun
  <2>. QED BY <1>2, <2>2, <2>3, <2>4, <2>5
<1>10. ASSUME NEW w \in Workspace, NEW s \in Slot, ResetExecutingCount(w, s)
      PROVE  MintedKeysDiffer' /\ SlotFates' /\ \A v \in Workspace : LaneEntries(v)'
  <2>1. UNCHANGED <<slotCounter, taskMsg, chain, phase, executed, queuedTasks,
                    taskIndex, removed, edited, taskReplacements>>
    BY <1>10 DEF ResetExecutingCount, taskVars, chainVars, listVars, editVars
  <2>2. SlotFates'
    BY <1>t, <2>1 DEF SlotFates, HasBegun
  <2>. QED BY <1>2, <1>3, <2>1, <2>2
<1>11. ASSUME UNCHANGED queueVars
      PROVE  MintedKeysDiffer' /\ SlotFates' /\ \A v \in Workspace : LaneEntries(v)'
  <2>1. UNCHANGED <<slotCounter, taskMsg, chain, phase, executed, queuedTasks,
                    taskIndex, removed, edited, taskReplacements>>
    BY <1>11 DEF queueVars, taskVars, chainVars, listVars, editVars
  <2>2. SlotFates'
    BY <1>t, <2>1 DEF SlotFates, HasBegun
  <2>. QED BY <1>2, <1>3, <2>1, <2>2
<1>. QED
  BY <1>1, <1>4, <1>5, <1>6, <1>7, <1>8, <1>9, <1>10, <1>11 DEF QueueNext

LEMMA KeyInvariant ==
    ASSUME RepeatedKey = {}
    PROVE  QueueSpec => []KeyInv
BY KeyInvInit, KeyNext, PTL DEF QueueSpec

\* The index and the list of a lane hold the same tasks, as long as no key is
\* enqueued twice.
THEOREM IndexAndListAgree ==
    ASSUME RepeatedKey = {}
    PROVE  QueueSpec => []IndexMirrorsList
<1>1. KeyInv => IndexMirrorsList
  BY DEF KeyInv, LaneEntries, IndexMirrorsList
<1>. QED BY <1>1, KeyInvariant, PTL

\* A task that a cancel removed never runs, and no other task is skipped.
THEOREM CancelIsFinal ==
    ASSUME RepeatedKey = {}
    PROVE  QueueSpec => []CancelledNeverRuns
<1>1. KeyInv => CancelledNeverRuns
  <2>. SUFFICES ASSUME KeyInv PROVE CancelledNeverRuns
    OBVIOUS
  <2>1. \A s \in removed : ~HasBegun(s)
    BY DEF KeyInv, CountInv, TypeOK, SlotFates
  <2>2. ASSUME NEW w \in Workspace, NEW s \in Slot, IsHead(w, s), phase[w] = "skipped"
        PROVE  s \in removed
    BY <2>2 DEF KeyInv, LaneEntries, IsHead
  <2>. QED BY <2>1, <2>2 DEF CancelledNeverRuns
<1>. QED BY <1>1, KeyInvariant, PTL

\* A task runs the text of its last accepted edit.
THEOREM EditIsRun ==
    ASSUME RepeatedKey = {}
    PROVE  QueueSpec => []LatestEditRuns
<1>1. KeyInv => LatestEditRuns
  BY DEF KeyInv, SlotFates, LatestEditRuns
<1>. QED BY <1>1, KeyInvariant, PTL

\* No replacement closure outlives the wait of its task.
THEOREM ClosuresBelongToWaitingTasks ==
    ASSUME RepeatedKey = {}
    PROVE  QueueSpec => []NoDeadClosure
<1>1. KeyInv => NoDeadClosure
  BY DEF KeyInv, LaneEntries, NoDeadClosure
<1>. QED BY <1>1, KeyInvariant, PTL

-----------------------------------------------------------------------------
(* The lanes implement SerialQueue                                         *)

\* The instance has a copy of Cardinality of its own.
LEMMA LaneCardinality == \A S : Lane!Cardinality(S) = Cardinality(S)
BY DEF Cardinality, Lane!Cardinality

\* Every behaviour of the queue, seen through the list, the executing slot and
\* the slot counter, is a behaviour of SerialQueue: tasks start one at a time
\* and in order, and only what waits can be cancelled.
THEOREM LanesAreSerialQueues ==
    ASSUME RepeatedKey = {}
    PROVE  QueueSpec => ImplementsSerialQueue
<1>1. QueueInit => Lane!Init
  BY DEF QueueInit, Lane!Init
<1>2. KeyInv /\ KeyInv' /\ [QueueNext]_queueVars => [Lane!Next]_(Lane!vars)
  <2>. SUFFICES ASSUME KeyInv, KeyInv', [QueueNext]_queueVars
                PROVE  Lane!Next \/ UNCHANGED Lane!vars
    OBVIOUS
  <2>t. TypeOK /\ Minted
    BY DEF KeyInv, CountInv
  <2>l. \A w \in Workspace : LaneCount(w) /\ LaneEntries(w)
    BY DEF KeyInv, CountInv
  <2>1. ASSUME NEW w \in Workspace, NEW m \in Message, Enqueue(w, m)
        PROVE  Lane!Submit(w)
    <3>1. Cardinality(queuedTasks[w]) \in Nat
      BY <2>t, SlotFinite DEF TypeOK
    <3>2. Lane!Cardinality(queuedTasks[w]) < MaxWaitingQueue
      BY <2>1, <3>1, LaneCardinality DEF Enqueue, QueueFull
    <3>. QED BY <2>1, <3>2 DEF Enqueue, MintSlot, Lane!Submit
  <2>2. ASSUME NEW w \in Workspace, NEW m \in Message, EnqueueRejected(w, m)
        PROVE  Lane!Refuse(w)
    <3>1. Lane!Cardinality(queuedTasks[w]) >= MaxWaitingQueue
      BY <2>2, LaneCardinality DEF EnqueueRejected, QueueFull
    <3>. QED BY <2>2, <3>1 DEF EnqueueRejected, MintSlot, listVars, countVars, Lane!Refuse
  <2>3. ASSUME NEW w \in Workspace, NEW m \in Message, RemoveFromQueue(w, m)
        PROVE  Lane!Cancel(w, taskIndex[w][m]) /\ taskIndex[w][m] \in 1 .. MaxSlot
    <3>1. /\ taskIndex[w][m] \in queuedTasks[w]
          /\ queuedTasks' = [queuedTasks EXCEPT ![w] = @ \ {taskIndex[w][m]}]
      BY <2>3, DropEntryRemovesTheIndexed DEF RemoveFromQueue
    <3>2. taskIndex[w][m] \in 1 .. MaxSlot
      BY <2>t, <3>1 DEF TypeOK, Slot
    <3>. QED BY <2>3, <3>1, <3>2 DEF RemoveFromQueue, taskVars, countVars, Lane!Cancel
  <2>4. ASSUME NEW w \in Workspace, NEW m \in Message, EditQueuedTask(w, m)
        PROVE  UNCHANGED Lane!vars
    BY <2>4 DEF EditQueuedTask, taskVars, listVars, countVars, Lane!vars
  <2>5. ASSUME NEW w \in Workspace, NEW s \in Slot, BeginTask(w, s)
        PROVE  Lane!Start(w, s)
    <3>1. /\ taskMsg[s] \in Message
          /\ DropEntry(w, taskMsg[s])
          /\ taskIndex[w][taskMsg[s]] # NoSlot
          /\ IsHead(w, s) /\ phase[w] = "ready"
          /\ executingSlot' = [executingSlot EXCEPT ![w] = s]
          /\ slotCounter' = slotCounter
      BY <2>5, <2>t DEF BeginTask, IsHead, Minted, taskVars
    <3>2. taskIndex[w][taskMsg[s]] = s
      <4>1. /\ taskIndex[w][taskMsg[s]] \in chain[w]
            /\ taskMsg[taskIndex[w][taskMsg[s]]] = taskMsg[s]
        BY <2>l, <3>1 DEF LaneEntries
      <4>. QED BY <2>t, <3>1, <4>1 DEF KeyInv, MintedKeysDiffer, Minted, IsHead, TypeOK
    <3>3. /\ s \in queuedTasks[w]
          /\ queuedTasks' = [queuedTasks EXCEPT ![w] = @ \ {s}]
      BY <3>1, <3>2, DropEntryRemovesTheIndexed
    <3>4. executingSlot[w] = NoSlot
      BY <2>l, <3>1 DEF LaneCount
    <3>5. \A t \in queuedTasks[w] : s <= t
      BY <2>l, <3>1 DEF LaneEntries, IsHead
    <3>. QED BY <3>1, <3>3, <3>4, <3>5 DEF Lane!Start
  <2>6. ASSUME NEW w \in Workspace, NEW s \in Slot, SkipTask(w, s)
        PROVE  UNCHANGED Lane!vars
    BY <2>6 DEF SkipTask, taskVars, listVars, countVars, Lane!vars
  <2>7. ASSUME NEW w \in Workspace, NEW s \in Slot, Settle(w, s)
        PROVE  Lane!Finish(w) \/ UNCHANGED Lane!vars
    <3>1. /\ IsHead(w, s)
          /\ executingSlot' =
               [executingSlot EXCEPT ![w] = IF @ = s THEN NoSlot ELSE @]
          /\ slotCounter' = slotCounter /\ queuedTasks' = queuedTasks
      BY <2>7 DEF Settle, DecrementExecutingCount, taskVars, listVars
    <3>2. CASE executingSlot[w] = s
      BY <3>1, <3>2 DEF Lane!Finish, Slot
    <3>3. CASE executingSlot[w] # s
      BY <2>t, <3>1, <3>3 DEF Lane!vars, TypeOK
    <3>. QED BY <3>2, <3>3
  <2>8. ASSUME NEW w \in Workspace, NEW s \in Slot, ResetExecutingCount(w, s)
        PROVE  UNCHANGED Lane!vars
    BY <2>8 DEF ResetExecutingCount, taskVars, listVars, Lane!vars
  <2>9. ASSUME UNCHANGED queueVars
        PROVE  UNCHANGED Lane!vars
    BY <2>9 DEF queueVars, taskVars, listVars, countVars, Lane!vars
  <2>10. ASSUME QueueNext PROVE Lane!Next \/ UNCHANGED Lane!vars
    <3>1. PICK w \in Workspace :
             \/ \E m \in Message : \/ Enqueue(w, m) \/ EnqueueRejected(w, m)
                                   \/ RemoveFromQueue(w, m) \/ EditQueuedTask(w, m)
             \/ \E s \in Slot : \/ BeginTask(w, s) \/ SkipTask(w, s) \/ Settle(w, s)
                                \/ ResetExecutingCount(w, s)
      BY <2>10 DEF QueueNext
    <3>. QED
      BY <3>1, <2>1, <2>2, <2>3, <2>4, <2>5, <2>6, <2>7, <2>8 DEF Lane!Next, Slot
  <2>. QED BY <2>9, <2>10
<1>. QED
  BY <1>1, <1>2, KeyInvariant, PTL DEF QueueSpec, ImplementsSerialQueue, Lane!Spec
=============================================================================
