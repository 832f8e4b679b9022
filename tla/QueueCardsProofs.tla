-------------------------- MODULE QueueCardsProofs --------------------------
(***************************************************************************)
(* Proofs about QueueCards, for every set of workspaces and messages and   *)
(* every bound, where no key is enqueued twice (as in QueueManagerProofs). *)
(* What the handlers do to the queue keeps its invariant KeyInv.  A card   *)
(* reads no more of the queue than what has become of the key it belongs   *)
(* to, so the argument about the cards is one about four sets of keys.     *)
(***************************************************************************)
EXTENDS QueueCards, QueueManagerProofs

USE DEF NoSlot

-----------------------------------------------------------------------------
(* What has become of a key                                                *)

UsedKeys == {m \in Message : \E s \in Slot : taskMsg[s] = m /\ s <= slotCounter}
QueuedKeys == {m \in Message : StillQueued(m)}
BegunKeys == {m \in Message : \E s \in Slot : taskMsg[s] = m /\ HasBegun(s)}
GoneKeys == {m \in Message : \E s \in Slot : taskMsg[s] = m /\ s \in removed}

\* A key that waits, has begun or is gone is in use, and it is one of the three.
LEMMA KeyHasOneFate ==
    ASSUME KeyInv
    PROVE  /\ QueuedKeys \subseteq UsedKeys
           /\ QueuedKeys \cap BegunKeys = {} /\ QueuedKeys \cap GoneKeys = {}
           /\ BegunKeys \cap GoneKeys = {}
<1>1. ASSUME NEW m \in QueuedKeys
      PROVE  \E s \in Slot : /\ taskMsg[s] = m /\ s <= slotCounter
                             /\ ~HasBegun(s) /\ s \notin removed
  <2>1. PICK w \in Workspace : taskIndex[w][m] # NoSlot
    BY DEF QueuedKeys, StillQueued
  <2>2. m \in Message /\ LaneEntries(w) /\ TypeOK /\ Minted
    BY DEF QueuedKeys, KeyInv, CountInv
  <2>. DEFINE s == taskIndex[w][m]
  <2>3. s \in queuedTasks[w] /\ taskMsg[s] = m
    BY <2>1, <2>2 DEF LaneEntries
  <2>4. s \in chain[w] /\ s \in Slot /\ s \notin removed /\ ~HasBegun(s)
    BY <2>2, <2>3 DEF LaneEntries, TypeOK
  <2>5. s <= slotCounter
    BY <2>2, <2>4 DEF Minted
  <2>. QED BY <2>3, <2>4, <2>5
<1>2. /\ MintedKeysDiffer
      /\ \A s \in Slot : HasBegun(s) => s <= slotCounter /\ s \notin removed
      /\ \A s \in removed : s <= slotCounter
  BY DEF KeyInv, SlotFates
<1>. QED BY <1>1, <1>2 DEF UsedKeys, QueuedKeys, BegunKeys, GoneKeys, MintedKeysDiffer

LEMMA EnqueueKeys ==
    ASSUME KeyInv, RepeatedKey = {},
           NEW w \in Workspace, NEW m \in Message, Enqueue(w, m)
    PROVE  /\ m \notin UsedKeys /\ UsedKeys' = UsedKeys \cup {m}
           /\ QueuedKeys' = QueuedKeys \cup {m}
           /\ BegunKeys' = BegunKeys /\ GoneKeys' = GoneKeys
<1>. DEFINE n == slotCounter + 1
<1>1. /\ \A s \in Slot : taskMsg[s] # m
      /\ slotCounter' = n
      /\ taskMsg' = [taskMsg EXCEPT ![n] = m]
      /\ taskIndex' = [taskIndex EXCEPT ![w][m] = n]
      /\ executed' = executed /\ removed' = removed
  BY DEF Enqueue, KeyAvailable, MintSlot
<1>2. /\ taskMsg \in [Slot -> Message \cup {NoMessage}]
      /\ taskIndex \in [Workspace -> [Message -> Slot \cup {NoSlot}]]
      /\ slotCounter \in Int /\ n \in Slot /\ n # NoSlot
  BY QueueAssumption DEF KeyInv, CountInv, TypeOK, Slot, Enqueue, MintSlot
<1>3. /\ \A s \in Slot : HasBegun(s) => s <= slotCounter
      /\ \A s \in removed : s <= slotCounter /\ s \in Slot
  BY DEF KeyInv, SlotFates, CountInv, TypeOK
<1>4. /\ taskMsg'[n] = m
      /\ \A s \in Slot : s # n => taskMsg'[s] = taskMsg[s]
      /\ \A s \in Slot : s <= slotCounter => s # n
      /\ \A s \in Slot : s <= n <=> s <= slotCounter \/ s = n
  BY <1>1, <1>2 DEF Slot
<1>5. m \notin UsedKeys
  BY <1>1 DEF UsedKeys
<1>6. UsedKeys' = UsedKeys \cup {m}
  BY <1>1, <1>2, <1>4 DEF UsedKeys
<1>7. BegunKeys' = BegunKeys
  BY <1>1, <1>3, <1>4 DEF BegunKeys, HasBegun
<1>8. GoneKeys' = GoneKeys
  BY <1>1, <1>3, <1>4 DEF GoneKeys
<1>9. \A v \in Workspace, k \in Message :
         taskIndex'[v][k] = IF v = w /\ k = m THEN n ELSE taskIndex[v][k]
  BY <1>1, <1>2
<1>10. QueuedKeys' = QueuedKeys \cup {m}
  BY <1>2, <1>9 DEF QueuedKeys, StillQueued
<1>. QED BY <1>5, <1>6, <1>7, <1>8, <1>10

\* The entry of a key names the only task of that key.
LEMMA IndexNamesTheTask ==
    ASSUME KeyInv, NEW w \in Workspace, NEW m \in Message, taskIndex[w][m] # NoSlot
    PROVE  /\ taskIndex[w][m] \in queuedTasks[w] /\ taskIndex[w][m] \in chain[w]
           /\ taskIndex[w][m] \in Slot /\ taskIndex[w][m] <= slotCounter
           /\ taskMsg[taskIndex[w][m]] = m
           /\ \A s \in Slot : s <= slotCounter /\ taskMsg[s] = m => s = taskIndex[w][m]
           /\ \A v \in Workspace : taskIndex[v][m] # NoSlot => v = w
<1>1. LaneEntries(w) /\ TypeOK /\ Minted /\ MintedKeysDiffer /\ SlotFates
  BY DEF KeyInv, CountInv
<1>2. /\ taskIndex[w][m] \in queuedTasks[w] /\ taskIndex[w][m] \in chain[w]
      /\ taskIndex[w][m] \in Slot /\ taskMsg[taskIndex[w][m]] = m
  BY <1>1 DEF LaneEntries, TypeOK
<1>3. taskIndex[w][m] <= slotCounter
  BY <1>1, <1>2 DEF Minted
<1>4. \A s \in Slot : s <= slotCounter /\ taskMsg[s] = m => s = taskIndex[w][m]
  BY <1>1, <1>2, <1>3 DEF MintedKeysDiffer
<1>5. ASSUME NEW v \in Workspace, taskIndex[v][m] # NoSlot PROVE v = w
  <2>1. LaneEntries(v)
    BY DEF KeyInv
  <2>2. /\ taskIndex[v][m] \in chain[v] /\ taskIndex[v][m] \in Slot
        /\ taskMsg[taskIndex[v][m]] = m
    BY <1>1, <1>5, <2>1 DEF LaneEntries, TypeOK
  <2>3. taskIndex[v][m] <= slotCounter
    BY <1>1, <2>2 DEF Minted
  <2>4. taskIndex[v][m] = taskIndex[w][m]
    BY <1>4, <2>2, <2>3
  <2>. QED BY <1>1, <1>2, <2>2, <2>4 DEF SlotFates
<1>. QED BY <1>2, <1>3, <1>4, <1>5

\* Tasks of one lane that leave the index: the keys of them wait no longer.
LEMMA IndexWithout ==
    ASSUME KeyInv, NEW w \in Workspace, NEW K \in SUBSET Message,
           \A m \in K : taskIndex[w][m] # NoSlot,
           \A m \in Message : taskIndex'[w][m] = IF m \in K THEN NoSlot ELSE taskIndex[w][m],
           \A v \in Workspace : v # w => taskIndex'[v] = taskIndex[v]
    PROVE  K \subseteq QueuedKeys /\ QueuedKeys' = QueuedKeys \ K
<1>1. \A m \in K : \A v \in Workspace : taskIndex[v][m] # NoSlot => v = w
  BY IndexNamesTheTask
<1>2. \A m \in K : \A v \in Workspace : taskIndex'[v][m] = NoSlot
  BY <1>1
<1>3. \A m \in Message \ K : \A v \in Workspace : taskIndex'[v][m] = taskIndex[v][m]
  OBVIOUS
<1>. QED BY <1>2, <1>3 DEF QueuedKeys, StillQueued

LEMMA BeginKeys ==
    ASSUME KeyInv, NEW w \in Workspace, NEW s \in Slot, BeginTask(w, s)
    PROVE  /\ taskMsg[s] \in QueuedKeys /\ taskIndex[w][taskMsg[s]] = s
           /\ UsedKeys' = UsedKeys
           /\ QueuedKeys' = QueuedKeys \ {taskMsg[s]}
           /\ BegunKeys' = BegunKeys \cup {taskMsg[s]} /\ GoneKeys' = GoneKeys
<1>. DEFINE m == taskMsg[s]
<1>1. TypeOK /\ Minted
  BY DEF KeyInv, CountInv
<1>2. /\ s \in chain[w] /\ s <= slotCounter /\ m \in Message
      /\ taskIndex[w][m] # NoSlot
      /\ taskIndex' = [taskIndex EXCEPT ![w][m] = NoSlot]
      /\ executed' = [executed EXCEPT ![s] = taskReplacements[w][m]]
      /\ UNCHANGED <<taskMsg, slotCounter, removed>>
  BY <1>1 DEF BeginTask, IsHead, DropEntry, Minted, taskVars
<1>. HIDE DEF m
<1>3. taskReplacements[w][m] # NotRun
  <2>1. taskReplacements[w][m] \in Version
    BY <1>1, <1>2 DEF TypeOK
  <2>. QED BY <2>1, QueueAssumption DEF Version, NotRun
<1>4. taskIndex[w][m] = s
  BY <1>2, IndexNamesTheTask DEF m
<1>5. /\ \A k \in Message :
            taskIndex'[w][k] = IF k \in {m} THEN NoSlot ELSE taskIndex[w][k]
      /\ \A v \in Workspace : v # w => taskIndex'[v] = taskIndex[v]
  BY <1>1, <1>2 DEF TypeOK
<1>6. m \in QueuedKeys /\ QueuedKeys' = QueuedKeys \ {m}
  <2>. DEFINE K == {m}
  <2>1. K \in SUBSET Message /\ \A k \in K : taskIndex[w][k] # NoSlot
    BY <1>2
  <2>. HIDE DEF K
  <2>2. K \subseteq QueuedKeys /\ QueuedKeys' = QueuedKeys \ K
    <3>1. \A k \in Message :
             taskIndex'[w][k] = IF k \in K THEN NoSlot ELSE taskIndex[w][k]
      BY <1>5 DEF K
    <3>. QED BY <1>5, <2>1, <3>1, IndexWithout
  <2>. QED BY <2>2 DEF K
<1>7. HasBegun(s)' /\ \A t \in Slot : t # s => (HasBegun(t)' <=> HasBegun(t))
  BY <1>1, <1>2, <1>3 DEF HasBegun, TypeOK
<1>8. BegunKeys' = BegunKeys \cup {m}
  BY <1>2, <1>7 DEF BegunKeys, m
<1>9. GoneKeys' = GoneKeys /\ UsedKeys' = UsedKeys
  BY <1>2 DEF GoneKeys, UsedKeys
<1>. QED BY <1>4, <1>6, <1>8, <1>9 DEF m

\* Tasks of one lane that are removed: their keys are gone.
LEMMA RemovedKeys ==
    ASSUME KeyInv, NEW w \in Workspace, NEW K \in SUBSET Message,
           \A m \in K : taskIndex[w][m] # NoSlot,
           \A m \in Message : taskIndex'[w][m] = IF m \in K THEN NoSlot ELSE taskIndex[w][m],
           \A v \in Workspace : v # w => taskIndex'[v] = taskIndex[v],
           removed' = removed \cup {taskIndex[w][m] : m \in K},
           UNCHANGED <<taskMsg, slotCounter, executed>>
    PROVE  /\ K \subseteq QueuedKeys
           /\ UsedKeys' = UsedKeys /\ BegunKeys' = BegunKeys
           /\ QueuedKeys' = QueuedKeys \ K /\ GoneKeys' = GoneKeys \cup K
<1>1. K \subseteq QueuedKeys /\ QueuedKeys' = QueuedKeys \ K
  BY IndexWithout
<1>2. UsedKeys' = UsedKeys /\ BegunKeys' = BegunKeys
  BY DEF UsedKeys, BegunKeys, HasBegun
<1>3. \A m \in K : taskIndex[w][m] \in Slot /\ taskMsg[taskIndex[w][m]] = m
  BY IndexNamesTheTask
<1>4. GoneKeys' = GoneKeys \cup K
  BY <1>3 DEF GoneKeys
<1>. QED BY <1>1, <1>2, <1>4

LEMMA SameKeys ==
    ASSUME UNCHANGED <<taskMsg, slotCounter, executed, removed, taskIndex>>
    PROVE  /\ UsedKeys' = UsedKeys /\ QueuedKeys' = QueuedKeys
           /\ BegunKeys' = BegunKeys /\ GoneKeys' = GoneKeys
BY DEF UsedKeys, QueuedKeys, BegunKeys, GoneKeys, StillQueued, HasBegun

-----------------------------------------------------------------------------
(* The queue under the handlers                                            *)

\* The closure of an edited task is the one of its last edit already.
LEMMA RefreshIsIdle ==
    ASSUME KeyInv, NEW w \in Workspace, NEW m \in Message
    PROVE  RefreshClosure(w, m) = taskReplacements[w][m]
BY DEF KeyInv, LaneEntries, RefreshClosure

\* What "run now" removes when it looks at the queue again.
Ahead(h) == TasksAhead(h.cwd, taskIndex[h.cwd][h.target])
KeysAhead(h) == {taskMsg[s] : s \in Ahead(h)}

LEMMA ImmediateRemoves ==
    ASSUME KeyInv, NEW h, NEW w \in Workspace, h.cwd = w, h.target \in Message,
           ImmediateResumes(h)
    PROVE  /\ KeysAhead(h) \in SUBSET Message /\ h.target \notin KeysAhead(h)
           /\ Ahead(h) \subseteq queuedTasks[w]
           /\ \A s \in queuedTasks[w] : taskMsg[s] \in KeysAhead(h) <=> s \in Ahead(h)
           /\ \A m \in KeysAhead(h) : taskIndex[w][m] # NoSlot
           /\ Ahead(h) = {taskIndex[w][m] : m \in KeysAhead(h)}
           /\ \A m \in Message :
                 /\ taskIndex'[w][m]
                       = IF m \in KeysAhead(h) THEN NoSlot ELSE taskIndex[w][m]
                 /\ taskReplacements'[w][m]
                       = IF m \in KeysAhead(h) THEN 0 ELSE taskReplacements[w][m]
           /\ removed' = removed \cup Ahead(h)
           /\ queuedTasks'[w] = queuedTasks[w] \ Ahead(h)
           /\ \A v \in Workspace : v # w => /\ queuedTasks'[v] = queuedTasks[v]
                                            /\ taskIndex'[v] = taskIndex[v]
                                            /\ taskReplacements'[v] = taskReplacements[v]
           /\ TypeOK'
<1>. DEFINE target == taskIndex[w][h.target]
            ahead == TasksAhead(w, target)
            gone == {taskMsg[s] : s \in ahead}
<1>d. ahead = Ahead(h) /\ gone = KeysAhead(h)
  BY DEF Ahead, KeysAhead
<1>1. LaneEntries(w) /\ TypeOK /\ Minted
  BY DEF KeyInv, CountInv
<1>2. \A s \in queuedTasks[w] :
         s \in Slot /\ taskMsg[s] \in Message /\ taskIndex[w][taskMsg[s]] = s
  BY <1>1 DEF LaneEntries, TypeOK, Minted
<1>3. ahead \subseteq queuedTasks[w] /\ target \notin ahead
  <2>1. target \in Slot \cup {NoSlot}
    BY <1>1 DEF TypeOK
  <2>. QED BY <1>2, <2>1 DEF TasksAhead, Slot
<1>4. /\ removed' = removed \cup ahead
      /\ queuedTasks' = [queuedTasks EXCEPT ![w] = @ \ ahead]
      /\ taskIndex' = [taskIndex EXCEPT
           ![w] = [m \in Message |-> IF m \in gone THEN NoSlot ELSE @[m]]]
      /\ taskReplacements' = [taskReplacements EXCEPT
           ![w] = [m \in Message |-> IF m \in gone THEN 0
                                     ELSE IF m = h.target THEN RefreshClosure(w, m)
                                     ELSE @[m]]]
      /\ UNCHANGED <<taskVars, chainVars, edited, countVars>>
  BY DEF ImmediateResumes
<1>g. gone = {taskMsg[s] : s \in ahead}
  OBVIOUS
<1>. HIDE DEF ahead, gone
<1>5. /\ gone \in SUBSET Message
      /\ \A s \in queuedTasks[w] : taskMsg[s] \in gone <=> s \in ahead
      /\ \A m \in gone : taskIndex[w][m] # NoSlot
      /\ ahead = {taskIndex[w][m] : m \in gone}
  <2>1. gone = {taskMsg[s] : s \in ahead}
    BY <1>g
  <2>2. gone \in SUBSET Message
    BY <1>2, <1>3, <2>1
  <2>3. ASSUME NEW s \in queuedTasks[w] PROVE taskMsg[s] \in gone <=> s \in ahead
    <3>1. ASSUME taskMsg[s] \in gone PROVE s \in ahead
      <4>1. PICK t \in ahead : taskMsg[t] = taskMsg[s]
        BY <2>1, <3>1
      <4>. QED BY <1>2, <1>3, <4>1
    <3>. QED BY <2>1, <3>1
  <2>4. \A m \in gone : taskIndex[w][m] # NoSlot /\ taskIndex[w][m] \in ahead
    <3>1. \A s \in ahead : taskIndex[w][taskMsg[s]] = s /\ s # NoSlot
      BY <1>2, <1>3 DEF Slot
    <3>. QED BY <2>1, <3>1
  <2>5. ahead = {taskIndex[w][m] : m \in gone}
    <3>1. \A s \in ahead : taskIndex[w][taskMsg[s]] = s
      BY <1>2, <1>3
    <3>. QED BY <2>1, <3>1
  <2>. QED BY <2>2, <2>3, <2>4, <2>5
<1>6. h.target \notin gone
  <2>1. h.target \in gone => target \in ahead
    BY <1>5
  <2>. QED BY <1>3, <2>1
<1>7. \A m \in Message :
         /\ taskIndex'[w][m] = IF m \in gone THEN NoSlot ELSE taskIndex[w][m]
         /\ taskReplacements'[w][m] = IF m \in gone THEN 0 ELSE taskReplacements[w][m]
  BY <1>1, <1>4, RefreshIsIdle DEF TypeOK
<1>8. /\ queuedTasks'[w] = queuedTasks[w] \ ahead
      /\ \A v \in Workspace : v # w => /\ queuedTasks'[v] = queuedTasks[v]
                                       /\ taskIndex'[v] = taskIndex[v]
                                       /\ taskReplacements'[v] = taskReplacements[v]
  BY <1>1, <1>4 DEF TypeOK
<1>9. TypeOK'
  <2>1. queuedTasks' \in [Workspace -> SUBSET Slot] /\ removed' \subseteq Slot
    BY <1>1, <1>2, <1>3, <1>4 DEF TypeOK
  <2>2. taskIndex' \in [Workspace -> [Message -> Slot \cup {NoSlot}]]
    <3>1. [m \in Message |-> IF m \in gone THEN NoSlot ELSE taskIndex[w][m]]
             \in [Message -> Slot \cup {NoSlot}]
      BY <1>1 DEF TypeOK
    <3>. QED BY <1>1, <1>4, <3>1 DEF TypeOK
  <2>3. taskReplacements' \in [Workspace -> [Message -> Version]]
    <3>1. 0 \in Version
      BY QueueAssumption DEF Version
    <3>2. [m \in Message |-> IF m \in gone THEN 0
                             ELSE IF m = h.target THEN RefreshClosure(w, m)
                             ELSE taskReplacements[w][m]]
             \in [Message -> Version]
      BY <1>1, <3>1, RefreshIsIdle DEF TypeOK
    <3>. QED BY <1>1, <1>4, <3>2 DEF TypeOK
  <2>. QED
    BY <1>1, <1>4, <2>1, <2>2, <2>3 DEF TypeOK, taskVars, chainVars, countVars
<1>. QED BY <1>3, <1>4, <1>5, <1>6, <1>7, <1>8, <1>9, <1>d

LEMMA ImmediateKeepsKeys ==
    ASSUME KeyInv, NEW h, NEW w \in Workspace, h.cwd = w, h.target \in Message,
           ImmediateResumes(h)
    PROVE  KeyInv'
<1>. DEFINE ahead == Ahead(h)
            gone == KeysAhead(h)
<1>i. /\ CountInv /\ TypeOK /\ Minted /\ MintedKeysDiffer /\ SlotFates
      /\ \A v \in Workspace : LaneEntries(v) /\ LaneCount(v)
  BY DEF KeyInv, CountInv
<1>u. UNCHANGED <<slotCounter, taskMsg, chain, phase, executed, beganMessageIds, edited,
                  pendingOrExecutingCount, executingSlot, interruptedSlots, stopped>>
  BY DEF ImmediateResumes, taskVars, chainVars, countVars
<1>g. /\ gone \in SUBSET Message
      /\ \A s \in queuedTasks[w] : taskMsg[s] \in gone <=> s \in ahead
      /\ \A m \in Message :
            /\ taskIndex'[w][m] = IF m \in gone THEN NoSlot ELSE taskIndex[w][m]
            /\ taskReplacements'[w][m]
                  = IF m \in gone THEN 0 ELSE taskReplacements[w][m]
      /\ removed' = removed \cup ahead
      /\ queuedTasks'[w] = queuedTasks[w] \ ahead
      /\ \A v \in Workspace : v # w => /\ queuedTasks'[v] = queuedTasks[v]
                                       /\ taskIndex'[v] = taskIndex[v]
                                       /\ taskReplacements'[v] = taskReplacements[v]
      /\ TypeOK'
  BY ImmediateRemoves
<1>a. ahead \subseteq queuedTasks[w]
  BY ImmediateRemoves
<1>. HIDE DEF ahead, gone
<1>1. CountInv'
  <2>1. Minted' /\ \A v \in Workspace : LaneCount(v)'
    BY <1>i, <1>u DEF Minted, LaneCount, IsHead
  <2>. QED BY <1>g, <2>1 DEF CountInv
<1>2. MintedKeysDiffer'
  BY <1>i, <1>u DEF MintedKeysDiffer
<1>3. \A s \in ahead : s \in Slot /\ s \in chain[w] /\ s <= slotCounter /\ ~HasBegun(s)
  BY <1>a, <1>i DEF LaneEntries, Minted, TypeOK
<1>4. SlotFates'
  BY <1>g, <1>i, <1>u, <1>3 DEF SlotFates, HasBegun
<1>5. \A v \in Workspace : v # w => LaneEntries(v)'
  <2>. SUFFICES ASSUME NEW v \in Workspace, v # w PROVE LaneEntries(v)'
    OBVIOUS
  <2>1. \A s \in chain[v] : s \notin ahead
    BY <1>3, <1>a, <1>i DEF SlotFates
  <2>2. \A s \in queuedTasks[v] : s \notin ahead
    BY <1>i, <2>1 DEF LaneEntries
  <2>3. /\ queuedTasks'[v] = queuedTasks[v] /\ taskIndex'[v] = taskIndex[v]
        /\ taskReplacements'[v] = taskReplacements[v]
        /\ removed \subseteq removed' /\ removed' = removed \cup ahead
    BY <1>g
  <2>4. LaneEntries(v)
    BY <1>i
  <2>. QED BY <1>u, <2>1, <2>2, <2>3, <2>4 DEF LaneEntries, HasBegun, IsHead
<1>6. LaneEntries(w)'
  <2>1. LaneEntries(w)
    BY <1>a, <1>i
  <2>2. queuedTasks'[w] \subseteq chain'[w]
    BY <1>g, <1>u, <2>1 DEF LaneEntries
  <2>3. ASSUME NEW s \in queuedTasks'[w]
        PROVE  taskIndex'[w][taskMsg[s]] = s /\ s \notin removed' /\ ~HasBegun(s)
    <3>1. s \in queuedTasks[w] /\ s \notin ahead /\ taskMsg[s] \notin gone
      BY <1>g, <2>3
    <3>2. taskMsg[s] \in Message
      BY <1>a, <1>i, <2>1, <3>1 DEF LaneEntries, Minted, TypeOK
    <3>. QED BY <1>g, <2>1, <3>1, <3>2 DEF LaneEntries
  <2>4. ASSUME NEW m \in Message, taskIndex'[w][m] # NoSlot
        PROVE  taskIndex'[w][m] \in queuedTasks'[w] /\ taskMsg[taskIndex'[w][m]] = m
    <3>1. m \notin gone /\ taskIndex'[w][m] = taskIndex[w][m]
      BY <1>g, <2>4
    <3>2. taskIndex[w][m] \in queuedTasks[w] /\ taskMsg[taskIndex[w][m]] = m
      BY <2>1, <2>4, <3>1 DEF LaneEntries
    <3>. QED BY <1>g, <3>1, <3>2
  <2>5. \A s \in chain[w] : s \in queuedTasks'[w] \/ s \in removed' \/ HasBegun(s)
    BY <1>g, <2>1 DEF LaneEntries
  <2>6. \A m \in Message : taskReplacements'[w][m] =
           IF taskIndex'[w][m] = NoSlot THEN 0 ELSE edited[taskIndex'[w][m]]
    BY <1>g, <2>1 DEF LaneEntries
  <2>. QED
    BY <1>g, <1>u, <2>1, <2>2, <2>3, <2>4, <2>5, <2>6 DEF LaneEntries, HasBegun, IsHead
<1>. QED BY <1>1, <1>2, <1>4, <1>5, <1>6 DEF KeyInv

\* The handlers in flight, and the slots they have captured.
HandlersInv ==
    /\ handlers \subseteq Handler
    /\ \A h \in handlers : h.step = "stopped" => h.target \in Message
    /\ \A h \in handlers : h.slot # NoSlot => HasBegun(h.slot)
    /\ \A h \in handlers : h.run # NoSlot => h.slot = h.run

\* The active run of a workspace is the task its queue counts as executing.
EntryIsExecuting ==
    \A w \in Workspace : activeRun[w] # NoSlot =>
       /\ activeRun[w] = executingSlot[w]
       /\ run[activeRun[w]] # "over"

\* Whatever the handlers do to the queue keeps its invariant.
LEMMA KeysUnderCards ==
    ASSUME KeyInv, HandlersInv, RepeatedKey = {}, [CardsNext]_vars
    PROVE  /\ KeyInv'
           /\ \/ [QueueNext]_queueVars
              \/ \E h \in handlers : ImmediateResumes(h)
<1>q. [QueueNext]_queueVars => KeyInv'
  BY KeyNext
<1>1. ASSUME NEW w \in Workspace, NEW m \in Message,
             \/ EnqueueWithCard(w, m) \/ QueueCancel(w, m) \/ QueueInput(w, m)
      PROVE  QueueNext
  <2>1. Enqueue(w, m) \/ RemoveFromQueue(w, m) \/ EditQueuedTask(w, m)
    BY <1>1 DEF EnqueueWithCard, QueueCancel, QueueInput
  <2>. QED BY <2>1 DEF QueueNext
<1>2. ASSUME NEW w \in Workspace, NEW s \in Slot,
             BeginWithCard(w, s) \/ SettleAfterBody(w, s) \/ SkipTask(w, s)
      PROVE  QueueNext
  <2>1. BeginTask(w, s) \/ Settle(w, s) \/ SkipTask(w, s)
    BY <1>2 DEF BeginWithCard, SettleAfterBody
  <2>. QED BY <2>1 DEF QueueNext
<1>3. ASSUME NEW w \in Workspace, NEW m \in Message, QueueImmediate(w, m)
      PROVE  UNCHANGED queueVars
  <2>1. taskReplacements' = [taskReplacements EXCEPT ![w][m] = taskReplacements[w][m]]
    BY <1>3, RefreshIsIdle DEF QueueImmediate
  <2>2. taskReplacements' = taskReplacements
    BY <2>1 DEF KeyInv, CountInv, TypeOK
  <2>. QED BY <1>3, <2>2 DEF QueueImmediate, queueVars, editVars
<1>6. ASSUME NEW u \in updates, UpdateResumes(u) \/ PatchLands(u) \/ PatchFails(u)
      PROVE  UNCHANGED queueVars
  BY <1>6 DEF UpdateResumes, PatchLands, PatchFails
<1>7. ASSUME NEW h \in handlers, InterruptReturns(h)
      PROVE  [QueueNext]_queueVars
  <2>1. h.cwd \in Workspace /\ h.slot \in Slot \cup {NoSlot}
    BY DEF HandlersInv, Handler
  <2>2. CASE h.slot = NoSlot
    BY <1>7, <2>2 DEF InterruptReturns
  <2>3. CASE h.slot # NoSlot
    <3>1. HasBegun(h.slot) /\ ResetExecutingCount(h.cwd, h.slot)
      BY <1>7, <2>3 DEF InterruptReturns, HandlersInv
    <3>. QED BY <2>1, <2>3, <3>1 DEF QueueNext
  <2>. QED BY <2>2, <2>3
<1>8. ASSUME NEW h \in handlers, ImmediateResumes(h) PROVE KeyInv'
  <2>1. h.cwd \in Workspace /\ h.target \in Message
    BY <1>8 DEF HandlersInv, Handler, ImmediateResumes
  <2>. QED BY <1>8, <2>1, ImmediateKeepsKeys
<1>9. CASE UNCHANGED vars
  BY <1>9, <1>q DEF vars
<1>10. [QueueNext]_queueVars \/ \E h \in handlers : ImmediateResumes(h)
  <2>1. CASE \E w \in Workspace : Stop(w)
    BY <2>1 DEF Stop
  <2>2. CASE \E s \in Slot : RunEnds(s)
    BY <2>2 DEF RunEnds
  <2>3. CASE \E w \in Workspace, s \in Slot : RunFinalized(w, s)
    BY <2>3 DEF RunFinalized
  <2>4. CASE \E w \in Workspace, m \in Message : QueueEdit(w, m)
    BY <2>4 DEF QueueEdit
  <2>5. CASE \E m \in Message : CardSent(m) \/ SendFailed(m)
    BY <2>5 DEF CardSent, SendFailed
  <2>. QED
    BY <1>1, <1>2, <1>3, <1>6, <1>7, <1>9, <2>1, <2>2, <2>3, <2>4, <2>5
       DEF CardsNext, vars
<1>. QED BY <1>8, <1>10, <1>q

-----------------------------------------------------------------------------
(* The invariant of the cards                                              *)

CardType ==
    /\ run \in [Slot -> {"none", "live", "ended", "over"}]
    /\ activeRun \in [Workspace -> Slot \cup {NoSlot}]
    /\ cardSend \in [Message -> {"none", "sending", "sent", "failed"}]
    /\ cardShown \in [Message -> {"none", "queued", "executing", "cancelled", "editing"}]
    /\ queueCardMessages \subseteq Message /\ updates \subseteq Update
    /\ marked \subseteq Message /\ blurred \subseteq Message

\* The send of the card has not failed.
CardMade(m) == cardSend[m] \in {"sending", "sent"}

\* A key has no card before it is in use, a card shows nothing before it is
\* sent, and nobody maps or patches a card that failed.
CardsAreMade ==
    /\ \A m \in Message : m \notin UsedKeys => cardSend[m] = "none" /\ m \notin marked
    /\ \A m \in Message : cardShown[m] # "none" => cardSend[m] = "sent"
    /\ \A m \in queueCardMessages : CardMade(m)
    /\ \A u \in updates : CardMade(u.msg) /\ (u.step = "patching" => cardSend[u.msg] = "sent")

\* What is on its way to a card is true of its task, or was promised.
UpdatesAreTrue ==
    \A u \in updates :
       /\ u.as = "executing" => u.msg \in BegunKeys \/ (~u.started /\ u.msg \in marked)
       /\ u.as = "cancelled" => u.msg \in GoneKeys
       /\ u.as \in {"editing", "queued"} => u.msg \in blurred

\* A waiting task whose card is not mapped was promised, and the card says so.
UnmappedIsPromised ==
    \A m \in QueuedKeys \ blurred : CardMade(m) /\ m \notin queueCardMessages =>
       m \in marked /\ cardSend[m] = "sent" /\ cardShown[m] = "executing"

\* The card of a task that has begun says so, or a patch that will is on its way.
BegunIsTold ==
    \A m \in BegunKeys \ blurred : CardMade(m) =>
       \/ cardSend[m] = "sent" /\ cardShown[m] = "executing"
       \/ \E u \in updates : /\ u.msg = m /\ u.as = "executing"
                             /\ (u.started \/ u.step = "patching")

GoneIsTold ==
    \A m \in GoneKeys \ (blurred \cup marked) : CardMade(m) =>
       \/ cardSend[m] = "sent" /\ cardShown[m] = "cancelled"
       \/ \E u \in updates : u.msg = m /\ u.as = "cancelled"

\* The run that lives in a lane and was not stopped is the active one of its workspace.
LiveIsActive ==
    /\ \A s \in Slot : run[s] = "live" => HasBegun(s)
    /\ \A w \in Workspace : \A t \in chain[w] :
          run[t] = "live" /\ t \notin stopped => activeRun[w] = t

\* NoCardForgotten, in terms of the keys.
NoneForgotten ==
    \A m \in queueCardMessages : m \in QueuedKeys
       \/ \E u \in updates : u.msg = m /\ u.as \in {"executing", "cancelled"}

CardsTell ==
    /\ CardType /\ CardsAreMade /\ UpdatesAreTrue
    /\ UnmappedIsPromised /\ BegunIsTold /\ GoneIsTold /\ NoneForgotten

LEMMA CalledUpdates ==
    ASSUME CardType, NEW M \in SUBSET Message, NEW started \in BOOLEAN,
           NEW as \in {"executing", "cancelled", "editing", "queued"}
    PROVE  /\ Called(M, as, started) \subseteq Update
           /\ \A u \in Called(M, as, started) :
                 /\ u.msg \in M \cap queueCardMessages /\ u.as = as
                 /\ u.started = started /\ u.step = "awaiting"
           /\ \A m \in M \cap queueCardMessages :
                 \E u \in Called(M, as, started) :
                    u.msg = m /\ u.as = as /\ u.started = started
<1>1. \A m \in M : [msg |-> m, as |-> as, started |-> started, step |-> "awaiting"]
                      \in Update
  BY DEF Update
<1>2. ASSUME NEW m \in M \cap queueCardMessages
      PROVE  \E u \in Called(M, as, started) :
                u.msg = m /\ u.as = as /\ u.started = started
  <2>. DEFINE u == [msg |-> m, as |-> as, started |-> started, step |-> "awaiting"]
  <2>1. u \in Called(M, as, started)
    BY DEF Called
  <2>2. u.msg = m /\ u.as = as /\ u.started = started
    OBVIOUS
  <2>. QED BY <2>1, <2>2
<1>3. ASSUME NEW u \in Called(M, as, started)
      PROVE  /\ u \in Update /\ u.msg \in M \cap queueCardMessages /\ u.as = as
             /\ u.started = started /\ u.step = "awaiting"
  <2>1. PICK m \in M \cap queueCardMessages :
           u = [msg |-> m, as |-> as, started |-> started, step |-> "awaiting"]
    BY <1>3 DEF Called
  <2>. QED BY <1>1, <2>1
<1>. QED BY <1>2, <1>3

\* Steps of the queue and of its runs that no card hears of.
LEMMA CardsAtRest ==
    ASSUME CardsTell, UNCHANGED cardVars,
           run' \in [Slot -> {"none", "live", "ended", "over"}],
           activeRun' \in [Workspace -> Slot \cup {NoSlot}],
           UsedKeys' = UsedKeys, QueuedKeys' = QueuedKeys,
           BegunKeys' = BegunKeys, GoneKeys' = GoneKeys
    PROVE  CardsTell'
BY DEF CardsTell, cardVars, CardType, CardsAreMade, CardMade, UpdatesAreTrue,
       UnmappedIsPromised, BegunIsTold, GoneIsTold, NoneForgotten

LEMMA CardsWhenQueued ==
    ASSUME CardsTell, NEW w \in Workspace, NEW m \in Message, EnqueueWithCard(w, m),
           m \notin UsedKeys, UsedKeys' = UsedKeys \cup {m},
           QueuedKeys' = QueuedKeys \cup {m}, BegunKeys' = BegunKeys, GoneKeys' = GoneKeys,
           BegunKeys \cup GoneKeys \subseteq UsedKeys
    PROVE  CardsTell'
<1>1. /\ UNCHANGED <<run, activeRun, updates, cardShown, marked, blurred>>
      /\ \/ UNCHANGED <<cardSend, queueCardMessages>>
         \/ /\ cardSend' = [cardSend EXCEPT ![m] = "sending"]
            /\ queueCardMessages' = queueCardMessages \cup {m}
  BY DEF EnqueueWithCard, SendQueueStatusCard, runVars
<1>2. cardSend[m] = "none" /\ m \notin queueCardMessages /\ cardShown[m] = "none"
  BY DEF CardsTell, CardType, CardsAreMade, CardMade
<1>3. CardType'
  BY <1>1 DEF CardsTell, CardType
<1>4. /\ \A k \in Message : k # m => cardSend'[k] = cardSend[k]
      /\ cardSend'[m] \in {"none", "sending"}
      /\ m \in queueCardMessages' <=> cardSend'[m] = "sending"
      /\ \A k \in Message : k # m => (k \in queueCardMessages' <=> k \in queueCardMessages)
  BY <1>1, <1>2 DEF CardsTell, CardType
<1>5. CardsAreMade'
  <2>1. \A u \in updates : u.msg \in Message /\ u.msg # m
    BY <1>2 DEF CardsTell, CardsAreMade, CardMade, CardType, Update
  <2>. QED BY <1>1, <1>2, <1>3, <1>4, <2>1 DEF CardsTell, CardType, CardsAreMade, CardMade
<1>6. UpdatesAreTrue'
  BY <1>1 DEF CardsTell, UpdatesAreTrue
<1>7. UnmappedIsPromised'
  BY <1>1, <1>2, <1>4 DEF CardsTell, CardType, UnmappedIsPromised, CardMade, QueuedKeys
<1>8. BegunIsTold'
  BY <1>1, <1>4 DEF CardsTell, BegunIsTold, CardMade, BegunKeys
<1>9. GoneIsTold'
  BY <1>1, <1>4 DEF CardsTell, GoneIsTold, CardMade, GoneKeys
<1>10. NoneForgotten'
  BY <1>1, <1>3, <1>4 DEF CardsTell, CardType, NoneForgotten
<1>. QED BY <1>3, <1>5, <1>6, <1>7, <1>8, <1>9, <1>10 DEF CardsTell

LEMMA CardsWhenBegun ==
    ASSUME CardsTell, NEW m \in QueuedKeys, m \in Message,
           UNCHANGED <<cardSend, queueCardMessages, cardShown, marked, blurred>>,
           updates' = updates \cup Called({m}, "executing", TRUE),
           run' \in [Slot -> {"none", "live", "ended", "over"}],
           activeRun' \in [Workspace -> Slot \cup {NoSlot}],
           UsedKeys' = UsedKeys, QueuedKeys' = QueuedKeys \ {m},
           BegunKeys' = BegunKeys \cup {m}, GoneKeys' = GoneKeys
    PROVE  CardsTell'
<1>. DEFINE new == Called({m}, "executing", TRUE)
<1>1. /\ new \subseteq Update
      /\ \A u \in new : /\ u.msg = m /\ m \in queueCardMessages /\ u.as = "executing"
                        /\ u.started = TRUE /\ u.step = "awaiting"
      /\ m \in queueCardMessages =>
            \E u \in new : u.msg = m /\ u.as = "executing" /\ u.started = TRUE
  <2>. DEFINE M == {m}
  <2>1. M \in SUBSET Message /\ CardType
    BY DEF CardsTell
  <2>. HIDE DEF M
  <2>2. /\ Called(M, "executing", TRUE) \subseteq Update
        /\ \A u \in Called(M, "executing", TRUE) :
              /\ u.msg \in M \cap queueCardMessages /\ u.as = "executing"
              /\ u.started = TRUE /\ u.step = "awaiting"
        /\ \A k \in M \cap queueCardMessages :
              \E u \in Called(M, "executing", TRUE) :
                 u.msg = k /\ u.as = "executing" /\ u.started = TRUE
    BY <2>1, CalledUpdates
  <2>. QED BY <2>2 DEF M
<1>2. updates' = updates \cup new
  OBVIOUS
<1>. HIDE DEF new
<1>3. CardType'
  BY <1>1, <1>2 DEF CardsTell, CardType
<1>4. CardsAreMade'
  BY <1>1, <1>2 DEF CardsTell, CardsAreMade, CardMade
<1>5. UpdatesAreTrue'
  BY <1>1, <1>2 DEF CardsTell, UpdatesAreTrue
<1>6. UnmappedIsPromised'
  BY DEF CardsTell, UnmappedIsPromised, CardMade
<1>7. BegunIsTold'
  <2>. SUFFICES ASSUME NEW k \in BegunKeys', k \notin blurred, CardMade(k)
                PROVE  \/ cardSend[k] = "sent" /\ cardShown[k] = "executing"
                       \/ \E u \in updates' : /\ u.msg = k /\ u.as = "executing"
                                              /\ (u.started \/ u.step = "patching")
    BY DEF BegunIsTold, CardMade
  <2>1. CASE k = m /\ m \in queueCardMessages
    BY <1>1, <1>2, <2>1
  <2>2. CASE k = m /\ m \notin queueCardMessages
    BY <2>2 DEF CardsTell, UnmappedIsPromised
  <2>3. CASE k # m
    <3>1. k \in BegunKeys \ blurred
      BY <2>3
    <3>2. \/ cardSend[k] = "sent" /\ cardShown[k] = "executing"
          \/ \E u \in updates : /\ u.msg = k /\ u.as = "executing"
                               /\ (u.started \/ u.step = "patching")
      BY <3>1 DEF CardsTell, BegunIsTold
    <3>. QED BY <1>2, <3>2
  <2>. QED BY <2>1, <2>2, <2>3
<1>8. GoneIsTold'
  <2>1. \A k \in GoneKeys \ (blurred \cup marked) : CardMade(k) =>
           \/ cardSend[k] = "sent" /\ cardShown[k] = "cancelled"
           \/ \E u \in updates' : u.msg = k /\ u.as = "cancelled"
    BY <1>2 DEF CardsTell, GoneIsTold
  <2>. QED BY <2>1 DEF GoneIsTold, CardMade
<1>9. NoneForgotten'
  <2>1. \A k \in queueCardMessages : k = m \/
           k \in QueuedKeys' \/ \E u \in updates' : u.msg = k /\ u.as \in {"executing", "cancelled"}
    BY <1>2 DEF CardsTell, NoneForgotten
  <2>. QED BY <1>1, <1>2, <2>1 DEF NoneForgotten
<1>. QED BY <1>3, <1>4, <1>5, <1>6, <1>7, <1>8, <1>9 DEF CardsTell

\* A cancel, or a "run now" that removes K and promises N.
LEMMA CardsWhenRemoved ==
    ASSUME CardsTell, NEW K \in SUBSET Message, NEW N \in SUBSET Message,
           K \subseteq QueuedKeys, N \subseteq UsedKeys,
           UNCHANGED <<run, activeRun, cardSend, queueCardMessages, cardShown, blurred>>,
           updates' = updates \cup Called(K, "cancelled", FALSE)
                              \cup Called(N, "executing", FALSE),
           marked' = marked \cup N,
           UsedKeys' = UsedKeys, QueuedKeys' = QueuedKeys \ K,
           BegunKeys' = BegunKeys, GoneKeys' = GoneKeys \cup K
    PROVE  CardsTell'
<1>. DEFINE cancels == Called(K, "cancelled", FALSE)
            promises == Called(N, "executing", FALSE)
<1>t. CardType
  BY DEF CardsTell
<1>1. /\ cancels \subseteq Update
      /\ \A u \in cancels : /\ u.msg \in K \cap queueCardMessages /\ u.as = "cancelled"
                            /\ u.started = FALSE /\ u.step = "awaiting"
      /\ \A m \in K \cap queueCardMessages :
            \E u \in cancels : u.msg = m /\ u.as = "cancelled" /\ u.started = FALSE
  BY <1>t, CalledUpdates
<1>2. /\ promises \subseteq Update
      /\ \A u \in promises : /\ u.msg \in N \cap queueCardMessages /\ u.as = "executing"
                             /\ u.started = FALSE /\ u.step = "awaiting"
  BY <1>t, CalledUpdates
<1>3. updates' = updates \cup cancels \cup promises
  OBVIOUS
<1>. HIDE DEF cancels, promises
<1>4. CardType'
  BY <1>1, <1>2, <1>3, <1>t DEF CardType
<1>5. CardsAreMade'
  BY <1>1, <1>2, <1>3 DEF CardsTell, CardsAreMade, CardMade
<1>6. UpdatesAreTrue'
  <2>. SUFFICES ASSUME NEW u \in updates'
                PROVE  /\ u.as = "executing" =>
                             u.msg \in BegunKeys \/ (~u.started /\ u.msg \in marked')
                       /\ u.as = "cancelled" => u.msg \in GoneKeys'
                       /\ u.as \in {"editing", "queued"} => u.msg \in blurred
    BY DEF UpdatesAreTrue
  <2>1. CASE u \in updates
    BY <2>1 DEF CardsTell, UpdatesAreTrue
  <2>2. CASE u \in cancels
    BY <1>1, <2>2
  <2>3. CASE u \in promises
    BY <1>2, <2>3
  <2>. QED BY <1>3, <2>1, <2>2, <2>3
<1>7. UnmappedIsPromised'
  <2>1. \A m \in QueuedKeys \ blurred : CardMade(m) /\ m \notin queueCardMessages =>
           m \in marked' /\ cardSend[m] = "sent" /\ cardShown[m] = "executing"
    BY DEF CardsTell, UnmappedIsPromised
  <2>. QED BY <2>1 DEF UnmappedIsPromised, CardMade
<1>8. BegunIsTold'
  <2>1. ASSUME NEW m \in BegunKeys \ blurred, CardMade(m)
        PROVE  \/ cardSend[m] = "sent" /\ cardShown[m] = "executing"
               \/ \E u \in updates' : /\ u.msg = m /\ u.as = "executing"
                                      /\ (u.started \/ u.step = "patching")
    <3>1. \/ cardSend[m] = "sent" /\ cardShown[m] = "executing"
          \/ \E u \in updates : /\ u.msg = m /\ u.as = "executing"
                               /\ (u.started \/ u.step = "patching")
      BY <2>1 DEF CardsTell, BegunIsTold
    <3>. QED BY <1>3, <3>1
  <2>. QED BY <2>1 DEF BegunIsTold, CardMade
<1>9. GoneIsTold'
  <2>. SUFFICES ASSUME NEW m \in GoneKeys', m \notin blurred, m \notin marked', CardMade(m)
                PROVE  \/ cardSend[m] = "sent" /\ cardShown[m] = "cancelled"
                       \/ \E u \in updates' : u.msg = m /\ u.as = "cancelled"
    BY DEF GoneIsTold, CardMade
  <2>1. CASE m \in K
    <3>1. m \in queueCardMessages
      BY <2>1 DEF CardsTell, UnmappedIsPromised
    <3>. QED BY <1>1, <1>3, <2>1, <3>1
  <2>2. CASE m \notin K
    <3>1. \/ cardSend[m] = "sent" /\ cardShown[m] = "cancelled"
          \/ \E u \in updates : u.msg = m /\ u.as = "cancelled"
      BY <2>2 DEF CardsTell, GoneIsTold
    <3>. QED BY <1>3, <3>1
  <2>. QED BY <2>1, <2>2
<1>10. NoneForgotten'
  <2>1. \A m \in queueCardMessages : m \in K \/ m \in QueuedKeys'
           \/ \E u \in updates' : u.msg = m /\ u.as \in {"executing", "cancelled"}
    BY <1>3 DEF CardsTell, NoneForgotten
  <2>. QED BY <1>1, <1>3, <2>1 DEF NoneForgotten
<1>. QED BY <1>4, <1>5, <1>6, <1>7, <1>8, <1>9, <1>10 DEF CardsTell

\* The edit form and the card that is drawn again after an edit.
LEMMA CardsWhenRedrawn ==
    ASSUME CardsTell, NEW m \in Message, cardShown[m] # "none",
           NEW as \in {"editing", "queued"}, ShowOnCard(m, as),
           UNCHANGED <<run, activeRun, cardSend, queueCardMessages, cardShown, marked>>,
           UsedKeys' = UsedKeys, QueuedKeys' = QueuedKeys,
           BegunKeys' = BegunKeys, GoneKeys' = GoneKeys
    PROVE  CardsTell'
<1>. DEFINE new == [msg |-> m, as |-> as, started |-> FALSE, step |-> "patching"]
<1>1. /\ new \in Update /\ new.msg = m /\ new.as = as
      /\ updates' = updates \cup {new} /\ blurred' = blurred \cup {m}
  BY DEF Update, ShowOnCard
<1>2. cardSend[m] = "sent"
  BY DEF CardsTell, CardsAreMade
<1>. HIDE DEF new
<1>3. CardType'
  BY <1>1 DEF CardsTell, CardType
<1>4. CardsAreMade'
  BY <1>1, <1>2 DEF CardsTell, CardsAreMade, CardMade
<1>5. UpdatesAreTrue'
  <2>. SUFFICES ASSUME NEW u \in updates'
                PROVE  /\ u.as = "executing" =>
                             u.msg \in BegunKeys \/ (~u.started /\ u.msg \in marked)
                       /\ u.as = "cancelled" => u.msg \in GoneKeys
                       /\ u.as \in {"editing", "queued"} => u.msg \in blurred'
    BY DEF UpdatesAreTrue
  <2>1. CASE u \in updates
    BY <1>1, <2>1 DEF CardsTell, UpdatesAreTrue
  <2>2. CASE u = new
    BY <1>1, <2>2
  <2>. QED BY <1>1, <2>1, <2>2
<1>6. UnmappedIsPromised'
  BY <1>1 DEF CardsTell, UnmappedIsPromised, CardMade
<1>7. BegunIsTold'
  <2>1. \A k \in BegunKeys \ blurred' : CardMade(k) =>
           \/ cardSend[k] = "sent" /\ cardShown[k] = "executing"
           \/ \E u \in updates' : /\ u.msg = k /\ u.as = "executing"
                                  /\ (u.started \/ u.step = "patching")
    BY <1>1 DEF CardsTell, BegunIsTold
  <2>. QED BY <2>1 DEF BegunIsTold, CardMade
<1>8. GoneIsTold'
  <2>1. \A k \in GoneKeys \ (blurred' \cup marked) : CardMade(k) =>
           \/ cardSend[k] = "sent" /\ cardShown[k] = "cancelled"
           \/ \E u \in updates' : u.msg = k /\ u.as = "cancelled"
    BY <1>1 DEF CardsTell, GoneIsTold
  <2>. QED BY <2>1 DEF GoneIsTold, CardMade
<1>9. NoneForgotten'
  BY <1>1 DEF CardsTell, NoneForgotten
<1>. QED BY <1>3, <1>4, <1>5, <1>6, <1>7, <1>8, <1>9 DEF CardsTell

LEMMA CardsWhenSent ==
    ASSUME CardsTell, NEW m \in Message, CardSent(m),
           UsedKeys' = UsedKeys, QueuedKeys' = QueuedKeys,
           BegunKeys' = BegunKeys, GoneKeys' = GoneKeys
    PROVE  CardsTell'
<1>t. CardType
  BY DEF CardsTell
<1>1. /\ cardSend[m] = "sending" /\ cardShown[m] = "none"
      /\ cardSend'[m] = "sent" /\ cardShown'[m] = "queued"
      /\ \A k \in Message : k # m => cardSend'[k] = cardSend[k] /\ cardShown'[k] = cardShown[k]
      /\ UNCHANGED <<run, activeRun, queueCardMessages, updates, marked, blurred>>
  BY <1>t DEF CardSent, CardsTell, CardsAreMade, CardType, runVars
<1>2. CardType'
  BY <1>t, <1>1 DEF CardSent, CardType
<1>3. \A k \in Message : CardMade(k)' <=> CardMade(k)
  BY <1>1 DEF CardMade
<1>4. CardsAreMade'
  <2>1. /\ \A k \in queueCardMessages : k \in Message /\ CardMade(k)
        /\ \A u \in updates : /\ u.msg \in Message /\ CardMade(u.msg)
                              /\ u.step = "patching" => cardSend[u.msg] = "sent"
    BY <1>t DEF CardsTell, CardsAreMade, CardType, Update
  <2>2. /\ \A k \in queueCardMessages : CardMade(k)'
        /\ \A u \in updates : /\ CardMade(u.msg)'
                              /\ u.step = "patching" => cardSend'[u.msg] = "sent"
    BY <1>1, <1>3, <2>1
  <2>3. /\ \A k \in Message : k \notin UsedKeys => cardSend'[k] = "none" /\ k \notin marked
        /\ \A k \in Message : cardShown'[k] # "none" => cardSend'[k] = "sent"
    BY <1>1 DEF CardsTell, CardsAreMade
  <2>. QED BY <1>1, <2>2, <2>3 DEF CardsAreMade, CardMade
<1>5. UpdatesAreTrue'
  BY <1>1 DEF CardsTell, UpdatesAreTrue
<1>6. UnmappedIsPromised'
  <2>. SUFFICES ASSUME NEW k \in QueuedKeys, k \notin blurred, CardMade(k)',
                       k \notin queueCardMessages
                PROVE  k \in marked /\ cardSend'[k] = "sent" /\ cardShown'[k] = "executing"
    BY <1>1 DEF UnmappedIsPromised
  <2>1. k \in Message /\ CardMade(k)
    BY <1>3 DEF QueuedKeys
  <2>2. k \in marked /\ cardSend[k] = "sent" /\ cardShown[k] = "executing"
    BY <2>1 DEF CardsTell, UnmappedIsPromised
  <2>. QED BY <1>1, <2>1, <2>2
<1>7. BegunIsTold'
  <2>. SUFFICES ASSUME NEW k \in BegunKeys, k \notin blurred, CardMade(k)'
                PROVE  \/ cardSend'[k] = "sent" /\ cardShown'[k] = "executing"
                       \/ \E u \in updates : /\ u.msg = k /\ u.as = "executing"
                                             /\ (u.started \/ u.step = "patching")
    BY <1>1 DEF BegunIsTold
  <2>1. k \in Message /\ CardMade(k)
    BY <1>3 DEF BegunKeys
  <2>. QED BY <1>1, <2>1 DEF CardsTell, BegunIsTold
<1>8. GoneIsTold'
  <2>. SUFFICES ASSUME NEW k \in GoneKeys, k \notin blurred, k \notin marked, CardMade(k)'
                PROVE  \/ cardSend'[k] = "sent" /\ cardShown'[k] = "cancelled"
                       \/ \E u \in updates : u.msg = k /\ u.as = "cancelled"
    BY <1>1 DEF GoneIsTold
  <2>1. k \in Message /\ CardMade(k)
    BY <1>3 DEF GoneKeys
  <2>. QED BY <1>1, <2>1 DEF CardsTell, GoneIsTold
<1>9. NoneForgotten'
  BY <1>1 DEF CardsTell, NoneForgotten
<1>. QED BY <1>2, <1>4, <1>5, <1>6, <1>7, <1>8, <1>9 DEF CardsTell

LEMMA CardsWhenSendFails ==
    ASSUME CardsTell, NEW m \in Message, SendFailed(m),
           UsedKeys' = UsedKeys, QueuedKeys' = QueuedKeys,
           BegunKeys' = BegunKeys, GoneKeys' = GoneKeys
    PROVE  CardsTell'
<1>t. CardType
  BY DEF CardsTell
<1>1. /\ cardSend[m] = "sending" /\ cardShown[m] = "none" /\ cardSend'[m] = "failed"
      /\ \A k \in Message : k # m => cardSend'[k] = cardSend[k]
      /\ queueCardMessages' = queueCardMessages \ {m}
      /\ updates' = {u \in updates : u.msg # m}
      /\ UNCHANGED <<run, activeRun, cardShown, marked, blurred>>
  BY <1>t DEF SendFailed, CardsTell, CardsAreMade, CardType, runVars
<1>2. CardType'
  BY <1>t, <1>1 DEF SendFailed, CardType
<1>3. ~CardMade(m)' /\ \A k \in Message : k # m => (CardMade(k)' <=> CardMade(k))
  BY <1>1 DEF CardMade
<1>4. CardsAreMade'
  <2>1. /\ \A k \in queueCardMessages : k \in Message /\ CardMade(k)
        /\ \A u \in updates : /\ u.msg \in Message /\ CardMade(u.msg)
                              /\ u.step = "patching" => cardSend[u.msg] = "sent"
    BY <1>t DEF CardsTell, CardsAreMade, CardType, Update
  <2>2. /\ \A k \in queueCardMessages' : CardMade(k)'
        /\ \A u \in updates' : /\ CardMade(u.msg)'
                               /\ u.step = "patching" => cardSend'[u.msg] = "sent"
    BY <1>1, <1>3, <2>1
  <2>3. /\ \A k \in Message : k \notin UsedKeys => cardSend'[k] = "none" /\ k \notin marked
        /\ \A k \in Message : cardShown'[k] # "none" => cardSend'[k] = "sent"
    BY <1>1 DEF CardsTell, CardsAreMade
  <2>. QED BY <1>1, <2>2, <2>3 DEF CardsAreMade, CardMade
<1>5. UpdatesAreTrue'
  BY <1>1 DEF CardsTell, UpdatesAreTrue
<1>6. UnmappedIsPromised'
  <2>. SUFFICES ASSUME NEW k \in QueuedKeys, k \notin blurred, CardMade(k)',
                       k \notin queueCardMessages'
                PROVE  k \in marked /\ cardSend'[k] = "sent" /\ cardShown[k] = "executing"
    BY <1>1 DEF UnmappedIsPromised
  <2>1. k \in Message /\ CardMade(k) /\ k # m
    BY <1>3 DEF QueuedKeys
  <2>2. k \in marked /\ cardSend[k] = "sent" /\ cardShown[k] = "executing"
    BY <1>1, <2>1 DEF CardsTell, UnmappedIsPromised
  <2>. QED BY <1>1, <2>1, <2>2
<1>7. BegunIsTold'
  <2>. SUFFICES ASSUME NEW k \in BegunKeys, k \notin blurred, CardMade(k)'
                PROVE  \/ cardSend'[k] = "sent" /\ cardShown[k] = "executing"
                       \/ \E u \in updates' : /\ u.msg = k /\ u.as = "executing"
                                              /\ (u.started \/ u.step = "patching")
    BY <1>1 DEF BegunIsTold
  <2>1. k \in Message /\ CardMade(k) /\ k # m
    BY <1>3 DEF BegunKeys
  <2>. QED BY <1>1, <2>1 DEF CardsTell, BegunIsTold
<1>8. GoneIsTold'
  <2>. SUFFICES ASSUME NEW k \in GoneKeys, k \notin blurred, k \notin marked, CardMade(k)'
                PROVE  \/ cardSend'[k] = "sent" /\ cardShown[k] = "cancelled"
                       \/ \E u \in updates' : u.msg = k /\ u.as = "cancelled"
    BY <1>1 DEF GoneIsTold
  <2>1. k \in Message /\ CardMade(k) /\ k # m
    BY <1>3 DEF GoneKeys
  <2>. QED BY <1>1, <2>1 DEF CardsTell, GoneIsTold
<1>9. NoneForgotten'
  BY <1>1 DEF CardsTell, NoneForgotten
<1>. QED BY <1>2, <1>4, <1>5, <1>6, <1>7, <1>8, <1>9 DEF CardsTell

\* An update whose send has resolved: it is patched, or it is dropped.
LEMMA CardsWhenUpdated ==
    ASSUME CardsTell, NEW u \in updates, UpdateResumes(u),
           UsedKeys' = UsedKeys, QueuedKeys' = QueuedKeys,
           BegunKeys' = BegunKeys, GoneKeys' = GoneKeys
    PROVE  CardsTell'
<1>t. CardType /\ u \in Update /\ u.step = "awaiting" /\ cardSend[u.msg] = "sent"
  BY DEF CardsTell, CardType, UpdateResumes
<1>u. UNCHANGED <<run, activeRun, cardSend, cardShown, marked, blurred>>
  BY DEF UpdateResumes, runVars
<1>1. ASSUME NEW new \in Update, updates' = (updates \ {u}) \cup {new},
             new.msg = u.msg, new.as = u.as, new.started = u.started,
             new.step = "patching", queueCardMessages' = queueCardMessages
      PROVE  CardsTell'
  <2>1. \A v \in updates : \E x \in updates' :
           /\ x.msg = v.msg /\ x.as = v.as /\ x.started = v.started
           /\ v.step = "patching" => x.step = "patching"
    BY <1>1
  <2>2. \A x \in updates' : \E v \in updates :
           x.msg = v.msg /\ x.as = v.as /\ x.started = v.started
    BY <1>1
  <2>3. CardType'
    BY <1>t, <1>u, <1>1 DEF CardType
  <2>4. CardsAreMade'
    <3>1. \A v \in updates : /\ CardMade(v.msg)
                             /\ v.step = "patching" => cardSend[v.msg] = "sent"
      BY DEF CardsTell, CardsAreMade
    <3>2. \A x \in updates' : /\ CardMade(x.msg)
                              /\ x.step = "patching" => cardSend[x.msg] = "sent"
      BY <1>1, <1>t, <3>1
    <3>3. /\ \A m \in Message : m \notin UsedKeys => cardSend[m] = "none" /\ m \notin marked
          /\ \A m \in Message : cardShown[m] # "none" => cardSend[m] = "sent"
          /\ \A m \in queueCardMessages : CardMade(m)
      BY DEF CardsTell, CardsAreMade
    <3>. QED BY <1>1, <1>u, <3>2, <3>3 DEF CardsAreMade, CardMade
  <2>5. UpdatesAreTrue'
    <3>. SUFFICES ASSUME NEW x \in updates'
                  PROVE  /\ x.as = "executing" =>
                               x.msg \in BegunKeys \/ (~x.started /\ x.msg \in marked)
                         /\ x.as = "cancelled" => x.msg \in GoneKeys
                         /\ x.as \in {"editing", "queued"} => x.msg \in blurred
      BY <1>u DEF UpdatesAreTrue
    <3>. QED BY <2>2 DEF CardsTell, UpdatesAreTrue
  <2>6. UnmappedIsPromised'
    BY <1>1, <1>u DEF CardsTell, UnmappedIsPromised, CardMade
  <2>7. BegunIsTold'
    <3>1. ASSUME NEW m \in BegunKeys \ blurred, CardMade(m)
          PROVE  \/ cardSend[m] = "sent" /\ cardShown[m] = "executing"
                 \/ \E x \in updates' : /\ x.msg = m /\ x.as = "executing"
                                        /\ (x.started \/ x.step = "patching")
      <4>1. \/ cardSend[m] = "sent" /\ cardShown[m] = "executing"
            \/ \E v \in updates : /\ v.msg = m /\ v.as = "executing"
                                 /\ (v.started \/ v.step = "patching")
        BY <3>1 DEF CardsTell, BegunIsTold
      <4>. QED BY <2>1, <4>1
    <3>. QED BY <1>u, <3>1 DEF BegunIsTold, CardMade
  <2>8. GoneIsTold'
    <3>1. ASSUME NEW m \in GoneKeys \ (blurred \cup marked), CardMade(m)
          PROVE  \/ cardSend[m] = "sent" /\ cardShown[m] = "cancelled"
                 \/ \E x \in updates' : x.msg = m /\ x.as = "cancelled"
      <4>1. \/ cardSend[m] = "sent" /\ cardShown[m] = "cancelled"
            \/ \E v \in updates : v.msg = m /\ v.as = "cancelled"
        BY <3>1 DEF CardsTell, GoneIsTold
      <4>. QED BY <2>1, <4>1
    <3>. QED BY <1>u, <3>1 DEF GoneIsTold, CardMade
  <2>9. NoneForgotten'
    <3>1. ASSUME NEW m \in queueCardMessages
          PROVE  m \in QueuedKeys
                    \/ \E x \in updates' : x.msg = m /\ x.as \in {"executing", "cancelled"}
      <4>1. m \in QueuedKeys
               \/ \E v \in updates : v.msg = m /\ v.as \in {"executing", "cancelled"}
        BY DEF CardsTell, NoneForgotten
      <4>. QED BY <2>1, <4>1
    <3>. QED BY <1>1, <3>1 DEF NoneForgotten
  <2>. QED BY <2>3, <2>4, <2>5, <2>6, <2>7, <2>8, <2>9 DEF CardsTell
<1>2. ASSUME u.as = "executing", ~u.started, u.msg \notin QueuedKeys,
             updates' = updates \ {u}, queueCardMessages' = queueCardMessages \ {u.msg}
      PROVE  CardsTell'
  <2>1. CardType'
    BY <1>t, <1>u, <1>2 DEF CardType
  <2>2. CardsAreMade'
    BY <1>u, <1>2 DEF CardsTell, CardsAreMade, CardMade
  <2>3. UpdatesAreTrue'
    BY <1>u, <1>2 DEF CardsTell, UpdatesAreTrue
  <2>4. UnmappedIsPromised'
    BY <1>u, <1>2 DEF CardsTell, UnmappedIsPromised, CardMade
  <2>5. BegunIsTold'
    <3>1. ASSUME NEW m \in BegunKeys \ blurred, CardMade(m)
          PROVE  \/ cardSend[m] = "sent" /\ cardShown[m] = "executing"
                 \/ \E x \in updates' : /\ x.msg = m /\ x.as = "executing"
                                        /\ (x.started \/ x.step = "patching")
      <4>1. \/ cardSend[m] = "sent" /\ cardShown[m] = "executing"
            \/ \E v \in updates : /\ v.msg = m /\ v.as = "executing"
                                 /\ (v.started \/ v.step = "patching")
        BY <3>1 DEF CardsTell, BegunIsTold
      <4>. QED BY <1>t, <1>2, <4>1
    <3>. QED BY <1>u, <3>1 DEF BegunIsTold, CardMade
  <2>6. GoneIsTold'
    <3>1. ASSUME NEW m \in GoneKeys \ (blurred \cup marked), CardMade(m)
          PROVE  \/ cardSend[m] = "sent" /\ cardShown[m] = "cancelled"
                 \/ \E x \in updates' : x.msg = m /\ x.as = "cancelled"
      <4>1. \/ cardSend[m] = "sent" /\ cardShown[m] = "cancelled"
            \/ \E v \in updates : v.msg = m /\ v.as = "cancelled"
        BY <3>1 DEF CardsTell, GoneIsTold
      <4>. QED BY <1>2, <4>1
    <3>. QED BY <1>u, <3>1 DEF GoneIsTold, CardMade
  <2>7. NoneForgotten'
    BY <1>2 DEF CardsTell, NoneForgotten
  <2>. QED BY <2>1, <2>2, <2>3, <2>4, <2>5, <2>6, <2>7 DEF CardsTell
<1>3. CASE MaySayExecuting(u)
  <2>. DEFINE new == [u EXCEPT !.step = "patching"]
  <2>1. /\ new \in Update /\ new.msg = u.msg /\ new.as = u.as
        /\ new.started = u.started /\ new.step = "patching"
    BY <1>t DEF Update
  <2>2. updates' = (updates \ {u}) \cup {new} /\ queueCardMessages' = queueCardMessages
    BY <1>3 DEF UpdateResumes
  <2>. HIDE DEF new
  <2>. QED BY <1>1, <2>1, <2>2
<1>4. CASE ~MaySayExecuting(u)
  <2>1. u.as = "executing" /\ ~u.started /\ u.msg \notin QueuedKeys
    BY <1>4 DEF MaySayExecuting, QueuedKeys
  <2>2. updates' = updates \ {u} /\ queueCardMessages' = queueCardMessages \ {u.msg}
    BY <1>4 DEF UpdateResumes
  <2>. QED BY <1>2, <2>1, <2>2
<1>. QED BY <1>3, <1>4

\* A patch arrives, or is lost; both end the update.
LEMMA CardsWhenPatched ==
    ASSUME CardsTell, NEW u \in updates, PatchLands(u) \/ PatchFails(u),
           QueuedKeys \cap BegunKeys = {}, QueuedKeys \cap GoneKeys = {},
           BegunKeys \cap GoneKeys = {},
           UsedKeys' = UsedKeys, QueuedKeys' = QueuedKeys,
           BegunKeys' = BegunKeys, GoneKeys' = GoneKeys
    PROVE  CardsTell'
<1>. DEFINE m == u.msg
<1>t. /\ CardType /\ u \in Update /\ m \in Message /\ u.step = "patching"
      /\ cardSend[m] = "sent"
  BY DEF CardsTell, CardType, CardsAreMade, PatchLands, PatchFails, Update
<1>u. /\ UNCHANGED <<run, activeRun, cardSend, marked>>
      /\ updates' = updates \ {u}
      /\ queueCardMessages' = IF u.as \in {"executing", "cancelled"}
                              THEN queueCardMessages \ {m} ELSE queueCardMessages
  BY DEF PatchLands, PatchFails, UpdateEnds, runVars
<1>s. \/ cardShown' = [cardShown EXCEPT ![m] = u.as] /\ blurred' = blurred
      \/ cardShown' = cardShown /\ blurred' = blurred \cup {m}
  BY DEF PatchLands, PatchFails
<1>1. /\ \A k \in Message : k # m => cardShown'[k] = cardShown[k]
      /\ \A k \in Message : k # m => (k \in blurred' <=> k \in blurred)
      /\ m \in blurred \/ m \in blurred' \/ cardShown'[m] = u.as
      /\ blurred \subseteq blurred'
  BY <1>s, <1>t DEF CardType
<1>2. CardType'
  <2>1. /\ cardShown' \in [Message -> {"none", "queued", "executing", "cancelled", "editing"}]
        /\ blurred' \subseteq Message
    BY <1>s, <1>t DEF CardType, Update
  <2>. QED BY <1>t, <1>u, <2>1 DEF CardType
<1>3. /\ u.as = "executing" => m \in BegunKeys \/ m \in marked
      /\ u.as = "cancelled" => m \in GoneKeys
      /\ u.as \in {"editing", "queued"} => m \in blurred
      /\ u.as \in {"executing", "cancelled", "editing", "queued"}
  BY <1>t DEF CardsTell, UpdatesAreTrue, Update
<1>. HIDE DEF m
<1>4. CardsAreMade'
  <2>1. /\ \A k \in Message : k \notin UsedKeys => cardSend[k] = "none" /\ k \notin marked
        /\ \A v \in updates : /\ CardMade(v.msg)
                              /\ v.step = "patching" => cardSend[v.msg] = "sent"
        /\ \A k \in queueCardMessages' : CardMade(k)
    BY <1>u DEF CardsTell, CardsAreMade
  <2>2. \A k \in Message : cardShown'[k] # "none" => cardSend[k] = "sent"
    BY <1>1, <1>t DEF CardsTell, CardsAreMade
  <2>. QED BY <1>u, <2>1, <2>2 DEF CardsAreMade, CardMade
<1>5. UpdatesAreTrue'
  BY <1>u, <1>1 DEF CardsTell, UpdatesAreTrue
<1>6. UnmappedIsPromised'
  <2>. SUFFICES ASSUME NEW k \in QueuedKeys, k \notin blurred', CardMade(k),
                       k \notin queueCardMessages'
                PROVE  k \in marked /\ cardSend[k] = "sent" /\ cardShown'[k] = "executing"
    BY <1>u DEF UnmappedIsPromised, CardMade
  <2>0. k \in Message
    BY DEF QueuedKeys
  <2>1. CASE k = m
    <3>1. u.as = "executing" /\ m \in marked
      BY <1>1, <1>3, <2>1
    <3>. QED BY <1>1, <1>t, <2>1, <3>1
  <2>2. CASE k # m
    <3>1. k \notin queueCardMessages /\ k \notin blurred
      BY <1>1, <1>u, <2>2
    <3>. QED BY <1>1, <2>0, <2>2, <3>1 DEF CardsTell, UnmappedIsPromised
  <2>. QED BY <2>1, <2>2
<1>7. BegunIsTold'
  <2>. SUFFICES ASSUME NEW k \in BegunKeys, k \notin blurred', CardMade(k)
                PROVE  \/ cardSend[k] = "sent" /\ cardShown'[k] = "executing"
                       \/ \E v \in updates' : /\ v.msg = k /\ v.as = "executing"
                                              /\ (v.started \/ v.step = "patching")
    BY <1>u DEF BegunIsTold, CardMade
  <2>0. k \in Message
    BY DEF BegunKeys
  <2>1. CASE k = m
    <3>1. u.as = "executing"
      BY <1>1, <1>3, <2>1
    <3>. QED BY <1>1, <1>t, <2>1, <3>1
  <2>2. CASE k # m
    <3>1. \/ cardSend[k] = "sent" /\ cardShown[k] = "executing"
          \/ \E v \in updates : /\ v.msg = k /\ v.as = "executing"
                               /\ (v.started \/ v.step = "patching")
      BY <1>1, <2>2 DEF CardsTell, BegunIsTold
    <3>. QED BY <1>1, <1>u, <2>0, <2>2, <3>1 DEF m
  <2>. QED BY <2>1, <2>2
<1>8. GoneIsTold'
  <2>. SUFFICES ASSUME NEW k \in GoneKeys, k \notin blurred', k \notin marked, CardMade(k)
                PROVE  \/ cardSend[k] = "sent" /\ cardShown'[k] = "cancelled"
                       \/ \E v \in updates' : v.msg = k /\ v.as = "cancelled"
    BY <1>u DEF GoneIsTold, CardMade
  <2>0. k \in Message
    BY DEF GoneKeys
  <2>1. CASE k = m
    <3>1. u.as = "cancelled"
      BY <1>1, <1>3, <2>1
    <3>. QED BY <1>1, <1>t, <2>1, <3>1
  <2>2. CASE k # m
    <3>1. \/ cardSend[k] = "sent" /\ cardShown[k] = "cancelled"
          \/ \E v \in updates : v.msg = k /\ v.as = "cancelled"
      BY <1>1, <2>2 DEF CardsTell, GoneIsTold
    <3>. QED BY <1>1, <1>u, <2>0, <2>2, <3>1 DEF m
  <2>. QED BY <2>1, <2>2
<1>9. NoneForgotten'
  <2>. SUFFICES ASSUME NEW k \in queueCardMessages'
                PROVE  k \in QueuedKeys
                          \/ \E v \in updates' : v.msg = k /\ v.as \in {"executing", "cancelled"}
    BY DEF NoneForgotten
  <2>1. k \in QueuedKeys
           \/ \E v \in updates : v.msg = k /\ v.as \in {"executing", "cancelled"}
    BY <1>u DEF CardsTell, NoneForgotten
  <2>. QED BY <1>u, <2>1 DEF m
<1>. QED BY <1>2, <1>4, <1>5, <1>6, <1>7, <1>8, <1>9 DEF CardsTell

-----------------------------------------------------------------------------
(* The steps                                                               *)

\* What "run now" promises when it looks at the queue again.
Promised(h) ==
    IF taskIndex[h.cwd][h.target] # NoSlot /\ activeRun[h.cwd] = NoSlot
    THEN {h.target} ELSE {}

LEMMA CardsWhenImmediate ==
    ASSUME KeyInv, CardsTell, NEW h, NEW w \in Workspace, h.cwd = w, h.target \in Message,
           ImmediateResumes(h)
    PROVE  CardsTell'
<1>. DEFINE K == KeysAhead(h)
            N == Promised(h)
<1>1. /\ K \in SUBSET Message /\ Ahead(h) = {taskIndex[w][m] : m \in K}
      /\ \A m \in K : taskIndex[w][m] # NoSlot
      /\ \A m \in Message : taskIndex'[w][m] = IF m \in K THEN NoSlot ELSE taskIndex[w][m]
      /\ removed' = removed \cup Ahead(h)
      /\ \A v \in Workspace : v # w => taskIndex'[v] = taskIndex[v]
  BY ImmediateRemoves
<1>2. /\ UNCHANGED <<taskMsg, slotCounter, executed, run, activeRun, cardSend,
                     queueCardMessages, cardShown, blurred>>
      /\ updates' = updates \cup Called(K, "cancelled", FALSE)
                            \cup Called(N, "executing", FALSE)
      /\ marked' = marked \cup N
  BY DEF ImmediateResumes, taskVars, chainVars, runVars, KeysAhead, Ahead, Promised
<1>3. N \in SUBSET Message /\ N \subseteq UsedKeys
  <2>1. \A m \in N : m \in Message /\ taskIndex[w][m] # NoSlot
    BY DEF Promised
  <2>2. N \subseteq QueuedKeys
    BY <2>1 DEF QueuedKeys, StillQueued
  <2>. QED BY <2>1, <2>2, KeyHasOneFate
<1>. HIDE DEF K, N
<1>4. removed' = removed \cup {taskIndex[w][m] : m \in K}
  BY <1>1
<1>5. /\ K \subseteq QueuedKeys
      /\ UsedKeys' = UsedKeys /\ BegunKeys' = BegunKeys
      /\ QueuedKeys' = QueuedKeys \ K /\ GoneKeys' = GoneKeys \cup K
  BY <1>1, <1>2, <1>4, RemovedKeys
<1>. QED BY <1>1, <1>2, <1>3, <1>5, CardsWhenRemoved

LEMMA CancelKeys ==
    ASSUME KeyInv, NEW w \in Workspace, NEW m \in Message, RemoveFromQueue(w, m)
    PROVE  /\ m \in QueuedKeys /\ UsedKeys' = UsedKeys /\ BegunKeys' = BegunKeys
           /\ QueuedKeys' = QueuedKeys \ {m} /\ GoneKeys' = GoneKeys \cup {m}
<1>. DEFINE K == {m}
<1>1. /\ K \in SUBSET Message
      /\ \A k \in K : taskIndex[w][k] # NoSlot
      /\ \A k \in Message : taskIndex'[w][k] = IF k \in K THEN NoSlot ELSE taskIndex[w][k]
      /\ \A v \in Workspace : v # w => taskIndex'[v] = taskIndex[v]
  BY DEF RemoveFromQueue, DropEntry, KeyInv, CountInv, TypeOK
<1>2. removed' = removed \cup {taskIndex[w][k] : k \in K}
  BY DEF RemoveFromQueue
<1>3. UNCHANGED <<taskMsg, slotCounter, executed>>
  BY DEF RemoveFromQueue, taskVars, chainVars
<1>. HIDE DEF K
<1>4. /\ K \subseteq QueuedKeys /\ UsedKeys' = UsedKeys /\ BegunKeys' = BegunKeys
      /\ QueuedKeys' = QueuedKeys \ K /\ GoneKeys' = GoneKeys \cup K
  BY <1>1, <1>2, <1>3, RemovedKeys
<1>. QED BY <1>4 DEF K

LEMMA CardsTellNext ==
    ASSUME KeyInv, HandlersInv, CardsTell, RepeatedKey = {}, [CardsNext]_vars
    PROVE  CardsTell'
<1>k. /\ QueuedKeys \subseteq UsedKeys
      /\ QueuedKeys \cap BegunKeys = {} /\ QueuedKeys \cap GoneKeys = {}
      /\ BegunKeys \cap GoneKeys = {}
  BY KeyHasOneFate
<1>b. BegunKeys \cup GoneKeys \subseteq UsedKeys
  <2>1. /\ \A s \in Slot : HasBegun(s) => s <= slotCounter
        /\ \A s \in removed : s <= slotCounter
    BY DEF KeyInv, SlotFates
  <2>. QED BY <2>1 DEF UsedKeys, BegunKeys, GoneKeys
<1>t. CardType
  BY DEF CardsTell
<1>1. ASSUME NEW w \in Workspace, NEW m \in Message, EnqueueWithCard(w, m)
      PROVE  CardsTell'
  <2>1. /\ m \notin UsedKeys /\ UsedKeys' = UsedKeys \cup {m}
        /\ QueuedKeys' = QueuedKeys \cup {m}
        /\ BegunKeys' = BegunKeys /\ GoneKeys' = GoneKeys
    BY <1>1, EnqueueKeys DEF EnqueueWithCard
  <2>. QED BY <1>1, <1>b, <2>1, CardsWhenQueued
<1>2. ASSUME NEW w \in Workspace, NEW m \in Message, QueueCancel(w, m)
      PROVE  CardsTell'
  <2>. DEFINE K == {m}
              N == {}
  <2>1. /\ K \subseteq QueuedKeys /\ UsedKeys' = UsedKeys /\ BegunKeys' = BegunKeys
        /\ QueuedKeys' = QueuedKeys \ K /\ GoneKeys' = GoneKeys \cup K
    BY <1>2, CancelKeys DEF QueueCancel
  <2>2. /\ K \in SUBSET Message /\ N \in SUBSET Message /\ N \subseteq UsedKeys
        /\ Called(N, "executing", FALSE) = {}
    BY DEF Called
  <2>3. /\ UNCHANGED <<run, activeRun, cardSend, queueCardMessages, cardShown, blurred>>
        /\ updates' = updates \cup Called(K, "cancelled", FALSE)
                              \cup Called(N, "executing", FALSE)
        /\ marked' = marked \cup N
    BY <1>2, <2>2 DEF QueueCancel, runVars
  <2>. HIDE DEF K, N
  <2>. QED BY <2>1, <2>2, <2>3, CardsWhenRemoved
<1>3. ASSUME NEW w \in Workspace, NEW m \in Message, QueueEdit(w, m) \/ QueueInput(w, m)
      PROVE  CardsTell'
  <2>1. /\ UNCHANGED <<taskMsg, slotCounter, executed, removed, taskIndex>>
        /\ UNCHANGED <<run, activeRun, cardSend, queueCardMessages, cardShown, marked>>
        /\ cardShown[m] # "none"
        /\ \E as \in {"editing", "queued"} : ShowOnCard(m, as)
    BY <1>3 DEF QueueEdit, QueueInput, Clickable, EditQueuedTask, queueVars, taskVars,
                chainVars, listVars, runVars
  <2>2. PICK as \in {"editing", "queued"} : ShowOnCard(m, as)
    BY <2>1
  <2>3. /\ UsedKeys' = UsedKeys /\ QueuedKeys' = QueuedKeys
        /\ BegunKeys' = BegunKeys /\ GoneKeys' = GoneKeys
    BY <2>1, SameKeys
  <2>. QED BY <2>1, <2>2, <2>3, CardsWhenRedrawn
<1>4. ASSUME NEW w \in Workspace, NEW s \in Slot, BeginWithCard(w, s)
      PROVE  CardsTell'
  <2>. DEFINE m == taskMsg[s]
  <2>1. /\ m \in QueuedKeys /\ UsedKeys' = UsedKeys /\ QueuedKeys' = QueuedKeys \ {m}
        /\ BegunKeys' = BegunKeys \cup {m} /\ GoneKeys' = GoneKeys
    BY <1>4, BeginKeys DEF BeginWithCard
  <2>2. /\ UNCHANGED <<cardSend, queueCardMessages, cardShown, marked, blurred>>
        /\ updates' = updates \cup Called({m}, "executing", TRUE)
        /\ run' \in [Slot -> {"none", "live", "ended", "over"}]
        /\ activeRun' \in [Workspace -> Slot \cup {NoSlot}]
    BY <1>4, <1>t DEF BeginWithCard, CardType
  <2>3. m \in Message
    BY <2>1 DEF QueuedKeys
  <2>. HIDE DEF m
  <2>. QED BY <2>1, <2>2, <2>3, CardsWhenBegun
<1>5. ASSUME UNCHANGED <<taskMsg, slotCounter, executed, removed, taskIndex>>,
             UNCHANGED cardVars,
             run' \in [Slot -> {"none", "live", "ended", "over"}],
             activeRun' \in [Workspace -> Slot \cup {NoSlot}]
      PROVE  CardsTell'
  <2>1. /\ UsedKeys' = UsedKeys /\ QueuedKeys' = QueuedKeys
        /\ BegunKeys' = BegunKeys /\ GoneKeys' = GoneKeys
    BY <1>5, SameKeys
  <2>. QED BY <1>5, <2>1, CardsAtRest
<1>6. ASSUME NEW w \in Workspace, NEW s \in Slot, RunFinalized(w, s)
      PROVE  CardsTell'
  <2>1. /\ UNCHANGED <<taskMsg, slotCounter, executed, removed, taskIndex>>
        /\ UNCHANGED cardVars
    BY <1>6 DEF RunFinalized, queueVars, taskVars, chainVars, listVars
  <2>2. /\ run' \in [Slot -> {"none", "live", "ended", "over"}]
        /\ activeRun' \in [Workspace -> Slot \cup {NoSlot}]
    BY <1>6, <1>t DEF RunFinalized, CardType
  <2>. QED BY <1>5, <2>1, <2>2
<1>7. ASSUME NEW s \in Slot, RunEnds(s)
      PROVE  CardsTell'
  <2>1. /\ UNCHANGED <<taskMsg, slotCounter, executed, removed, taskIndex>>
        /\ UNCHANGED cardVars
    BY <1>7 DEF RunEnds, queueVars, taskVars, chainVars, listVars
  <2>2. /\ run' \in [Slot -> {"none", "live", "ended", "over"}]
        /\ activeRun' \in [Workspace -> Slot \cup {NoSlot}]
    BY <1>7, <1>t DEF RunEnds, CardType
  <2>. QED BY <1>5, <2>1, <2>2
<1>8. ASSUME NEW w \in Workspace, NEW s \in Slot,
             SettleAfterBody(w, s) \/ (SkipTask(w, s) /\ UNCHANGED <<runVars, handlers, cardVars>>)
      PROVE  CardsTell'
  <2>1. /\ UNCHANGED <<taskMsg, slotCounter, executed, removed, taskIndex>>
        /\ UNCHANGED cardVars /\ UNCHANGED <<run, activeRun>>
    BY <1>8 DEF SettleAfterBody, SkipTask, Settle, queueVars, taskVars, chainVars, listVars,
                runVars
  <2>. QED BY <1>5, <1>t, <2>1 DEF CardType
<1>9. ASSUME NEW w \in Workspace, NEW m \in Message, QueueImmediate(w, m)
      PROVE  CardsTell'
  <2>1. /\ UNCHANGED <<taskMsg, slotCounter, executed, removed, taskIndex>>
        /\ UNCHANGED cardVars /\ UNCHANGED <<run, activeRun>>
    BY <1>9 DEF QueueImmediate, queueVars, taskVars, chainVars, listVars, runVars
  <2>. QED BY <1>5, <1>t, <2>1 DEF CardType
<1>10. ASSUME NEW w \in Workspace, Stop(w)
       PROVE  CardsTell'
  <2>1. /\ UNCHANGED <<taskMsg, slotCounter, executed, removed, taskIndex>>
        /\ UNCHANGED cardVars /\ UNCHANGED <<run, activeRun>>
    BY <1>10 DEF Stop, queueVars, taskVars, chainVars, listVars, runVars
  <2>. QED BY <1>5, <1>t, <2>1 DEF CardType
<1>11. ASSUME NEW h \in handlers, InterruptReturns(h)
       PROVE  CardsTell'
  <2>1. /\ UNCHANGED <<taskMsg, slotCounter, executed, removed, taskIndex>>
        /\ UNCHANGED cardVars /\ run' = run
    BY <1>11 DEF InterruptReturns, ResetExecutingCount, queueVars, taskVars, chainVars,
                 listVars
  <2>2. activeRun' \in [Workspace -> Slot \cup {NoSlot}]
    BY <1>11, <1>t DEF InterruptReturns, CardType
  <2>. QED BY <1>5, <1>t, <2>1, <2>2 DEF CardType
<1>12. ASSUME NEW h \in handlers, ImmediateResumes(h)
       PROVE  CardsTell'
  <2>1. h.cwd \in Workspace /\ h.target \in Message
    BY <1>12 DEF HandlersInv, Handler, ImmediateResumes
  <2>. QED BY <1>12, <2>1, CardsWhenImmediate
<1>13. ASSUME NEW m \in Message, CardSent(m) \/ SendFailed(m)
       PROVE  CardsTell'
  <2>1. UNCHANGED <<taskMsg, slotCounter, executed, removed, taskIndex>>
    BY <1>13 DEF CardSent, SendFailed, queueVars, taskVars, chainVars, listVars
  <2>2. /\ UsedKeys' = UsedKeys /\ QueuedKeys' = QueuedKeys
        /\ BegunKeys' = BegunKeys /\ GoneKeys' = GoneKeys
    BY <2>1, SameKeys
  <2>. QED BY <1>13, <2>2, CardsWhenSent, CardsWhenSendFails
<1>14. ASSUME NEW u \in updates, UpdateResumes(u) \/ PatchLands(u) \/ PatchFails(u)
       PROVE  CardsTell'
  <2>1. UNCHANGED <<taskMsg, slotCounter, executed, removed, taskIndex>>
    BY <1>14 DEF UpdateResumes, PatchLands, PatchFails, queueVars, taskVars, chainVars,
                 listVars
  <2>2. /\ UsedKeys' = UsedKeys /\ QueuedKeys' = QueuedKeys
        /\ BegunKeys' = BegunKeys /\ GoneKeys' = GoneKeys
    BY <2>1, SameKeys
  <2>. QED BY <1>14, <1>k, <2>2, CardsWhenUpdated, CardsWhenPatched
<1>15. CASE UNCHANGED vars
  <2>1. /\ UNCHANGED <<taskMsg, slotCounter, executed, removed, taskIndex>>
        /\ UNCHANGED cardVars /\ UNCHANGED <<run, activeRun>>
    BY <1>15 DEF vars, queueVars, taskVars, chainVars, listVars, runVars
  <2>. QED BY <1>5, <1>t, <2>1 DEF CardType
<1>. QED
  BY <1>1, <1>2, <1>3, <1>4, <1>6, <1>7, <1>8, <1>9, <1>10, <1>11, <1>12, <1>13, <1>14,
     <1>15 DEF CardsNext

LEMMA BegunStaysUnderCards ==
    ASSUME KeyInv, HandlersInv, RepeatedKey = {}, [CardsNext]_vars
    PROVE  \A s \in Slot : HasBegun(s) => HasBegun(s)'
<1>1. CASE [QueueNext]_queueVars
  BY <1>1, BegunStays DEF KeyInv
<1>2. CASE \E h \in handlers : ImmediateResumes(h)
  BY <1>2 DEF ImmediateResumes, chainVars, HasBegun
<1>. QED BY <1>1, <1>2, KeysUnderCards

\* A handler captures the slot its lane executes, and that one has begun.
LEMMA HandlersNext ==
    ASSUME KeyInv, HandlersInv, EntryIsExecuting, CardType, RepeatedKey = {},
           [CardsNext]_vars
    PROVE  HandlersInv'
<1>b. \A s \in Slot : HasBegun(s) => HasBegun(s)'
  BY BegunStaysUnderCards
<1>h. \A h \in handlers : h \in Handler /\ h.slot \in Slot \cup {NoSlot}
  BY DEF HandlersInv, Handler
<1>1. ASSUME handlers' \subseteq handlers PROVE HandlersInv'
  <2>1. \A h \in handlers : h.slot # NoSlot => HasBegun(h.slot)'
    BY <1>b, <1>h DEF HandlersInv
  <2>2. /\ handlers' \subseteq Handler
        /\ \A h \in handlers' : h.step = "stopped" => h.target \in Message
        /\ \A h \in handlers' : h.slot # NoSlot => HasBegun(h.slot)'
        /\ \A h \in handlers' : h.run # NoSlot => h.slot = h.run
    BY <1>1, <2>1 DEF HandlersInv
  <2>. QED BY <2>2 DEF HandlersInv, HasBegun
<1>2. ASSUME NEW new \in Handler, handlers' \subseteq handlers \cup {new},
             new.step = "stopped" => new.target \in Message,
             new.slot # NoSlot => HasBegun(new.slot),
             new.run # NoSlot => new.slot = new.run
      PROVE  HandlersInv'
  <2>1. new.slot \in Slot \cup {NoSlot}
    BY DEF Handler
  <2>2. \A h \in handlers' : h.slot # NoSlot => HasBegun(h.slot)'
    BY <1>2, <1>b, <1>h, <2>1 DEF HandlersInv
  <2>3. /\ handlers' \subseteq Handler
        /\ \A h \in handlers' : h.step = "stopped" => h.target \in Message
        /\ \A h \in handlers' : h.run # NoSlot => h.slot = h.run
    BY <1>2 DEF HandlersInv
  <2>. QED BY <2>2, <2>3 DEF HandlersInv, HasBegun
<1>3. ASSUME NEW w \in Workspace, NEW target \in Message \cup {NoMessage}, Interrupt(w, target)
      PROVE  HandlersInv'
  <2>. DEFINE slot == IF activeRun[w] = NoSlot THEN NoSlot ELSE executingSlot[w]
              new == [cwd |-> w, target |-> target, run |-> activeRun[w], slot |-> slot,
                      step |-> "stopping"]
  <2>1. slot \in Slot \cup {NoSlot} /\ (slot # NoSlot => HasBegun(slot))
    <3>1. LaneCount(w) /\ LaneEntries(w) /\ TypeOK
      BY DEF KeyInv, CountInv
    <3>2. executingSlot[w] \in Slot \cup {NoSlot}
      BY <3>1 DEF TypeOK
    <3>3. executingSlot[w] # NoSlot => HasBegun(executingSlot[w])
      BY <3>1, <3>2 DEF LaneCount, LaneEntries, TypeOK, IsHead
    <3>. QED BY <3>2, <3>3
  <2>2. new \in Handler
    BY <2>1 DEF CardType, Handler
  <2>3. /\ handlers' = handlers \cup {new} /\ new.slot = slot /\ new.step = "stopping"
        /\ new.run = activeRun[w]
    BY <1>3 DEF Interrupt
  <2>4. activeRun[w] # NoSlot => slot = activeRun[w]
    BY DEF EntryIsExecuting
  <2>. HIDE DEF new, slot
  <2>. QED BY <1>2, <2>1, <2>2, <2>3, <2>4
<1>4. ASSUME NEW h \in handlers, InterruptReturns(h)
      PROVE  HandlersInv'
  <2>1. CASE h.target = NoMessage
    BY <1>1, <1>4, <2>1 DEF InterruptReturns
  <2>2. CASE h.target # NoMessage
    <3>. DEFINE new == [h EXCEPT !.step = "stopped"]
    <3>1. new \in Handler /\ new.slot = h.slot /\ new.target = h.target /\ new.run = h.run
      BY <1>h DEF Handler
    <3>2. h.target \in Message
      BY <1>h, <2>2 DEF Handler
    <3>3. handlers' = (handlers \ {h}) \cup {new}
      BY <1>4, <2>2 DEF InterruptReturns
    <3>4. /\ h.slot # NoSlot => HasBegun(h.slot)
          /\ h.run # NoSlot => h.slot = h.run
      BY DEF HandlersInv
    <3>. HIDE DEF new
    <3>. QED BY <1>2, <3>1, <3>2, <3>3, <3>4
  <2>. QED BY <2>1, <2>2
<1>5. ASSUME NEW h \in handlers, ImmediateResumes(h) PROVE HandlersInv'
  BY <1>1, <1>5 DEF ImmediateResumes
<1>6. ASSUME NEW w \in Workspace, NEW m \in Message, QueueImmediate(w, m)
      PROVE  HandlersInv'
  BY <1>3, <1>6 DEF QueueImmediate
<1>7. ASSUME NEW w \in Workspace, Stop(w) PROVE HandlersInv'
  BY <1>3, <1>7 DEF Stop
<1>8. ASSUME NEW w \in Workspace, NEW m \in Message,
             EnqueueWithCard(w, m) \/ QueueCancel(w, m) \/ QueueEdit(w, m) \/ QueueInput(w, m)
      PROVE  handlers' = handlers
  BY <1>8 DEF EnqueueWithCard, QueueCancel, QueueEdit, QueueInput
<1>9. ASSUME NEW s \in Slot, NEW w \in Workspace,
             BeginWithCard(w, s) \/ RunFinalized(w, s) \/ SettleAfterBody(w, s)
      PROVE  handlers' = handlers
  BY <1>9 DEF BeginWithCard, RunFinalized, SettleAfterBody
<1>10. ASSUME NEW s \in Slot, RunEnds(s) PROVE handlers' = handlers
  BY <1>10 DEF RunEnds
<1>11. ASSUME NEW m \in Message, CardSent(m) \/ SendFailed(m) PROVE handlers' = handlers
  BY <1>11 DEF CardSent, SendFailed
<1>12. ASSUME NEW u \in updates, UpdateResumes(u) \/ PatchLands(u) \/ PatchFails(u)
       PROVE  handlers' = handlers
  BY <1>12 DEF UpdateResumes, PatchLands, PatchFails
<1>13. CASE UNCHANGED vars
  BY <1>1, <1>13 DEF vars
<1>. QED
  BY <1>1, <1>4, <1>5, <1>6, <1>7, <1>8, <1>9, <1>10, <1>11, <1>12, <1>13 DEF CardsNext

LEMMA EntryNext ==
    ASSUME KeyInv, HandlersInv, EntryIsExecuting, CardType, [CardsNext]_vars
    PROVE  EntryIsExecuting'
<1>t. /\ TypeOK /\ SlotFates /\ \A w \in Workspace : LaneEntries(w) /\ LaneCount(w)
      /\ activeRun \in [Workspace -> Slot \cup {NoSlot}] /\ DOMAIN run = Slot
  BY DEF KeyInv, CountInv, CardType
<1>f. ASSUME UNCHANGED <<executingSlot, run, activeRun>> PROVE EntryIsExecuting'
  BY <1>f DEF EntryIsExecuting
\* The entry of a workspace is the task its queue runs, and no other lane holds it.
<1>e. \A w \in Workspace : activeRun[w] # NoSlot =>
         /\ activeRun[w] \in chain[w] /\ HasBegun(activeRun[w]) /\ phase[w] = "running"
         /\ \A s \in Slot : IsHead(w, s) => s = activeRun[w]
  <2>. SUFFICES ASSUME NEW w \in Workspace, activeRun[w] # NoSlot
                PROVE  /\ activeRun[w] \in chain[w] /\ HasBegun(activeRun[w])
                       /\ phase[w] = "running"
                       /\ \A s \in Slot : IsHead(w, s) => s = activeRun[w]
    OBVIOUS
  <2>1. activeRun[w] = executingSlot[w] /\ executingSlot[w] \in Slot
    BY <1>t DEF EntryIsExecuting, TypeOK
  <2>2. phase[w] = "running" /\ IsHead(w, executingSlot[w])
    BY <1>t, <2>1 DEF LaneCount
  <2>. QED BY <1>t, <2>1, <2>2 DEF LaneEntries, IsHead, Slot
<1>1. ASSUME NEW w \in Workspace, NEW s \in Slot, BeginWithCard(w, s)
      PROVE  EntryIsExecuting'
  <2>1. /\ executingSlot' = [executingSlot EXCEPT ![w] = s]
        /\ run' = [run EXCEPT ![s] = "live"] /\ activeRun' = [activeRun EXCEPT ![w] = s]
    BY <1>1 DEF BeginWithCard, BeginTask
  <2>2. \A t \in Slot : run'[t] = IF t = s THEN "live" ELSE run[t]
    BY <1>t, <2>1
  <2>. QED BY <1>t, <2>1, <2>2 DEF EntryIsExecuting, TypeOK
<1>2. ASSUME NEW w \in Workspace, NEW s \in Slot, RunFinalized(w, s)
      PROVE  EntryIsExecuting'
  <2>1. /\ s \in chain[w] /\ executingSlot' = executingSlot
        /\ run' = [run EXCEPT ![s] = "over"]
        /\ activeRun' = [activeRun EXCEPT ![w] = IF @ = s THEN NoSlot ELSE @]
    BY <1>2 DEF RunFinalized, queueVars, countVars
  <2>2. \A v \in Workspace : activeRun'[v] # NoSlot =>
           activeRun'[v] = activeRun[v] /\ activeRun[v] # s
    <3>. SUFFICES ASSUME NEW v \in Workspace, activeRun'[v] # NoSlot
                  PROVE  activeRun'[v] = activeRun[v] /\ activeRun[v] # s
      OBVIOUS
    <3>1. CASE v = w
      BY <1>t, <2>1, <3>1
    <3>2. CASE v # w
      BY <1>t, <1>e, <2>1, <3>2 DEF SlotFates
    <3>. QED BY <3>1, <3>2
  <2>3. \A t \in Slot : run'[t] = IF t = s THEN "over" ELSE run[t]
    BY <1>t, <2>1
  <2>. QED BY <1>t, <2>1, <2>2, <2>3 DEF EntryIsExecuting
<1>3. ASSUME NEW w \in Workspace, NEW s \in Slot, SettleAfterBody(w, s)
      PROVE  EntryIsExecuting'
  <2>1. /\ executingSlot' = [executingSlot EXCEPT ![w] = IF @ = s THEN NoSlot ELSE @]
        /\ UNCHANGED <<run, activeRun>> /\ IsHead(w, s)
        /\ phase[w] = "running" => run[s] = "over"
    BY <1>3 DEF SettleAfterBody, Settle, DecrementExecutingCount, runVars
  <2>2. activeRun[w] = NoSlot
    BY <1>e, <2>1 DEF EntryIsExecuting
  <2>3. \A v \in Workspace : v # w => executingSlot'[v] = executingSlot[v]
    BY <1>t, <2>1 DEF TypeOK
  <2>. QED BY <2>1, <2>2, <2>3 DEF EntryIsExecuting
<1>4. ASSUME NEW s \in Slot, RunEnds(s) PROVE EntryIsExecuting'
  <2>1. UNCHANGED <<executingSlot, activeRun>> /\ run' = [run EXCEPT ![s] = "ended"]
    BY <1>4 DEF RunEnds, queueVars, countVars
  <2>2. \A t \in Slot : run'[t] = IF t = s THEN "ended" ELSE run[t]
    BY <1>t, <2>1
  <2>. QED BY <1>t, <2>1, <2>2 DEF EntryIsExecuting
<1>5. ASSUME NEW h \in handlers, InterruptReturns(h) PROVE EntryIsExecuting'
  <2>1. /\ UNCHANGED <<executingSlot, run>>
        /\ activeRun' = [activeRun EXCEPT
             ![h.cwd] = IF h.run # NoSlot /\ @ = h.run THEN NoSlot ELSE @]
    BY <1>5 DEF InterruptReturns, ResetExecutingCount, queueVars, countVars
  <2>2. \A v \in Workspace : activeRun'[v] = NoSlot \/ activeRun'[v] = activeRun[v]
    BY <1>t, <2>1
  <2>. QED BY <2>1, <2>2 DEF EntryIsExecuting
<1>6. ASSUME NEW w \in Workspace, NEW m \in Message,
             \/ EnqueueWithCard(w, m) \/ QueueCancel(w, m) \/ QueueEdit(w, m)
             \/ QueueInput(w, m) \/ QueueImmediate(w, m)
      PROVE  EntryIsExecuting'
  BY <1>6, <1>f DEF EnqueueWithCard, Enqueue, QueueCancel, RemoveFromQueue, QueueEdit,
                    QueueInput, EditQueuedTask, QueueImmediate, queueVars, countVars, runVars
<1>7. ASSUME NEW w \in Workspace, Stop(w) PROVE EntryIsExecuting'
  BY <1>7, <1>f DEF Stop, queueVars, countVars, runVars
<1>8. ASSUME NEW w \in Workspace, NEW s \in Slot, SkipTask(w, s),
             UNCHANGED <<runVars, handlers, cardVars>>
      PROVE  EntryIsExecuting'
  BY <1>8, <1>f DEF SkipTask, countVars, runVars
<1>9. ASSUME NEW h \in handlers, ImmediateResumes(h) PROVE EntryIsExecuting'
  BY <1>9, <1>f DEF ImmediateResumes, countVars, runVars
<1>10. ASSUME NEW m \in Message, CardSent(m) \/ SendFailed(m) PROVE EntryIsExecuting'
  BY <1>10, <1>f DEF CardSent, SendFailed, queueVars, countVars, runVars
<1>11. ASSUME NEW u \in updates, UpdateResumes(u) \/ PatchLands(u) \/ PatchFails(u)
       PROVE  EntryIsExecuting'
  BY <1>11, <1>f DEF UpdateResumes, PatchLands, PatchFails, queueVars, countVars, runVars
<1>12. CASE UNCHANGED vars
  BY <1>12, <1>f DEF vars, queueVars, countVars, runVars
<1>. QED
  BY <1>1, <1>2, <1>3, <1>4, <1>5, <1>6, <1>7, <1>8, <1>9, <1>10, <1>11, <1>12
     DEF CardsNext

\* The lanes as the handlers leave them: the run that lives is the active one or stopped,
\* and a promised task that waits is next.
LanesInv == LiveIsActive /\ PromisedTaskIsNext

\* A step that starts no run, queues no task and promises nothing.
LEMMA LanesFrame ==
    ASSUME KeyInv, LanesInv, taskMsg' = taskMsg, marked' = marked, stopped \subseteq stopped',
           \A s \in Slot : HasBegun(s) => HasBegun(s)',
           \A s \in Slot : run'[s] = "live" => run[s] = "live",
           \A w \in Workspace :
              /\ chain'[w] \subseteq chain[w] /\ queuedTasks'[w] \subseteq queuedTasks[w]
              /\ \A t \in chain'[w] :
                    run'[t] = "live" /\ t \notin stopped' /\ activeRun[w] = t
                       => activeRun'[w] = t
    PROVE  LanesInv'
<1>t. TypeOK
  BY DEF KeyInv, CountInv
<1>1. LiveIsActive'
  BY <1>t DEF LanesInv, LiveIsActive, TypeOK
<1>2. PromisedTaskIsNext'
  <2>. SUFFICES ASSUME NEW w \in Workspace, NEW s \in queuedTasks'[w], taskMsg[s] \in marked
                PROVE  /\ \A t \in queuedTasks'[w] : s <= t
                       /\ \A t \in chain'[w] : run'[t] = "live" => t \in stopped'
    BY DEF PromisedTaskIsNext
  <2>1. /\ \A t \in queuedTasks[w] : s <= t
        /\ \A t \in chain[w] : run[t] = "live" => t \in stopped
    BY DEF LanesInv, PromisedTaskIsNext
  <2>. QED BY <1>t, <2>1 DEF TypeOK
<1>. QED BY <1>1, <1>2 DEF LanesInv

LEMMA LanesWhenQueued ==
    ASSUME KeyInv, CardsTell, LanesInv, RepeatedKey = {},
           NEW w \in Workspace, NEW m \in Message, EnqueueWithCard(w, m)
    PROVE  LanesInv'
<1>. DEFINE n == slotCounter + 1
<1>1. /\ Enqueue(w, m) /\ UNCHANGED <<run, activeRun, marked, stopped>>
      /\ taskMsg' = [taskMsg EXCEPT ![n] = m]
      /\ queuedTasks' = [queuedTasks EXCEPT ![w] = @ \cup {n}]
      /\ chain' = [chain EXCEPT ![w] = @ \cup {n}]
      /\ executed' = executed
  BY DEF EnqueueWithCard, Enqueue, MintSlot, runVars
<1>2. m \notin UsedKeys
  BY <1>1, EnqueueKeys
<1>3. /\ m \notin marked /\ TypeOK /\ Minted /\ SlotFates
      /\ \A v \in Workspace : LaneEntries(v)
  BY <1>2 DEF CardsTell, CardsAreMade, KeyInv, CountInv
<1>4. n \in Slot /\ \A s \in Slot : s <= slotCounter => s < n
  <2>1. slotCounter \in Nat /\ slotCounter < MaxSlot /\ MaxSlot \in Nat
    BY <1>1, <1>3, QueueAssumption DEF Enqueue, MintSlot, TypeOK
  <2>. QED BY <2>1 DEF Slot
<1>5. run[n] # "live"
  <2>1. ~(n <= slotCounter)
    BY <1>3, <1>4 DEF TypeOK
  <2>. QED BY <1>3, <1>4, <2>1 DEF LanesInv, LiveIsActive, SlotFates
<1>6. \A v \in Workspace :
         /\ queuedTasks'[v] = queuedTasks[v] \cup (IF v = w THEN {n} ELSE {})
         /\ chain'[v] = chain[v] \cup (IF v = w THEN {n} ELSE {})
  BY <1>1, <1>3 DEF TypeOK
<1>7. \A v \in Workspace : \A s \in queuedTasks[v] : s \in Slot /\ s < n /\ s # n
  BY <1>3, <1>4 DEF LaneEntries, Minted, TypeOK
<1>8. \A s \in Slot : s # n => taskMsg'[s] = taskMsg[s]
  BY <1>1, <1>3
<1>9. taskMsg'[n] = m
  BY <1>1, <1>3, <1>4 DEF TypeOK
<1>. HIDE DEF n
<1>10. LiveIsActive'
  BY <1>1, <1>5, <1>6 DEF LanesInv, LiveIsActive, HasBegun
<1>11. PromisedTaskIsNext'
  <2>. SUFFICES ASSUME NEW v \in Workspace, NEW s \in queuedTasks'[v], taskMsg'[s] \in marked
                PROVE  /\ \A t \in queuedTasks'[v] : s <= t
                       /\ \A t \in chain'[v] : run[t] = "live" => t \in stopped
    BY <1>1 DEF PromisedTaskIsNext
  <2>1. s # n /\ s \in queuedTasks[v] /\ taskMsg[s] \in marked
    BY <1>3, <1>6, <1>7, <1>8, <1>9
  <2>2. /\ \A t \in queuedTasks[v] : s <= t
        /\ \A t \in chain[v] : run[t] = "live" => t \in stopped
    BY <2>1 DEF LanesInv, PromisedTaskIsNext
  <2>3. s <= n
    BY <1>4, <1>7, <2>1 DEF Slot
  <2>. QED BY <1>5, <1>6, <2>2, <2>3
<1>. QED BY <1>10, <1>11 DEF LanesInv

LEMMA LanesWhenBegun ==
    ASSUME KeyInv, LanesInv, CardType, NEW w \in Workspace, NEW s \in Slot,
           BeginWithCard(w, s)
    PROVE  LanesInv'
<1>1. /\ IsHead(w, s) /\ phase[w] = "ready" /\ taskIndex[w][taskMsg[s]] # NoSlot
      /\ DropEntry(w, taskMsg[s])
      /\ run' = [run EXCEPT ![s] = "live"] /\ activeRun' = [activeRun EXCEPT ![w] = s]
      /\ UNCHANGED <<chain, taskMsg, marked, stopped>>
      /\ executed' = [executed EXCEPT ![s] = taskReplacements[w][taskMsg[s]]]
  BY DEF BeginWithCard, BeginTask, taskVars
<1>2. /\ TypeOK /\ Minted /\ SlotFates /\ LaneEntries(w)
      /\ \A v \in Workspace : LaneEntries(v)
  BY DEF KeyInv, CountInv
<1>3. taskIndex[w][taskMsg[s]] = s /\ s \in queuedTasks[w] /\ taskMsg[s] \in Message
  <2>1. taskIndex[w][taskMsg[s]] = s /\ taskMsg[s] \in QueuedKeys
    BY BeginKeys DEF BeginWithCard
  <2>. QED BY <1>1, <1>2, <2>1 DEF LaneEntries, QueuedKeys
<1>4. /\ queuedTasks'[w] = queuedTasks[w] \ {s}
      /\ \A v \in Workspace : v # w => queuedTasks'[v] = queuedTasks[v]
  <2>1. queuedTasks' = [queuedTasks EXCEPT ![w] = @ \ {taskIndex[w][taskMsg[s]]}]
    BY <1>1, <1>3, DropEntryRemovesTheIndexed
  <2>. QED BY <1>2, <1>3, <2>1 DEF TypeOK
<1>5. HasBegun(s)' /\ \A t \in Slot : t # s => (HasBegun(t)' <=> HasBegun(t))
  <2>1. taskReplacements[w][taskMsg[s]] \in Version
    BY <1>2, <1>3 DEF TypeOK
  <2>2. taskReplacements[w][taskMsg[s]] # NotRun
    BY <2>1, QueueAssumption DEF Version, NotRun
  <2>. QED BY <1>1, <1>2, <2>2 DEF TypeOK, HasBegun
<1>6. \A t \in chain[w] : ~HasBegun(t) /\ run[t] # "live" /\ s <= t /\ t \in Slot
  BY <1>1, <1>2 DEF LaneEntries, LanesInv, LiveIsActive, TypeOK, IsHead
<1>7. /\ \A t \in Slot : t # s => run'[t] = run[t]
      /\ activeRun'[w] = s /\ \A v \in Workspace : v # w => activeRun'[v] = activeRun[v]
  BY <1>1 DEF CardType
<1>8. \A v \in Workspace : \A t \in chain[v] : t = s => v = w
  BY <1>1, <1>2 DEF SlotFates, IsHead
<1>9. LiveIsActive'
  <2>1. \A t \in Slot : run'[t] = "live" => HasBegun(t)'
    BY <1>5, <1>7 DEF LanesInv, LiveIsActive
  <2>2. \A v \in Workspace : \A t \in chain[v] :
           run'[t] = "live" /\ t \notin stopped => activeRun'[v] = t
    <3>. SUFFICES ASSUME NEW v \in Workspace, NEW t \in chain[v], run'[t] = "live",
                         t \notin stopped
                  PROVE  activeRun'[v] = t
      OBVIOUS
    <3>0. t \in Slot
      BY <1>2 DEF TypeOK
    <3>1. CASE v = w
      BY <1>6, <1>7, <3>0, <3>1
    <3>2. CASE v # w
      BY <1>7, <1>8, <3>0, <3>2 DEF LanesInv, LiveIsActive
    <3>. QED BY <3>1, <3>2
  <2>. QED BY <1>1, <2>1, <2>2 DEF LiveIsActive
<1>10. PromisedTaskIsNext'
  <2>. SUFFICES ASSUME NEW v \in Workspace, NEW r \in queuedTasks'[v], taskMsg[r] \in marked
                PROVE  /\ \A t \in queuedTasks'[v] : r <= t
                       /\ \A t \in chain[v] : run'[t] = "live" => t \in stopped
    BY <1>1 DEF PromisedTaskIsNext
  <2>1. r \in queuedTasks[v]
    BY <1>4
  <2>2. /\ \A t \in queuedTasks[v] : r <= t
        /\ \A t \in chain[v] : run[t] = "live" => t \in stopped
    BY <2>1 DEF LanesInv, PromisedTaskIsNext
  <2>3. v # w
    <3>1. ASSUME v = w PROVE FALSE
      <4>1. r <= s /\ r # s
        BY <1>3, <1>4, <2>2, <3>1
      <4>2. r \in chain[w]
        BY <1>2, <2>1, <3>1 DEF LaneEntries
      <4>. QED BY <1>6, <4>1, <4>2 DEF Slot
    <3>. QED BY <3>1
  <2>4. \A t \in chain[v] : t \in Slot /\ t # s
    BY <1>2, <1>8, <2>3 DEF TypeOK
  <2>. QED BY <1>4, <1>7, <2>2, <2>3, <2>4
<1>. QED BY <1>9, <1>10 DEF LanesInv

LEMMA LanesWhenImmediate ==
    ASSUME KeyInv, LanesInv, CardType, NEW h, NEW w \in Workspace, h.cwd = w,
           h.target \in Message, ImmediateResumes(h)
    PROVE  LanesInv'
<1>. DEFINE target == taskIndex[w][h.target]
<1>1. /\ UNCHANGED <<taskMsg, chain, executed, run, activeRun, stopped>>
      /\ marked' = marked \cup Promised(h)
  BY DEF ImmediateResumes, taskVars, chainVars, countVars, runVars, Promised
<1>2. /\ queuedTasks'[w] = queuedTasks[w] \ Ahead(h) /\ TypeOK
      /\ \A v \in Workspace : v # w => queuedTasks'[v] = queuedTasks[v]
      /\ \A v \in Workspace : LaneEntries(v)
  BY ImmediateRemoves DEF KeyInv, CountInv
<1>3. \A v \in Workspace : queuedTasks'[v] \subseteq queuedTasks[v]
  BY <1>2
<1>4. LiveIsActive'
  BY <1>1 DEF LanesInv, LiveIsActive, HasBegun
<1>5. PromisedTaskIsNext'
  <2>. SUFFICES ASSUME NEW v \in Workspace, NEW s \in queuedTasks'[v], taskMsg[s] \in marked'
                PROVE  /\ \A t \in queuedTasks'[v] : s <= t
                       /\ \A t \in chain[v] : run[t] = "live" => t \in stopped
    BY <1>1 DEF PromisedTaskIsNext
  <2>0. s \in queuedTasks[v]
    BY <1>3
  <2>1. CASE taskMsg[s] \in marked
    BY <1>3, <2>0, <2>1 DEF LanesInv, PromisedTaskIsNext
  <2>2. CASE taskMsg[s] \in Promised(h)
    <3>1. taskMsg[s] = h.target /\ target # NoSlot /\ activeRun[w] = NoSlot
      BY <2>2 DEF Promised
    <3>2. taskIndex[v][h.target] = s /\ s # NoSlot
      BY <1>2, <2>0, <3>1 DEF LaneEntries, TypeOK, Slot
    <3>3. v = w /\ target = s
      BY <3>1, <3>2, IndexNamesTheTask
    <3>4. \A t \in queuedTasks'[w] : ~(target # NoSlot /\ t < target) /\ t \in Slot
      BY <1>2 DEF Ahead, TasksAhead, TypeOK
    <3>5. \A t \in queuedTasks'[w] : s <= t
      BY <1>2, <2>0, <3>1, <3>3, <3>4 DEF TypeOK, Slot
    <3>6. \A t \in chain[w] : run[t] = "live" => t \in stopped
      BY <1>2, <3>1 DEF LanesInv, LiveIsActive, TypeOK, Slot
    <3>. QED BY <3>3, <3>5, <3>6
  <2>. QED BY <1>1, <2>1, <2>2
<1>. QED BY <1>4, <1>5 DEF LanesInv

LEMMA LanesNext ==
    ASSUME KeyInv, HandlersInv, CardsTell, LanesInv, RepeatedKey = {}, [CardsNext]_vars
    PROVE  LanesInv'
<1>b. \A s \in Slot : HasBegun(s) => HasBegun(s)'
  BY BegunStaysUnderCards
<1>t. CardType /\ TypeOK /\ \A v \in Workspace : LaneEntries(v)
  BY DEF CardsTell, KeyInv, CountInv
<1>f. ASSUME UNCHANGED <<taskMsg, chain, queuedTasks, run, activeRun, marked, stopped>>
      PROVE  LanesInv'
  BY <1>b, <1>f, LanesFrame
<1>1. ASSUME NEW w \in Workspace, NEW m \in Message, EnqueueWithCard(w, m)
      PROVE  LanesInv'
  BY <1>1, LanesWhenQueued
<1>2. ASSUME NEW w \in Workspace, NEW m \in Message, QueueCancel(w, m)
      PROVE  LanesInv'
  <2>1. /\ UNCHANGED <<taskMsg, chain, run, activeRun, marked, stopped>>
        /\ DropEntry(w, m)
    BY <1>2 DEF QueueCancel, RemoveFromQueue, taskVars, chainVars, countVars, runVars
  <2>2. \A v \in Workspace : queuedTasks'[v] \subseteq queuedTasks[v]
    BY <1>t, <2>1 DEF DropEntry, TypeOK
  <2>. QED BY <1>b, <2>1, <2>2, LanesFrame
<1>3. ASSUME NEW w \in Workspace, NEW m \in Message,
             QueueEdit(w, m) \/ QueueInput(w, m) \/ QueueImmediate(w, m)
      PROVE  LanesInv'
  BY <1>3, <1>f DEF QueueEdit, QueueInput, QueueImmediate, EditQueuedTask, queueVars,
                    taskVars, chainVars, listVars, countVars, runVars, cardVars
<1>4. ASSUME NEW w \in Workspace, Stop(w) PROVE LanesInv'
  BY <1>4, <1>f DEF Stop, queueVars, taskVars, chainVars, listVars, countVars, runVars,
                    cardVars
<1>5. ASSUME NEW w \in Workspace, NEW s \in Slot, BeginWithCard(w, s)
      PROVE  LanesInv'
  BY <1>5, <1>t, LanesWhenBegun
<1>6. ASSUME NEW w \in Workspace, NEW s \in Slot, RunFinalized(w, s)
      PROVE  LanesInv'
  <2>1. /\ UNCHANGED <<taskMsg, chain, queuedTasks, marked, stopped>>
        /\ run' = [run EXCEPT ![s] = "over"]
        /\ activeRun' = [activeRun EXCEPT ![w] = IF @ = s THEN NoSlot ELSE @]
    BY <1>6 DEF RunFinalized, queueVars, taskVars, chainVars, listVars, countVars, cardVars
  <2>2. /\ \A t \in Slot : run'[t] = "live" => run[t] = "live" /\ t # s
        /\ \A v \in Workspace : activeRun'[v] = activeRun[v] \/ activeRun[v] = s
    BY <1>t, <2>1 DEF CardType
  <2>3. \A v \in Workspace : \A t \in chain[v] :
           run'[t] = "live" /\ activeRun[v] = t => activeRun'[v] = t
    BY <1>t, <2>2 DEF TypeOK
  <2>. QED BY <1>b, <2>1, <2>2, <2>3, LanesFrame
<1>7. ASSUME NEW w \in Workspace, NEW s \in Slot, SettleAfterBody(w, s)
      PROVE  LanesInv'
  <2>1. /\ UNCHANGED <<taskMsg, queuedTasks, run, activeRun, marked, stopped>>
        /\ chain' = [chain EXCEPT ![w] = @ \ {s}]
    BY <1>7 DEF SettleAfterBody, Settle, DecrementExecutingCount, taskVars, listVars,
                runVars, cardVars
  <2>2. \A v \in Workspace : chain'[v] \subseteq chain[v]
    BY <1>t, <2>1 DEF TypeOK
  <2>. QED BY <1>b, <2>1, <2>2, LanesFrame
<1>8. ASSUME NEW w \in Workspace, NEW s \in Slot, SkipTask(w, s),
             UNCHANGED <<runVars, handlers, cardVars>>
      PROVE  LanesInv'
  BY <1>8, <1>f DEF SkipTask, taskVars, listVars, countVars, runVars, cardVars
<1>9. ASSUME NEW s \in Slot, RunEnds(s) PROVE LanesInv'
  <2>1. /\ UNCHANGED <<taskMsg, chain, queuedTasks, activeRun, marked, stopped>>
        /\ run' = [run EXCEPT ![s] = "ended"]
    BY <1>9 DEF RunEnds, queueVars, taskVars, chainVars, listVars, countVars, cardVars
  <2>2. \A t \in Slot : run'[t] = "live" => run[t] = "live"
    BY <1>t, <2>1 DEF CardType
  <2>. QED BY <1>b, <2>1, <2>2, LanesFrame
<1>10. ASSUME NEW h \in handlers, InterruptReturns(h) PROVE LanesInv'
  <2>1. /\ UNCHANGED <<taskMsg, chain, queuedTasks, run, marked>>
        /\ activeRun' = [activeRun EXCEPT
             ![h.cwd] = IF h.run # NoSlot /\ @ = h.run THEN NoSlot ELSE @]
    BY <1>10 DEF InterruptReturns, ResetExecutingCount, queueVars, taskVars, chainVars,
                 listVars, cardVars
  <2>s. /\ stopped \subseteq stopped'
        /\ h.run # NoSlot => h.run \in stopped'
    <3>1. stopped' = IF h.slot # NoSlot THEN stopped \cup {h.slot} ELSE stopped
      BY <1>10 DEF InterruptReturns, ResetExecutingCount, queueVars, countVars
    <3>2. h.run # NoSlot => h.slot = h.run
      BY DEF HandlersInv
    <3>. QED BY <3>1, <3>2
  <2>2. \A v \in Workspace :
           \/ activeRun'[v] = activeRun[v]
           \/ h.run # NoSlot /\ activeRun[v] = h.run
    BY <1>t, <2>1 DEF CardType
  <2>3. \A v \in Workspace : \A t \in chain[v] :
           run[t] = "live" /\ t \notin stopped' /\ activeRun[v] = t => activeRun'[v] = t
    BY <2>s, <2>2
  <2>. QED BY <1>b, <2>1, <2>s, <2>3, LanesFrame
<1>11. ASSUME NEW h \in handlers, ImmediateResumes(h) PROVE LanesInv'
  <2>1. h.cwd \in Workspace /\ h.target \in Message
    BY <1>11 DEF HandlersInv, Handler, ImmediateResumes
  <2>. QED BY <1>11, <1>t, <2>1, LanesWhenImmediate
<1>12. ASSUME NEW m \in Message, CardSent(m) \/ SendFailed(m) PROVE LanesInv'
  BY <1>12, <1>f DEF CardSent, SendFailed, queueVars, taskVars, chainVars, listVars, countVars,
                     runVars
<1>13. ASSUME NEW u \in updates, UpdateResumes(u) \/ PatchLands(u) \/ PatchFails(u)
       PROVE  LanesInv'
  BY <1>13, <1>f DEF UpdateResumes, PatchLands, PatchFails, queueVars, taskVars, chainVars,
                     listVars, countVars, runVars
<1>14. CASE UNCHANGED vars
  BY <1>14, <1>f DEF vars, queueVars, taskVars, chainVars, listVars, countVars, runVars,
                     cardVars
<1>. QED
  BY <1>1, <1>2, <1>3, <1>4, <1>5, <1>6, <1>7, <1>8, <1>9, <1>10, <1>11, <1>12, <1>13,
     <1>14 DEF CardsNext

-----------------------------------------------------------------------------
(* The theorems                                                            *)

CardInv == KeyInv /\ HandlersInv /\ EntryIsExecuting /\ CardsTell /\ LanesInv

LEMMA CardInvInit == CardsInit => CardInv
<1>. SUFFICES ASSUME CardsInit PROVE CardInv
  OBVIOUS
<1>1. KeyInv
  BY KeyInvInit DEF CardsInit
<1>2. HandlersInv
  BY DEF CardsInit, HandlersInv
<1>e. EntryIsExecuting
  BY DEF CardsInit, EntryIsExecuting
<1>3. ~(\E s \in Slot : HasBegun(s)) /\ removed = {}
      /\ \A w \in Workspace : queuedTasks[w] = {} /\ chain[w] = {}
  BY DEF CardsInit, QueueInit, HasBegun
<1>4. QueuedKeys = {} /\ BegunKeys = {} /\ GoneKeys = {}
  BY <1>3 DEF CardsInit, QueueInit, QueuedKeys, StillQueued, BegunKeys, GoneKeys
<1>5. CardsTell
  BY <1>4 DEF CardsInit, CardsTell, CardType, CardsAreMade, UpdatesAreTrue,
              UnmappedIsPromised, BegunIsTold, GoneIsTold, NoneForgotten
<1>6. LanesInv
  BY <1>3 DEF CardsInit, LanesInv, LiveIsActive, PromisedTaskIsNext
<1>. QED BY <1>1, <1>2, <1>e, <1>5, <1>6 DEF CardInv

LEMMA CardInvariant ==
    ASSUME RepeatedKey = {}
    PROVE  CardsSpec => []CardInv
<1>1. CardInv /\ [CardsNext]_vars => CardInv'
  BY KeysUnderCards, HandlersNext, EntryNext, CardsTellNext, LanesNext DEF CardInv, CardsTell
<1>. QED BY <1>1, CardInvInit, PTL DEF CardsSpec

\* A queue status card that has come to rest tells what became of its task:
\* updateQueueCardToExecuting and updateQueueCardToCancelled read the mapping
\* before they await the send, and no order of the send, the patches, a cancel
\* and a "run now" leaves the card of a task that ran at "cancelled" or at
\* "queued", nor that of a cancelled one at "executing" unless it was promised.
THEOREM CardsAtRestAreTrue ==
    ASSUME RepeatedKey = {}
    PROVE  CardsSpec => []CardTellsFate
<1>1. CardInv => CardTellsFate
  <2>. SUFFICES ASSUME CardInv, NEW m \in Message, CardAtRest(m), NEW s \in SlotOf(m)
                PROVE  /\ HasBegun(s) => cardShown[m] = "executing"
                       /\ s \in removed /\ m \notin marked => cardShown[m] = "cancelled"
    BY DEF CardTellsFate
  <2>1. CardMade(m) /\ m \notin blurred /\ \A u \in updates : u.msg # m
    BY DEF CardAtRest, CardMade
  <2>2. s \in Slot /\ taskMsg[s] = m
    BY DEF SlotOf
  <2>3. HasBegun(s) => m \in BegunKeys
    BY <2>2 DEF BegunKeys
  <2>4. s \in removed => m \in GoneKeys
    BY <2>2 DEF GoneKeys
  <2>5. HasBegun(s) => cardShown[m] = "executing"
    BY <2>1, <2>3 DEF CardInv, CardsTell, BegunIsTold
  <2>6. s \in removed /\ m \notin marked => cardShown[m] = "cancelled"
    BY <2>1, <2>4 DEF CardInv, CardsTell, GoneIsTold
  <2>. QED BY <2>5, <2>6
<1>. QED BY <1>1, CardInvariant, PTL

\* A task the user was told runs now, and that still waits, is the first of its
\* lane, and no run lives in that lane but one that was stopped: whatever is
\* enqueued, cancelled, edited or promised while handleQueueImmediate awaits the
\* stop of the current run, and though that stop does not await the run's end.
THEOREM PromisesAreKept ==
    ASSUME RepeatedKey = {}
    PROVE  CardsSpec => []PromisedTaskIsNext
<1>1. CardInv => PromisedTaskIsNext
  BY DEF CardInv, LanesInv
<1>. QED BY <1>1, CardInvariant, PTL

\* An entry of queueCardMessages goes with its task: every path out of the
\* queue, a failed send and a failed patch included, leads to its deletion.
THEOREM CardsAreForgotten ==
    ASSUME RepeatedKey = {}
    PROVE  CardsSpec => []NoCardForgotten
<1>1. CardInv => NoCardForgotten
  BY DEF CardInv, CardsTell, CardType, NoneForgotten, NoCardForgotten, QueuedKeys
<1>. QED BY <1>1, CardInvariant, PTL
=============================================================================
