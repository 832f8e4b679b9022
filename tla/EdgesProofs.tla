----------------------------- MODULE EdgesProofs -----------------------------
(***************************************************************************)
(* Proofs about the five components at the edges of the bridge that share  *)
(* a run: the handoff of a session that overflowed (RecoveryHandoff), the  *)
(* cutting of what arrives into turns (TurnAssembler), the streaming card  *)
(* (CardStream), the lock of the one instance that runs (InstanceLock),    *)
(* and the session the next run resumes (SessionPointers).                 *)
(***************************************************************************)
EXTENDS RecoveryHandoff, TurnAssembler, CardStream, InstanceLock, SessionPointers,
        SequenceTheorems, WellFoundedInduction, TLAPS

(***************************************************************************)
(* The handoff, for any number of sessions, runs and messages that wait: a *)
(* session whose context overflowed is left, and a handoff is published    *)
(* once.  Both rest on what the record, the copy that sync works on and    *)
(* the memory service say of one another between two steps.                *)
(***************************************************************************)

USE RecoveryAssumption DEF NoSession

Pending == [id : Nat, old : Nat, target : Nat,
            reason : {"none", "overflow", "error", "idle"}, acknowledged : BOOLEAN,
            memory : Nat, memoryAcknowledged : BOOLEAN]
Phases == {"idle", "running", "ended", "sync", "begin", "accept"}
Endings == {"done", "overflow", "error", "idle", "interrupted"}
RecoveryRun == [phase : Phases, from : Nat, original : Nat, session : Nat,
                recovery : Nat, copy : Pending,
                how : Endings \cup {"none"}]
Handoff == [marker : Nat, accepted : BOOLEAN]

RecoveryType ==
    /\ record \in [pending : Pending, checkpoint : Nat]
    /\ pointer \in Nat
    /\ sessions \in Nat
    /\ lane \in Seq(Nat)
    /\ rrun \in RecoveryRun
    /\ ran \in Nat
    /\ service \in Seq(Handoff)
    /\ spilled \in Nat
    /\ unrecorded \in BOOLEAN
    /\ resumed \subseteq Nat /\ hampered \subseteq Nat

\* A run that is on has been counted, and no overflow is told since it began; what
\* overflowed when it ended is its own session.
RunCounted ==
    /\ rrun.phase \in {"running", "ended"} => ran # 0
    /\ rrun.phase = "running" => spilled = NoSession
    /\ rrun.phase = "ended" =>
          /\ rrun.how \in Endings
          /\ spilled # NoSession => rrun.how = "overflow" /\ spilled = RunSession

\* The copy that is published or accepted is the record but for its handoff, and
\* one that is published has no handoff at the service yet.
CopyInv ==
    /\ rrun.phase \in {"begin", "accept"} =>
          /\ rrun.copy.id = record.pending.id
          /\ rrun.copy.old = record.pending.old
          /\ rrun.copy.target = record.pending.target
          /\ rrun.copy.reason = record.pending.reason
          /\ rrun.copy.acknowledged = record.pending.acknowledged
    /\ rrun.phase = "begin" =>
          \A i \in DOMAIN service : service[i].marker # rrun.copy.id

\* The record of an overflow names the session to leave, and no replacement yet.
SpilledIsOld ==
    spilled # NoSession /\ ~unrecorded =>
        /\ record.pending.id # NoSession
        /\ record.pending.old = spilled
        /\ record.pending.target = NoSession
        /\ record.pending.reason = "overflow"
        /\ ~record.pending.acknowledged

RecoveryInv ==
    /\ RecoveryType
    /\ RunCounted
    /\ CopyInv
    /\ SpilledIsOld
    /\ OverflowIsLeft
    /\ HandoffPublishedOnce

LEMMA RecoveryInvInit == RecoveryInit => RecoveryInv
<1>. SUFFICES ASSUME RecoveryInit PROVE RecoveryInv
  OBVIOUS
<1>. USE DEF RecoveryInit
<1>1. NoPending \in Pending
  BY DEF NoPending, Pending
<1>2. NoRecoveryRun \in RecoveryRun /\ NoRecoveryRun.phase = "idle"
  BY <1>1 DEF NoRecoveryRun, RecoveryRun, Phases
<1>3. service = <<>> /\ lane = <<>> /\ DOMAIN service = {}
  OBVIOUS
<1>4. RecoveryType
  <2>1. lane \in Seq(Nat) /\ service \in Seq(Handoff)
    BY <1>3, EmptySeq
  <2>2. record \in [pending : Pending, checkpoint : Nat]
    BY <1>1
  <2>3. rrun \in RecoveryRun
    BY <1>2
  <2>4. pointer \in Nat /\ sessions \in Nat /\ ran \in Nat /\ spilled \in Nat
    OBVIOUS
  <2>5. unrecorded \in BOOLEAN /\ resumed \subseteq Nat /\ hampered \subseteq Nat
    OBVIOUS
  <2>. QED BY <2>1, <2>2, <2>3, <2>4, <2>5 DEF RecoveryType
<1>. QED
  BY <1>2, <1>3, <1>4
     DEF RecoveryInv, RunCounted, CopyInv, SpilledIsOld, OverflowIsLeft, HandoffPublishedOnce

-----------------------------------------------------------------------------
(* Operators                                                               *)

\* Whatever session a message continues, it is not sent to the one that spilled.
LEMMA PrepareLeaves ==
    ASSUME RecoveryType, SpilledIsOld, spilled # NoSession, ~unrecorded, NEW id \in Nat
    PROVE  Prepare(id).from # spilled
<1>. DEFINE p == record.pending
<1>1. ~(id = p.old /\ p.target \notin {NoSession, id})
  BY DEF SpilledIsOld
<1>2. CASE id = NoSession \/ id \notin {p.old, p.target}
  <2>1. Prepare(id).from = id
    BY <1>2 DEF Prepare
  <2>. QED BY <1>2, <2>1 DEF SpilledIsOld
<1>3. CASE id # NoSession /\ id \in {p.old, p.target}
  <2>1. Prepare(id).from = NoSession
    BY <1>3 DEF Prepare, SpilledIsOld
  <2>. QED BY <2>1
<1>. QED BY <1>2, <1>3

LEMMA PrepareType ==
    ASSUME RecoveryType, NEW id \in Nat
    PROVE  Prepare(id).from \in Nat /\ Prepare(id).recovery \in Nat
BY DEF Prepare, RecoveryType, Pending

\* A failure is recorded under a marker; an overflow as a session to leave.
LEMMA FailedRecord ==
    ASSUME RecoveryType, NEW how \in {"overflow", "error", "idle"}, NEW id \in Nat
    PROVE  /\ Failed(how, id) \in Pending
           /\ how = "overflow" /\ ran # 0 =>
                 /\ Failed(how, id).id # NoSession
                 /\ Failed(how, id).old = id
                 /\ Failed(how, id).target = NoSession
                 /\ Failed(how, id).reason = "overflow"
                 /\ ~Failed(how, id).acknowledged
<1>. DEFINE p == record.pending
            continuing == p.id # NoSession /\ rrun.recovery = p.id
<1>1. p \in Pending /\ ran \in Nat
  BY DEF RecoveryType
<1>2. CASE continuing
  BY <1>1, <1>2 DEF Failed, Pending
<1>3. CASE ~continuing
  BY <1>1, <1>3 DEF Failed, Pending, NoPending
<1>. QED BY <1>2, <1>3

-----------------------------------------------------------------------------
(* Every step keeps the invariant                                          *)

LEMMA RecoveryNextInv == RecoveryInv /\ [RecoveryNext]_recoveryVars => RecoveryInv'
<1>. SUFFICES ASSUME RecoveryInv, [RecoveryNext]_recoveryVars PROVE RecoveryInv'
  OBVIOUS
<1>t. /\ RecoveryType /\ RunCounted /\ CopyInv /\ SpilledIsOld
      /\ OverflowIsLeft /\ HandoffPublishedOnce
  BY DEF RecoveryInv
<1>n. NoRecoveryRun \in RecoveryRun /\ NoRecoveryRun.phase = "idle"
  BY DEF NoRecoveryRun, RecoveryRun, Phases, NoPending, Pending
<1>. USE DEF RecoveryInv
<1>0. CASE UNCHANGED recoveryVars
  BY <1>0, <1>t DEF recoveryVars, ghosts, RecoveryType, RunCounted, RunSession, CopyInv, SpilledIsOld,
                    OverflowIsLeft, HandoffPublishedOnce
<1>1. CASE Message \/ ForgetSession
  <2>1. UNCHANGED <<record, sessions, rrun, ran, service, ghosts>>
    BY <1>1 DEF Message, ForgetSession
  <2>g. UNCHANGED <<spilled, unrecorded, resumed, hampered>>
    BY <2>1 DEF ghosts
  <2>2. pointer' \in Nat
    BY <1>1, <1>t DEF Message, ForgetSession, RecoveryType
  <2>3. lane' \in Seq(Nat)
    <3>1. lane \in Seq(Nat) /\ pointer \in Nat
      BY <1>t DEF RecoveryType
    <3>2. CASE lane' = lane
      BY <3>1, <3>2
    <3>3. CASE lane' = Append(lane, pointer)
      BY <3>1, <3>3
    <3>. QED BY <1>1, <3>2, <3>3 DEF Message, ForgetSession
  <2>. QED
    BY <1>t, <2>1, <2>g, <2>2, <2>3
       DEF RecoveryType, RunCounted, RunSession, CopyInv, SpilledIsOld, OverflowIsLeft,
           HandoffPublishedOnce
<1>2. ASSUME NEW command \in BOOLEAN, NEW prepared \in BOOLEAN, Begin(command, prepared)
      PROVE  RecoveryInv'
  <2>. DEFINE id == IF Head(lane) # NoSession THEN Head(lane) ELSE pointer
              way == IF prepared THEN Prepare(id) ELSE [recovery |-> NoSession, from |-> id]
              goesBack == ~command /\ spilled # NoSession /\ way.from = spilled
  <2>1. /\ rrun' = [NoRecoveryRun EXCEPT !.phase = "running", !.from = way.from,
                                         !.original = id, !.recovery = way.recovery]
        /\ resumed' = resumed \cup (IF goesBack THEN {ran'} ELSE {})
        /\ hampered' = hampered \cup
              (IF ~command /\ (~prepared \/ unrecorded) THEN {ran'} ELSE {})
        /\ spilled' = NoSession /\ unrecorded' = FALSE
        /\ ran' = ran + 1 /\ lane' = Tail(lane) /\ lane # <<>>
        /\ UNCHANGED <<record, pointer, sessions, service>>
    BY <1>2 DEF Begin
  <2>2. id \in Nat /\ lane' \in Seq(Nat)
    BY <1>t, <2>1 DEF RecoveryType
  <2>3. way.from \in Nat /\ way.recovery \in Nat
    BY <1>t, <2>2, PrepareType
  <2>4. goesBack => ~command /\ (~prepared \/ unrecorded)
    BY <1>t, <2>2, PrepareLeaves
  <2>. HIDE DEF id, way, goesBack
  <2>5. rrun' \in RecoveryRun /\ rrun'.phase = "running"
    BY <1>n, <2>1, <2>2, <2>3 DEF RecoveryRun, Phases
  <2>6. resumed' \subseteq hampered' /\ resumed' \subseteq Nat /\ hampered' \subseteq Nat
    BY <1>t, <2>1, <2>4 DEF OverflowIsLeft, RecoveryType
  <2>7. RecoveryType'
    <3>1. ran \in Nat /\ ran' = ran + 1 /\ spilled' = NoSession /\ unrecorded' = FALSE
      BY <1>t, <2>1 DEF RecoveryType
    <3>2. unrecorded' \in BOOLEAN
      BY ONLY <3>1
    <3>3. ran' \in Nat /\ spilled' \in Nat
      BY ONLY <3>1
    <3>4. /\ record' \in [pending : Pending, checkpoint : Nat] /\ pointer' \in Nat
          /\ sessions' \in Nat /\ service' \in Seq(Handoff)
      BY ONLY <1>t, <2>1 DEF RecoveryType
    <3>. QED BY ONLY <2>2, <2>5, <2>6, <3>2, <3>3, <3>4 DEF RecoveryType
  <2>. QED
    BY <1>t, <2>1, <2>5, <2>6, <2>7
       DEF RunCounted, CopyInv, SpilledIsOld, OverflowIsLeft, HandoffPublishedOnce, RecoveryType
<1>3. ASSUME NEW moved \in BOOLEAN, NEW bound \in BOOLEAN, Told(moved, bound)
      PROVE  RecoveryInv'
  <2>1. /\ sessions' \in Nat /\ rrun'.session \in Nat
        /\ rrun' = [rrun EXCEPT !.session = rrun'.session]
        /\ rrun.phase = "running"
        /\ pointer' = (IF moved THEN pointer ELSE rrun'.session)
        /\ record' = (IF moved \/ ~bound THEN record ELSE Bound(rrun'.session))
        /\ UNCHANGED <<lane, ran, service, spilled, unrecorded, resumed, hampered>>
    BY <1>3, <1>t DEF Told, ghosts, RecoveryType, RecoveryRun
  <2>2. rrun' \in RecoveryRun /\ rrun'.phase = "running"
    BY <1>t, <2>1 DEF RecoveryType, RecoveryRun, Phases
  <2>3. record' \in [pending : Pending, checkpoint : Nat]
    BY <1>t, <2>1 DEF RecoveryType, Bound, Pending
  <2>4. RecoveryType'
    BY <1>t, <2>1, <2>2, <2>3 DEF RecoveryType
  <2>. QED
    BY <1>t, <2>1, <2>2, <2>4
       DEF RunCounted, CopyInv, SpilledIsOld, OverflowIsLeft, HandoffPublishedOnce
<1>4. ASSUME NEW how \in Endings, RunEnds(how) PROVE RecoveryInv'
  <2>1. /\ rrun.phase = "running" /\ ran # 0 /\ rrun \in RecoveryRun
        /\ rrun' = [rrun EXCEPT !.phase = "ended", !.how = how]
        /\ spilled' = (IF how = "overflow" THEN RunSession ELSE NoSession)
        /\ unrecorded' = (spilled' # NoSession)
        /\ UNCHANGED <<record, pointer, sessions, lane, ran, service, resumed, hampered>>
    BY <1>4, <1>t DEF RunEnds, RunCounted, RecoveryType
  <2>2. /\ rrun' \in RecoveryRun /\ rrun'.phase = "ended" /\ rrun'.how = how
        /\ rrun'.session = rrun.session /\ rrun'.original = rrun.original
        /\ RunSession \in Nat
    BY <2>1 DEF RecoveryRun, Phases, RunSession
  <2>3. RecoveryType'
    BY <1>t, <2>1, <2>2 DEF RecoveryType
  <2>4. SpilledIsOld' /\ RunCounted'
    BY <2>1, <2>2 DEF SpilledIsOld, RunCounted, RunSession
  <2>. QED
    BY <1>t, <2>1, <2>2, <2>3, <2>4 DEF CopyInv, OverflowIsLeft, HandoffPublishedOnce
<1>12. CASE RecordRun
  <2>. DEFINE carried == rrun.recovery # NoSession /\ record.pending.id = rrun.recovery
              id == RunSession
              how == rrun.how
  <2>1. /\ rrun.phase = "ended" /\ ran # 0 /\ how \in Endings
        /\ spilled # NoSession => how = "overflow" /\ spilled = id
        /\ rrun' = [rrun EXCEPT !.phase = "sync"] /\ unrecorded' = FALSE
        /\ UNCHANGED <<pointer, sessions, lane, ran, service, spilled, resumed, hampered>>
    BY <1>12, <1>t DEF RecordRun, RunCounted
  <2>2. rrun' \in RecoveryRun /\ rrun'.phase = "sync" /\ id \in Nat
    BY <1>t, <2>1 DEF RecoveryType, RecoveryRun, Phases, RunSession
  <2>3. record' \in [pending : Pending, checkpoint : Nat] /\ SpilledIsOld'
    <3>1. CASE id = NoSession \/ how = "interrupted"
      BY <1>12, <1>t, <2>1, <3>1 DEF RecordRun, RecoveryType, SpilledIsOld
    <3>2. CASE id # NoSession /\ how = "done"
      <4>1. record' = [checkpoint |-> id,
                       pending |-> [record.pending EXCEPT !.acknowledged = @ \/ carried]]
        BY <1>12, <3>2 DEF RecordRun
      <4>. QED BY <1>t, <2>1, <2>2, <3>2, <4>1 DEF RecoveryType, Pending, SpilledIsOld
    <3>3. CASE id # NoSession /\ how \in {"overflow", "error", "idle"}
      <4>1. record' = [record EXCEPT !.pending = Failed(how, id)]
        BY <1>12, <3>3 DEF RecordRun
      <4>2. /\ Failed(how, id) \in Pending
            /\ how = "overflow" => /\ Failed(how, id).id # NoSession
                                   /\ Failed(how, id).old = id
                                   /\ Failed(how, id).target = NoSession
                                   /\ Failed(how, id).reason = "overflow"
                                   /\ ~Failed(how, id).acknowledged
        BY <1>t, <2>1, <2>2, <3>3, FailedRecord
      <4>. HIDE DEF id, how
      <4>3. record' \in [pending : Pending, checkpoint : Nat] /\ record'.pending = Failed(how, id)
        BY <1>t, <4>1, <4>2 DEF RecoveryType
      <4>. QED BY <2>1, <2>2, <4>1, <4>2, <4>3 DEF SpilledIsOld
    <3>. QED BY <2>1, <3>1, <3>2, <3>3 DEF Endings
  <2>4. RecoveryType'
    BY <1>t, <2>1, <2>2, <2>3 DEF RecoveryType
  <2>. QED
    BY <1>t, <2>1, <2>2, <2>3, <2>4
       DEF RunCounted, CopyInv, OverflowIsLeft, HandoffPublishedOnce
<1>13. CASE RecordFails
  <2>1. /\ rrun' = NoRecoveryRun
        /\ UNCHANGED <<record, pointer, sessions, lane, ran, service,
                       spilled, unrecorded, resumed, hampered>>
    BY <1>13 DEF RecordFails, ghosts
  <2>. QED
    BY <1>n, <1>t, <2>1 DEF RecoveryType, RunCounted, CopyInv, SpilledIsOld, OverflowIsLeft,
                            HandoffPublishedOnce
\* Sync ends with the record, or with one that differs from it in its handoff only.
<1>5. ASSUME NEW q \in Pending, SyncEnds([record EXCEPT !.pending = q]),
             q.id = record.pending.id, q.old = record.pending.old,
             q.target = record.pending.target, q.reason = record.pending.reason,
             q.acknowledged = record.pending.acknowledged,
             service' \in Seq(Handoff), HandoffPublishedOnce',
             UNCHANGED <<pointer, sessions, lane, ran, spilled, unrecorded, resumed, hampered>>
      PROVE  RecoveryInv'
  <2>1. record' \in [pending : Pending, checkpoint : Nat] /\ record'.pending = q
    BY <1>t, <1>5 DEF SyncEnds, RecoveryType
  <2>2. rrun' \in RecoveryRun /\ rrun'.phase = "idle"
    BY <1>n, <1>5 DEF SyncEnds
  <2>3. RecoveryType'
    BY <1>t, <1>5, <2>1, <2>2 DEF RecoveryType
  <2>. QED
    BY <1>t, <1>5, <2>1, <2>2, <2>3 DEF RunCounted, CopyInv, SpilledIsOld, OverflowIsLeft
<1>6. record.pending \in Pending /\ record = [record EXCEPT !.pending = record.pending]
  BY <1>t DEF RecoveryType
<1>7. CASE SyncFails
  BY <1>5, <1>6, <1>7, <1>t DEF SyncFails, ghosts, HandoffPublishedOnce, RecoveryType
<1>8. CASE SyncLists
  <2>. DEFINE p == record.pending
              found == IF p.memory # NoSession THEN p.memory
                       ELSE IF Marked(p.id) # {} THEN CHOOSE i \in Marked(p.id) : TRUE
                       ELSE NoSession
              q == [p EXCEPT !.memory = found]
  <2>1. UNCHANGED <<pointer, sessions, lane, ran, service, spilled, unrecorded, resumed,
                    hampered>>
    BY <1>8 DEF SyncLists, ghosts
  <2>2. found \in Nat
    <3>1. Marked(p.id) \subseteq Nat
      BY <1>t DEF Marked, RecoveryType
    <3>. QED BY <1>6, <3>1 DEF Pending
  <2>3. q \in Pending /\ q = [p EXCEPT !.memory = q.memory]
    BY <1>6, <2>2 DEF Pending
  <2>4. HandoffPublishedOnce' /\ service' \in Seq(Handoff)
    BY <1>t, <2>1 DEF HandoffPublishedOnce, RecoveryType
  <2>5. CASE p.id = NoSession \/ p.memoryAcknowledged
    BY <1>5, <1>6, <1>8, <2>1, <2>4, <2>5 DEF SyncLists
  <2>6. CASE /\ ~(p.id = NoSession \/ p.memoryAcknowledged)
             /\ found = NoSession /\ ~p.acknowledged
    <3>1. rrun' = [rrun EXCEPT !.phase = "begin", !.copy = q] /\ UNCHANGED record
      BY <1>8, <2>6 DEF SyncLists
    <3>2. \A i \in DOMAIN service : service[i].marker # p.id
      <4>1. Marked(p.id) = {}
        BY <1>t, <2>6 DEF Marked, RecoveryType
      <4>. QED BY <4>1 DEF Marked
    <3>. HIDE DEF found
    <3>3. /\ rrun' \in RecoveryRun /\ rrun'.phase = "begin" /\ rrun'.copy = q
      BY <1>t, <2>3, <3>1 DEF RecoveryType, RecoveryRun, Phases
    <3>4. RecoveryType'
      BY <1>t, <2>1, <3>1, <3>3 DEF RecoveryType
    <3>. QED
      BY <1>t, <1>6, <2>1, <2>4, <3>1, <3>2, <3>3, <3>4
         DEF RunCounted, CopyInv, SpilledIsOld, OverflowIsLeft, Pending
  <2>7. CASE /\ ~(p.id = NoSession \/ p.memoryAcknowledged)
             /\ found # NoSession /\ p.acknowledged
    <3>1. rrun' = [rrun EXCEPT !.phase = "accept", !.copy = q] /\ record' = [record EXCEPT !.pending = q]
      BY <1>8, <2>7 DEF SyncLists
    <3>. HIDE DEF found
    <3>2. rrun' \in RecoveryRun /\ rrun'.phase = "accept" /\ rrun'.copy = q
      BY <1>t, <2>3, <3>1 DEF RecoveryType, RecoveryRun, Phases
    <3>3. record' \in [pending : Pending, checkpoint : Nat] /\ record'.pending = q
      BY <1>t, <2>3, <3>1 DEF RecoveryType
    <3>4. RecoveryType'
      BY <1>t, <2>1, <3>2, <3>3 DEF RecoveryType
    <3>. QED
      BY <1>t, <1>6, <2>1, <2>4, <3>2, <3>3, <3>4
         DEF RunCounted, CopyInv, SpilledIsOld, OverflowIsLeft, Pending
  <2>8. CASE /\ ~(p.id = NoSession \/ p.memoryAcknowledged)
             /\ ~(found = NoSession /\ ~p.acknowledged)
             /\ ~(found # NoSession /\ p.acknowledged)
    <3>1. SyncEnds([record EXCEPT !.pending = q])
      BY <1>8, <2>8 DEF SyncLists
    <3>. HIDE DEF found
    <3>. QED BY <1>5, <1>6, <2>1, <2>3, <2>4, <3>1 DEF Pending
  <2>. QED BY <2>5, <2>6, <2>7, <2>8
<1>9. ASSUME NEW answered \in BOOLEAN, SyncBegins(answered) PROVE RecoveryInv'
  <2>. DEFINE new == [marker |-> rrun.copy.id, accepted |-> FALSE]
              q == IF answered THEN [rrun.copy EXCEPT !.memory = Len(service) + 1] ELSE record.pending
  <2>1. /\ service' = Append(service, new) /\ new \in Handoff
        /\ \A i \in DOMAIN service : service[i].marker # new.marker
    BY <1>9, <1>t DEF SyncBegins, CopyInv, RecoveryType, RecoveryRun, Pending, Handoff
  <2>2. HandoffPublishedOnce' /\ service' \in Seq(Handoff)
    <3>1. /\ service \in Seq(Handoff) /\ service' \in Seq(Handoff)
          /\ DOMAIN service = 1 .. Len(service) /\ Len(service) \in Nat
          /\ DOMAIN service' = 1 .. Len(service) + 1
          /\ \A i \in 1 .. Len(service) : service'[i] = service[i]
          /\ service'[Len(service) + 1] = new
      BY <1>t, <2>1, AppendProperties DEF RecoveryType
    <3>. HIDE DEF new
    <3>. QED BY <1>t, <2>1, <3>1 DEF HandoffPublishedOnce
  <2>3. /\ q \in Pending
        /\ q.id = record.pending.id /\ q.old = record.pending.old
        /\ q.target = record.pending.target /\ q.reason = record.pending.reason
        /\ q.acknowledged = record.pending.acknowledged
    <3>1. rrun.phase = "begin" /\ rrun.copy \in Pending /\ Len(service) + 1 \in Nat
      BY <1>9, <1>t DEF SyncBegins, RecoveryType, RecoveryRun
    <3>. QED BY <1>6, <1>t, <3>1 DEF CopyInv, Pending
  <2>4. SyncEnds([record EXCEPT !.pending = q])
    BY <1>6, <1>9 DEF SyncBegins
  <2>. HIDE DEF q
  <2>. QED BY <1>5, <1>9, <2>2, <2>3, <2>4 DEF SyncBegins, ghosts
<1>10. ASSUME NEW answered \in BOOLEAN, SyncAccepts(answered) PROVE RecoveryInv'
  <2>. DEFINE q == IF answered THEN [rrun.copy EXCEPT !.memoryAcknowledged = TRUE] ELSE record.pending
  <2>1. service' = [service EXCEPT ![rrun.copy.memory].accepted = TRUE]
    BY <1>10 DEF SyncAccepts
  <2>2. /\ service' \in Seq(Handoff) /\ DOMAIN service' = DOMAIN service
        /\ \A i \in DOMAIN service : service'[i].marker = service[i].marker
    <3>1. /\ service \in Seq(Handoff) /\ Len(service) \in Nat
          /\ DOMAIN service = 1 .. Len(service)
          /\ \A i \in 1 .. Len(service) : service[i] \in Handoff
      BY <1>t DEF RecoveryType
    <3>2. \A h \in Handoff : /\ [h EXCEPT !.accepted = TRUE] \in Handoff
                             /\ [h EXCEPT !.accepted = TRUE].marker = h.marker
      BY DEF Handoff
    <3>3. /\ DOMAIN service' = 1 .. Len(service)
          /\ \A i \in 1 .. Len(service) :
                service'[i] \in {service[i], [service[i] EXCEPT !.accepted = TRUE]}
      BY <2>1, <3>1
    <3>4. \A i \in 1 .. Len(service) :
             service'[i] \in Handoff /\ service'[i].marker = service[i].marker
      BY <3>1, <3>2, <3>3
    <3>5. service' = [i \in 1 .. Len(service) |-> service'[i]]
      BY <2>1, <3>1
    <3>6. service' \in Seq(Handoff)
      BY <3>1, <3>4, <3>5
    <3>. QED BY <3>1, <3>3, <3>4, <3>6
  <2>3. HandoffPublishedOnce'
    BY <1>t, <2>2 DEF HandoffPublishedOnce
  <2>4. /\ q \in Pending
        /\ q.id = record.pending.id /\ q.old = record.pending.old
        /\ q.target = record.pending.target /\ q.reason = record.pending.reason
        /\ q.acknowledged = record.pending.acknowledged
    BY <1>6, <1>10, <1>t DEF SyncAccepts, CopyInv, RecoveryType, RecoveryRun, Pending
  <2>5. SyncEnds([record EXCEPT !.pending = q])
    BY <1>6, <1>10 DEF SyncAccepts
  <2>. HIDE DEF q
  <2>. QED BY <1>5, <1>10, <2>2, <2>3, <2>4, <2>5 DEF SyncAccepts, ghosts
<1>11. CASE CrashAndRestart
  <2>1. /\ rrun' = NoRecoveryRun /\ lane' \in Seq(Nat)
        /\ UNCHANGED <<record, pointer, sessions, ran, service, spilled, unrecorded, resumed,
                       hampered>>
    BY <1>11, EmptySeq DEF CrashAndRestart, ghosts
  <2>. QED
    BY <1>n, <1>t, <2>1 DEF RecoveryType, RunCounted, CopyInv, SpilledIsOld,
                            OverflowIsLeft, HandoffPublishedOnce
<1>. QED
  BY <1>0, <1>1, <1>2, <1>3, <1>4, <1>7, <1>8, <1>9, <1>10, <1>11, <1>12, <1>13
     DEF RecoveryNext, Endings

LEMMA RecoveryInvariant == RecoverySpec => []RecoveryInv
BY RecoveryInvInit, RecoveryNextInv, PTL DEF RecoverySpec

-----------------------------------------------------------------------------

\* The run after one whose context overflowed does not resume that session unless
\* it is a command of the agent, wherever the process ends in between, provided the
\* overflow was recorded and that run could read the record (record and prepare of
\* recovery-handoff.ts, whose failures forwardToClaude logs and goes on without).
THEOREM OverflowingSessionIsLeft == RecoverySpec => []OverflowIsLeft
BY RecoveryInvariant, PTL DEF RecoveryInv

\* A recovery is published to the memory service once, whatever answers are lost
\* and wherever the process ends (sync of recovery-handoff.ts).
THEOREM RecoveryIsPublishedOnce == RecoverySpec => []HandoffPublishedOnce
BY RecoveryInvariant, PTL DEF RecoveryInv

-----------------------------------------------------------------------------
(***************************************************************************)
(* Turns, for any number of events and flushes: what the user sent is cut  *)
(* into consecutive turns, each with its downloads.                        *)
(***************************************************************************)

USE TurnAssumption

Turn == [events : SUBSET Nat, reason : {"idle", "flush", "no-text"}]

TurnType ==
    /\ arrived \in Nat
    /\ media \subseteq 1 .. arrived
    /\ inBucket \subseteq 1 .. arrived
    /\ pending \subseteq inBucket \cap media
    /\ timerArmed \in BOOLEAN
    /\ forcedReason \in {"none", "flush"}
    /\ turns \in Seq(Turn)

\* The timer runs for a bucket that holds something, and what the bucket has
\* no longer to wait for has settled.
BucketInv ==
    /\ timerArmed => inBucket # {}
    /\ (inBucket \cap media) \ pending \subseteq settled

TurnInv == TurnType /\ BucketInv /\ EachEventInOneTurn /\ DownloadsAwaited

LEMMA TurnInvInit == TurnInit => TurnInv
<1>. SUFFICES ASSUME TurnInit PROVE TurnInv
  OBVIOUS
<1>. USE DEF TurnInit
<1>1. turns \in Seq(Turn)
  BY EmptySeq
<1>3. TurnType /\ BucketInv
  BY <1>1 DEF TurnType, BucketInv
<1>2. Committed = {}
  BY DEF Committed
<1>4. EachEventInOneTurn /\ DownloadsAwaited
  BY <1>2 DEF EachEventInOneTurn, DownloadsAwaited
<1>. QED BY <1>3, <1>4 DEF TurnInv

-----------------------------------------------------------------------------
(* Commit                                                                  *)

\* A bucket with something in it and nothing to wait for becomes the next turn.
LEMMA CommitStep ==
    ASSUME TurnInv, NEW reason \in {"idle", "flush"}, Commit(reason),
           inBucket # {}, UNCHANGED <<arrived, media>>,
           settled \subseteq settled', inBucket \cap media \subseteq settled'
    PROVE  TurnInv'
<1>. USE DEF TurnInv, TurnType, Turn
<1>. DEFINE new == [events |-> inBucket,
                    reason |-> IF inBucket \cap worded = {} THEN "no-text" ELSE reason]
<1>1. /\ turns' = Append(turns, new)
      /\ new \in Turn
      /\ inBucket' = {} /\ pending' = {} /\ timerArmed' = FALSE /\ forcedReason' = "none"
  BY DEF Commit
<1>2. TurnType' /\ BucketInv'
  <2>1. turns' \in Seq(Turn)
    BY <1>1, AppendProperties
  <2>. QED BY <1>1, <2>1 DEF BucketInv
<1>3. /\ Len(turns) \in Nat
      /\ DOMAIN turns = 1 .. Len(turns)
      /\ DOMAIN turns' = 1 .. Len(turns) + 1
      /\ \A i \in DOMAIN turns : turns'[i] = turns[i]
      /\ turns'[Len(turns) + 1] = new
  BY <1>1
<1>4. Committed' = Committed \cup inBucket
  BY <1>3 DEF Committed
<1>5. EachEventInOneTurn'
  <2>1. (Committed \cup inBucket)' = 1 .. arrived'
    BY <1>1, <1>4 DEF EachEventInOneTurn
  <2>2. ASSUME NEW i \in DOMAIN turns'
        PROVE  /\ turns'[i].events # {}
               /\ \A e \in turns'[i].events : \A j \in DOMAIN turns' :
                     j > i => \A d \in turns'[j].events : e < d
    <3>1. CASE i \in DOMAIN turns
      BY <1>3, <3>1 DEF EachEventInOneTurn
    <3>2. CASE i = Len(turns) + 1
      BY <1>3, <3>2
    <3>. QED BY <1>3, <3>1, <3>2
  <2>. QED BY <1>1, <2>1, <2>2 DEF EachEventInOneTurn
<1>6. DownloadsAwaited'
  BY <1>4 DEF DownloadsAwaited
<1>. QED BY <1>2, <1>5, <1>6

\* A step that commits nothing leaves the turns as they are.
LEMMA NoCommit ==
    ASSUME EachEventInOneTurn, DownloadsAwaited,
           UNCHANGED <<turns, inBucket, arrived, media>>, settled \subseteq settled'
    PROVE  EachEventInOneTurn' /\ DownloadsAwaited'
BY DEF EachEventInOneTurn, DownloadsAwaited, Committed

-----------------------------------------------------------------------------
(* Every step keeps the invariant                                          *)

LEMMA TurnInvNext == TurnInv /\ [TurnNext]_turnVars => TurnInv'
<1>. SUFFICES ASSUME TurnInv, [TurnNext]_turnVars PROVE TurnInv'
  OBVIOUS
<1>t. TurnType /\ BucketInv /\ EachEventInOneTurn /\ DownloadsAwaited
  BY DEF TurnInv
<1>0. Reason \in {"idle", "flush"}
  BY <1>t DEF Reason, TurnType
<1>1. ASSUME NEW what \in {"text", "media", "rejected"}, Ingest(what) PROVE TurnInv'
  <2>1. TurnType'
    BY <1>1, <1>t DEF TurnType, Ingest, ArmTimer
  <2>2. BucketInv'
    BY <1>1, <1>t DEF TurnType, BucketInv, Ingest, ArmTimer
  <2>3. /\ Committed' = Committed
        /\ arrived' = arrived + 1
        /\ inBucket' = inBucket \cup {arrived + 1}
        /\ turns' = turns
    BY <1>1 DEF Ingest, Committed
  <2>4. EachEventInOneTurn'
    <3>1. (Committed \cup inBucket)' = 1 .. arrived'
      BY <1>t, <2>3 DEF TurnType, EachEventInOneTurn
    <3>2. ASSUME NEW i \in DOMAIN turns, NEW e \in turns[i].events
          PROVE  e < arrived + 1
      <4>1. e \in Committed
        BY <3>2 DEF Committed
      <4>. QED BY <1>t, <4>1 DEF TurnType, EachEventInOneTurn
    <3>. QED BY <1>t, <2>3, <3>1, <3>2 DEF EachEventInOneTurn
  <2>5. DownloadsAwaited'
    <3>1. arrived + 1 \notin Committed
      BY <1>t DEF TurnType, EachEventInOneTurn
    <3>. QED BY <1>1, <1>t, <2>3, <3>1 DEF DownloadsAwaited, Ingest
  <2>. QED BY <2>1, <2>2, <2>4, <2>5 DEF TurnInv
<1>2. CASE TimerFires
  <2>1. CASE pending = {}
    <3>1. inBucket # {} /\ inBucket \cap media \subseteq settled'
      BY <1>2, <1>t, <2>1 DEF TimerFires, BucketInv
    <3>. QED BY <1>0, <1>2, <2>1, <3>1, CommitStep DEF TimerFires
  <2>2. CASE pending # {}
    BY <1>2, <1>t, <2>2, NoCommit DEF TimerFires, TurnInv, TurnType, BucketInv
  <2>. QED BY <2>1, <2>2
<1>3. ASSUME NEW e \in Event, DownloadSettles(e) PROVE TurnInv'
  <2>1. CASE windowElapsed /\ pending = {e}
    <3>1. inBucket # {} /\ inBucket \cap media \subseteq settled'
      BY <1>3, <1>t, <2>1 DEF DownloadSettles, BucketInv, TurnType
    <3>. QED BY <1>0, <1>3, <2>1, <3>1, CommitStep DEF DownloadSettles
  <2>2. CASE ~(windowElapsed /\ pending = {e})
    BY <1>3, <1>t, <2>2, NoCommit DEF DownloadSettles, TurnInv, TurnType, BucketInv
  <2>. QED BY <2>1, <2>2
<1>4. ASSUME NEW f \in FlushId, NEW last \in BOOLEAN, AskFlush(f, last) PROVE TurnInv'
  <2>1. CASE inBucket # {} /\ pending = {}
    <3>1. inBucket \cap media \subseteq settled'
      BY <1>4, <1>t, <2>1 DEF AskFlush, BucketInv
    <3>. QED BY <1>4, <1>t, <2>1, <3>1, CommitStep DEF AskFlush, TurnType
  <2>2. CASE inBucket = {} \/ pending # {}
    <3>1. /\ UNCHANGED <<arrived, media, settled, turns, inBucket, pending, timerArmed>>
          /\ forcedReason' \in {forcedReason, "flush"}
      BY <1>4, <1>t, <2>2 DEF AskFlush, FlushWaits, bucketVars, TurnType
    <3>. QED BY <1>t, <3>1, NoCommit DEF TurnInv, TurnType, BucketInv
  <2>. QED BY <2>1, <2>2
<1>5. ASSUME NEW f \in FlushId, FlushResumes(f) PROVE TurnInv'
  <2>1. CASE Commit("flush") /\ inBucket # {} /\ pending = {}
    <3>1. inBucket \cap media \subseteq settled'
      BY <1>5, <1>t, <2>1 DEF FlushResumes, BucketInv
    <3>. QED BY <1>5, <2>1, <3>1, CommitStep DEF FlushResumes
  <2>2. CASE UNCHANGED <<bucketVars, turns>>
    BY <1>5, <1>t, <2>2, NoCommit DEF FlushResumes, bucketVars, TurnInv, TurnType, BucketInv
  <2>. QED BY <1>5, <2>1, <2>2 DEF FlushResumes
<1>6. CASE ProcessExits \/ UNCHANGED turnVars
  <2>1. UNCHANGED <<arrived, media, settled, bucketVars, turns>>
    BY <1>6 DEF ProcessExits, turnVars
  <2>. QED BY <1>t, <2>1, NoCommit DEF bucketVars, TurnInv, TurnType, BucketInv
<1>. QED
  BY <1>1, <1>2, <1>3, <1>4, <1>5, <1>6 DEF TurnNext, FlushCommand, ExitAsked

LEMMA TurnInvariant == TurnSpec => []TurnInv
BY TurnInvInit, TurnInvNext, PTL DEF TurnSpec

\* What the user sent is taken once and in order: the turns cut it into consecutive
\* pieces, whichever of the timer, the last download or a flush commits them and
\* whether they hold a text for the agent or end with a receipt, and no turn is
\* committed before its downloads have settled (tryCommit, commit, flush and the
\* outcome handlers of turn-assembler.ts).
THEOREM TurnsAreConsecutive == TurnSpec => []TurnsAreWhole
<1>1. TurnInv => TurnsAreWhole
  BY DEF TurnInv, TurnsAreWhole
<1>. QED BY <1>1, TurnInvariant, PTL

-----------------------------------------------------------------------------
(***************************************************************************)
(* The streaming card, for any number of events: whoever finishes first and *)
(* in whatever order updates land, the outcome is shown and stays.         *)
(***************************************************************************)

Frame == [events : Nat, terminal : {"running"} \cup Finisher, final : BOOLEAN]
Update == [by : {"initial", "flush", "settle"} \cup Finisher, way : {"controller", "message"},
           frame : Frame]

StreamType ==
    /\ kind \in {"run", "bash"}
    /\ state \in Frame /\ shown \in Frame
    /\ flushInFlight \in BOOLEAN
    /\ waiting \in Seq(Finisher)
    /\ finisher \in [Finisher -> {"idle", "busy", "returned"}]
    /\ producer \in {"absent", "first", "ready"}
    /\ calls \subseteq Update

\* One flush is in flight at a time, of a state without a terminal; only then
\* finishers wait.
OneFlush ==
    /\ flushInFlight => HasController /\ ~IsTerminal(state)
    /\ ~flushInFlight => waiting = <<>>
    /\ \A c \in calls : c.by = "flush" => flushInFlight /\ ~IsTerminal(c.frame)
    /\ \A c, d \in calls : c.by = "flush" /\ d.by = "flush" => c = d

\* A terminal frame is of a state that was terminal already; a run has one
\* terminal.
Agrees(frame) == IsTerminal(state) /\ (kind = "run" => frame.terminal = state.terminal)
FramesAgree ==
    /\ \A c \in calls : /\ c.by \in Finisher \cup {"settle"} => IsTerminal(c.frame)
                        /\ IsTerminal(c.frame) => Agrees(c.frame)
    /\ IsTerminal(shown) => Agrees(shown)

\* The owner settles a terminal state, and is done with a card or without one.
OwnerInv ==
    /\ \A f \in Finisher : finisher[f] = "returned" => IsTerminal(state)
    /\ phase \in {"settling", "done"} => IsTerminal(state)
    /\ phase = "done" => HasController \/ fallback
    /\ outcome = "ok" => HasController
    /\ calls # {} => HasController

\* A terminal state is on the card or on its way to it.
TerminalOnItsWay ==
    IsTerminal(state) /\ HasController =>
        IsTerminal(shown) \/ excused \/ \E c \in calls : IsTerminal(c.frame)

StreamInv == StreamType /\ OneFlush /\ FramesAgree /\ OwnerInv /\ TerminalOnItsWay

LEMMA StreamInvInit == StreamInit => StreamInv
<1>. SUFFICES ASSUME StreamInit PROVE StreamInv
  OBVIOUS
<1>. USE DEF StreamInit
<1>1. Blank \in Frame /\ ~IsTerminal(Blank)
  BY DEF Blank, Frame, IsTerminal
<1>2. StreamType
  BY <1>1, EmptySeq DEF StreamType
<1>3. OneFlush /\ FramesAgree /\ OwnerInv /\ TerminalOnItsWay
  BY <1>1 DEF OneFlush, FramesAgree, OwnerInv, TerminalOnItsWay, HasController
<1>. QED BY <1>2, <1>3 DEF StreamInv

\* A finisher makes the state terminal; the terminal of a run stays.
LEMMA Finished ==
    ASSUME NEW s \in Frame, NEW f \in Finisher
    PROVE  /\ FinishState(s, f) \in Frame /\ IsTerminal(FinishState(s, f))
           /\ kind = "run" => FinishState(s, f).terminal
                                = IF IsTerminal(s) THEN s.terminal ELSE f
<1>1. /\ FinishState(s, f).terminal = IF kind = "run" /\ s.terminal # "running" THEN s.terminal ELSE f
      /\ FinishState(s, f).events = s.events
  BY DEF FinishState, Frame
<1>2. FinishState(s, f) \in Frame
  <2>. DEFINE t == IF kind = "run" /\ s.terminal # "running" THEN s.terminal ELSE f
              z == s.final \/ f = "stream"
  <2>1. t \in {"running"} \cup Finisher /\ z \in BOOLEAN
    BY DEF Frame
  <2>2. FinishState(s, f) = [s EXCEPT !.terminal = t, !.final = z]
    BY DEF FinishState
  <2>. HIDE DEF t, z
  <2>. QED BY <2>1, <2>2 DEF Frame
<1>3. f # "running"
  BY DEF Finisher
<1>. QED BY <1>1, <1>2, <1>3 DEF IsTerminal

\* The same of those that waited for a flush.
LEMMA AllFinished ==
    ASSUME StreamType, NEW i \in 1 .. Len(waiting)
    PROVE  /\ StateAfter(waiting, i) \in Frame /\ IsTerminal(StateAfter(waiting, i))
           /\ kind = "run" => StateAfter(waiting, i).terminal
                                = IF IsTerminal(state) THEN state.terminal ELSE waiting[1]
<1>. DEFINE f == IF kind = "run" THEN waiting[1] ELSE waiting[i]
            s == FinishState(state, f)
            z == s.final \/ \E j \in 1 .. i : waiting[j] = "stream"
<1>1. f \in Finisher /\ state \in Frame /\ i # 0 /\ (kind = "run" => f = waiting[1])
  <2>1. waiting \in Seq(Finisher) /\ Len(waiting) \in Nat /\ 1 \in 1 .. Len(waiting)
    BY LenProperties DEF StreamType
  <2>. QED BY <2>1, ElementOfSeq DEF StreamType
<1>2. z \in BOOLEAN /\ StateAfter(waiting, i) = [s EXCEPT !.final = z]
  BY <1>1 DEF StateAfter
<1>. HIDE DEF f, z
<1>3. s \in Frame /\ IsTerminal(s)
      /\ (kind = "run" => s.terminal = IF IsTerminal(state) THEN state.terminal ELSE f)
  BY <1>1, Finished
<1>. HIDE DEF s
<1>4. [s EXCEPT !.final = z] \in Frame /\ [s EXCEPT !.final = z].terminal = s.terminal
  BY <1>2, <1>3 DEF Frame
<1>. QED BY <1>1, <1>2, <1>3, <1>4 DEF IsTerminal


\* A finisher that needs not wait, or waits.
LEMMA FinishStep ==
    ASSUME StreamInv, NEW f \in Finisher, Finish(f),
           UNCHANGED <<kind, flushInFlight, producer, outcome, cardVars>>,
           phase' \in {phase, "finishing"}
    PROVE  StreamInv'
<1>. DEFINE s == FinishState(state, f)
<1>. USE DEF StreamInv, cardVars
<1>1. s \in Frame /\ IsTerminal(s)
      /\ (kind = "run" => s.terminal = IF IsTerminal(state) THEN state.terminal ELSE f)
  BY Finished DEF StreamType
<1>2. CASE ~flushInFlight
  <2>1. /\ state' = s
        /\ calls' = IF HasController THEN calls \cup {UpdateCard(f, s)} ELSE calls
        /\ finisher' = [finisher EXCEPT ![f] = IF HasController THEN "busy" ELSE "returned"]
        /\ waiting' = waiting
    BY <1>2 DEF Finish, FinishAtOnce, Render
  <2>. HIDE DEF s
  <2>2. UpdateCard(f, s) \in Update /\ UpdateCard(f, s).by = f /\ UpdateCard(f, s).frame = s
        /\ f # "flush" /\ f # "settle"
    BY <1>1 DEF UpdateCard, Update, Finisher
  <2>3. StreamType'
    BY <1>1, <2>1, <2>2 DEF StreamType
  <2>4. OneFlush'
    BY <1>2, <2>1, <2>2 DEF OneFlush, HasController
  <2>5. FramesAgree'
    <3>1. \A frame : Agrees(frame) => Agrees(frame)'
      BY <1>1, <2>1 DEF Agrees
    <3>2. \A frame : frame = s => Agrees(frame)'
      BY <1>1, <2>1 DEF Agrees
    <3>3. \A c \in calls' : c \in calls \/ c = UpdateCard(f, s)
      BY <2>1
    <3>. QED BY <1>1, <2>2, <3>1, <3>2, <3>3 DEF FramesAgree, IsTerminal
  <2>6. OwnerInv'
    BY <1>1, <2>1 DEF OwnerInv, HasController
  <2>7. TerminalOnItsWay'
    BY <1>1, <2>1, <2>2 DEF TerminalOnItsWay, HasController
  <2>. QED BY <2>3, <2>4, <2>5, <2>6, <2>7
<1>3. CASE flushInFlight
  <2>1. /\ waiting' = Append(waiting, f) /\ finisher' = [finisher EXCEPT ![f] = "busy"]
        /\ state' = state /\ calls' = calls
    BY <1>3 DEF Finish
  <2>2. StreamType'
    BY <2>1, AppendProperties DEF StreamType
  <2>3. OneFlush' /\ FramesAgree'
    BY <1>3, <2>1 DEF OneFlush, FramesAgree, HasController, Agrees, IsTerminal
  <2>4. OwnerInv' /\ TerminalOnItsWay'
    BY <2>1 DEF OwnerInv, TerminalOnItsWay, HasController, IsTerminal, StreamType
  <2>. QED BY <2>2, <2>3, <2>4
<1>. QED BY <1>2, <1>3 DEF StreamType

\* A call that is not a flush is over: the card shows its frame or what it showed.
LEMMA CallReturns ==
    ASSUME StreamInv, NEW c \in calls, NEW landed \in BOOLEAN, c.by # "flush", Returns(c, landed),
           kind' = kind, outcome' = outcome,
           shown' \in {shown, c.frame}, excused => excused',
           IsTerminal(c.frame) => excused' \/ shown' = c.frame,
           IsTerminal(state) /\ ~IsTerminal(c.frame) => excused' \/ shown' = shown
    PROVE  StreamInv'
<1>. USE DEF StreamInv
<1>1. /\ calls' = calls \ {c} /\ state' = state /\ flushInFlight' = flushInFlight
      /\ waiting' = waiting
      /\ producer' = IF c.by = "initial" THEN "ready" ELSE producer
      /\ finisher' = [f \in Finisher |-> IF f = c.by THEN "returned" ELSE finisher[f]]
      /\ phase' = (IF c.by = "settle" THEN "done" ELSE phase)
      /\ (fallback => fallback')
  BY DEF Returns
<1>2. c \in Update /\ c.frame \in Frame /\ c.by \in {"initial", "settle"} \cup Finisher /\ HasController
  BY DEF StreamType, Update, OwnerInv
<1>3. HasController'
  BY <1>1, <1>2 DEF HasController
<1>4. StreamType'
  BY <1>1, <1>2 DEF StreamType
<1>5. OneFlush'
  BY <1>1, <1>3 DEF OneFlush, IsTerminal
<1>6. FramesAgree'
  <2>1. \A frame : Agrees(frame)' <=> Agrees(frame)
    BY <1>1 DEF Agrees
  <2>2. IsTerminal(shown') => Agrees(shown')
    BY DEF FramesAgree
  <2>. QED BY <1>1, <2>1, <2>2 DEF FramesAgree, IsTerminal
<1>7. OwnerInv'
  <2>1. c.by \in Finisher \cup {"settle"} => IsTerminal(state)
    BY DEF FramesAgree, Agrees
  <2>. QED BY <1>1, <1>3, <2>1 DEF OwnerInv, IsTerminal
<1>8. TerminalOnItsWay'
  <2>. SUFFICES ASSUME IsTerminal(state), ~excused'
                PROVE  IsTerminal(shown') \/ \E d \in calls' : IsTerminal(d.frame)
    BY <1>1 DEF TerminalOnItsWay, IsTerminal
  <2>1. CASE IsTerminal(c.frame)
    BY <2>1 DEF IsTerminal
  <2>2. CASE ~IsTerminal(c.frame)
    BY <1>1, <1>2, <2>2 DEF TerminalOnItsWay, IsTerminal
  <2>. QED BY <2>1, <2>2
<1>. QED BY <1>4, <1>5, <1>6, <1>7, <1>8

\* The flush is over, and those that waited for it send their frames.
LEMMA FlushReturns ==
    ASSUME StreamInv, NEW c \in calls, NEW landed \in BOOLEAN, c.by = "flush", Returns(c, landed),
           kind' = kind, outcome' = outcome,
           shown' \in {shown, c.frame}, excused => excused'
    PROVE  StreamInv'
<1>. DEFINE n == Len(waiting)
            new == {UpdateCard(waiting[i], StateAfter(waiting, i)) : i \in DOMAIN waiting}
            s == StateAfter(waiting, n)
<1>. USE DEF StreamInv
<1>1. /\ calls' = (calls \ {c}) \cup new /\ state' = s /\ flushInFlight' = FALSE
      /\ waiting' = <<>> /\ UNCHANGED <<finisher, producer, phase, fallback>>
  BY DEF Returns, FlushEnds
<1>2. n \in Nat /\ DOMAIN waiting = 1 .. n /\ \A i \in 1 .. n : waiting[i] \in Finisher
  BY LenProperties, ElementOfSeq DEF StreamType
<1>3. HasController /\ HasController' /\ ~IsTerminal(state) /\ ~IsTerminal(c.frame)
  BY <1>1 DEF OneFlush, HasController
<1>4. \A i \in 1 .. n : /\ StateAfter(waiting, i) \in Frame /\ IsTerminal(StateAfter(waiting, i))
                        /\ kind = "run" => StateAfter(waiting, i).terminal = waiting[1]
  BY <1>2, <1>3, AllFinished
<1>5. s \in Frame /\ (n = 0 => s = state)
  <2>1. n = 0 => s = state
    BY DEF StateAfter
  <2>2. n # 0 => n \in 1 .. n
    BY <1>2
  <2>3. state \in Frame
    BY DEF StreamType
  <2>. QED BY <1>4, <2>1, <2>2, <2>3
<1>6. \A d \in new : \E i \in 1 .. n : /\ d = UpdateCard(waiting[i], StateAfter(waiting, i))
                                       /\ d.by = waiting[i] /\ d.frame = StateAfter(waiting, i)
  BY <1>2 DEF UpdateCard
<1>7. \A d \in new : d \in Update /\ d.by \in Finisher /\ d.frame \in Frame /\ IsTerminal(d.frame)
  BY <1>2, <1>4, <1>6 DEF UpdateCard, Update
<1>8. n # 0 => new # {} /\ IsTerminal(s) /\ \A d \in new : kind = "run" => d.frame.terminal = s.terminal
  <2>1. n # 0 => 1 \in 1 .. n /\ n \in 1 .. n
    BY <1>2
  <2>. QED BY <1>2, <1>4, <1>6, <2>1
<1>9. n = 0 => new = {}
  BY <1>2
<1>. HIDE DEF new, s, n
<1>10. StreamType'
  <2>1. c \in Update /\ c.frame \in Frame /\ <<>> \in Seq(Finisher)
    BY EmptySeq DEF StreamType, Update
  <2>. QED BY <1>1, <1>5, <1>7, <2>1 DEF StreamType
<1>11. OneFlush'
  <2>1. \A d \in calls' : d.by # "flush"
    BY <1>1, <1>7 DEF OneFlush, Finisher
  <2>. QED BY <1>1, <2>1 DEF OneFlush
<1>12. FramesAgree'
  <2>1. \A d \in calls : ~IsTerminal(d.frame)
    BY <1>3 DEF FramesAgree, Agrees
  <2>2. ~IsTerminal(shown')
    BY <1>3 DEF FramesAgree, Agrees
  <2>3. \A d \in new : Agrees(d.frame)'
    BY <1>1, <1>8, <1>9 DEF Agrees, IsTerminal
  <2>. QED BY <1>1, <1>7, <2>1, <2>2, <2>3 DEF FramesAgree, IsTerminal
<1>13. OwnerInv'
  BY <1>1, <1>3 DEF OwnerInv
<1>14. TerminalOnItsWay'
  BY <1>1, <1>3, <1>5, <1>7, <1>8 DEF TerminalOnItsWay, IsTerminal
<1>. QED BY <1>10, <1>11, <1>12, <1>13, <1>14


LEMMA StreamInvNext == StreamInv /\ [StreamNext]_streamVars => StreamInv'
<1>. SUFFICES ASSUME StreamInv, [StreamNext]_streamVars PROVE StreamInv'
  OBVIOUS
<1>. USE DEF StreamInv
<1>0. CASE UNCHANGED streamVars
  BY <1>0 DEF streamVars, sessionVars, cardVars, StreamType, OneFlush, FramesAgree, OwnerInv,
              TerminalOnItsWay, Agrees, IsTerminal, HasController
<1>1. CASE ProducerRuns
  <2>. DEFINE new == UpdateCard("initial", state)
  <2>1. /\ producer = "absent" /\ producer' = "first" /\ calls' = calls \cup {new}
        /\ UNCHANGED <<kind, state, flushInFlight, waiting, finisher, outcome, phase, shown, fallback, excused>>
    BY <1>1 DEF ProducerRuns, sessionVars, cardVars
  <2>2. new \in Update /\ new.by = "initial" /\ new.frame = state
    BY DEF UpdateCard, Update, StreamType
  <2>. HIDE DEF new
  <2>3. StreamType' /\ OneFlush'
    BY <2>1, <2>2 DEF StreamType, OneFlush, HasController, IsTerminal
  <2>4. FramesAgree'
    BY <2>1, <2>2 DEF FramesAgree, Agrees, IsTerminal, Finisher
  <2>5. OwnerInv' /\ TerminalOnItsWay'
    BY <2>1, <2>2 DEF OwnerInv, TerminalOnItsWay, HasController, IsTerminal
  <2>. QED BY <2>3, <2>4, <2>5
<1>2. CASE StreamFails \/ StreamCloses \/ StartEnds \/ Settle
  <2>1. /\ UNCHANGED <<kind, state, flushInFlight, waiting, finisher, producer, calls, shown, fallback, excused>>
        /\ outcome' = "ok" => outcome = "ok" \/ HasController
        /\ phase' = "done" => phase = "done"
        /\ phase' = "settling" => phase = "settling" \/ finisher["stream"] = "returned"
    BY <1>2 DEF StreamFails, StreamCloses, StartEnds, Settle, sessionVars, cardVars, HasController
  <2>2. StreamType' /\ OneFlush' /\ FramesAgree' /\ TerminalOnItsWay'
    BY <2>1 DEF StreamType, OneFlush, FramesAgree, TerminalOnItsWay, Agrees, HasController, IsTerminal
  <2>3. OwnerInv'
    BY <2>1 DEF OwnerInv, HasController, IsTerminal, Finisher
  <2>. QED BY <2>2, <2>3
<1>3. CASE Push
  <2>1. /\ UNCHANGED <<kind, flushInFlight, waiting, finisher, producer, outcome, phase, calls, shown, fallback, excused>>
        /\ state' \in {state, [state EXCEPT !.events = state.events + 1]}
    BY <1>3 DEF Push, cardVars
  <2>2. state' \in Frame /\ state'.terminal = state.terminal
    BY <2>1 DEF StreamType, Frame
  <2>3. StreamType' /\ OneFlush'
    BY <2>1, <2>2 DEF StreamType, OneFlush, HasController, IsTerminal
  <2>4. FramesAgree' /\ OwnerInv' /\ TerminalOnItsWay'
    BY <2>1, <2>2 DEF FramesAgree, OwnerInv, TerminalOnItsWay, Agrees, HasController, IsTerminal
  <2>. QED BY <2>3, <2>4
<1>4. CASE WindowElapses
  <2>. DEFINE new == UpdateCard("flush", state)
  <2>1. UNCHANGED <<kind, state, waiting, finisher, producer, outcome, phase, shown, fallback, excused>>
    BY <1>4 DEF WindowElapses, cardVars
  <2>2. CASE UNCHANGED <<flushInFlight, calls>>
    BY <2>1, <2>2 DEF StreamType, OneFlush, FramesAgree, OwnerInv, TerminalOnItsWay, Agrees, HasController, IsTerminal
  <2>3. CASE /\ ~flushInFlight /\ ~IsTerminal(state) /\ HasController
             /\ calls' = calls \cup {new} /\ flushInFlight' = TRUE
    <3>1. new \in Update /\ new.by = "flush" /\ new.frame = state
      BY DEF UpdateCard, Update, StreamType
    <3>. HIDE DEF new
    <3>2. StreamType' /\ OneFlush'
      BY <2>1, <2>3, <3>1 DEF StreamType, OneFlush, HasController, IsTerminal
    <3>3. FramesAgree' /\ OwnerInv' /\ TerminalOnItsWay'
      BY <2>1, <2>3, <3>1 DEF FramesAgree, OwnerInv, TerminalOnItsWay, Agrees, HasController, IsTerminal, Finisher
    <3>. QED BY <3>2, <3>3
  <2>4. CASE ~flushInFlight /\ ~HasController /\ calls' = calls /\ flushInFlight' = FALSE
    BY <2>1, <2>4 DEF StreamType, OneFlush, FramesAgree, OwnerInv, TerminalOnItsWay, Agrees, HasController, IsTerminal
  <2>. QED BY <1>4, <2>2, <2>3, <2>4 DEF WindowElapses, Render, HasController, StreamType
<1>5. CASE Stop
  BY <1>5, FinishStep DEF Stop, Finisher
<1>6. CASE WatchdogFires
  BY <1>6, FinishStep DEF WatchdogFires, Finisher
<1>7. CASE StreamEnds
  <2>1. CASE phase' = "finishing" /\ Finish("stream")
    BY <1>7, <2>1, FinishStep DEF StreamEnds, Finisher
  <2>2. CASE /\ IsTerminal(state) /\ phase' = "settling"
             /\ UNCHANGED <<state, waiting, finisher, calls>>
    BY <1>7, <2>2 DEF StreamEnds, cardVars, StreamType, OneFlush, FramesAgree, OwnerInv,
                      TerminalOnItsWay, Agrees, HasController, IsTerminal
  <2>. QED BY <1>7, <2>1, <2>2 DEF StreamEnds
<1>8. CASE Settles
  <2>. DEFINE new == [by |-> "settle", way |-> "message", frame |-> state]
  <2>1. /\ UNCHANGED <<kind, state, flushInFlight, waiting, finisher, producer, outcome, shown, excused>>
        /\ phase = "settling" /\ IsTerminal(state) /\ SettleEnds
    BY <1>8 DEF Settles, sessionVars, OwnerInv
  <2>2. CASE calls' = calls /\ (HasController \/ fallback') /\ (fallback => fallback')
    BY <2>1, <2>2 DEF StreamType, OneFlush, FramesAgree, OwnerInv, TerminalOnItsWay, Agrees, HasController, IsTerminal
  <2>3. CASE HasController /\ calls' = calls \cup {new} /\ UNCHANGED <<phase, fallback>>
    <3>1. new \in Update /\ new.by = "settle" /\ new.frame = state
      BY DEF Update, StreamType
    <3>. HIDE DEF new
    <3>2. StreamType' /\ OneFlush'
      BY <2>1, <2>3, <3>1 DEF StreamType, OneFlush, HasController, IsTerminal
    <3>3. FramesAgree' /\ OwnerInv' /\ TerminalOnItsWay'
      BY <2>1, <2>3, <3>1 DEF FramesAgree, OwnerInv, TerminalOnItsWay, Agrees, HasController, IsTerminal
    <3>. QED BY <3>2, <3>3
  <2>. QED BY <2>1, <2>2, <2>3 DEF SettleEnds, OwnerInv
<1>9. ASSUME NEW c \in calls, Lands(c) PROVE StreamInv'
  <2>1. /\ shown' = c.frame /\ kind' = kind /\ outcome' = outcome /\ Returns(c, TRUE)
        /\ excused => excused'
        /\ c.by = "initial" /\ IsTerminal(state) /\ ~IsTerminal(c.frame) => excused'
        /\ c.by # "initial" => (excused' <=> excused)
    BY <1>9 DEF Lands
  <2>2. c.by \in {"initial", "flush", "settle"} \cup Finisher
    BY DEF StreamType, Update
  <2>3. CASE c.by = "flush"
    BY <1>9, <2>1, <2>3, FlushReturns DEF Lands
  <2>4. CASE c.by # "flush"
    <3>1. IsTerminal(state) /\ ~IsTerminal(c.frame) => excused'
      BY <2>1, <2>2, <2>4 DEF FramesAgree
    <3>. QED BY <1>9, <2>1, <2>4, <3>1, CallReturns
  <2>. QED BY <2>3, <2>4
<1>10. ASSUME NEW c \in calls, ControllerFails(c) PROVE StreamInv'
  <2>1. CASE c.by = "initial"
    <3>1. /\ shown' = shown /\ kind' = kind /\ outcome' = outcome /\ Returns(c, FALSE)
          /\ excused => excused'
          /\ IsTerminal(c.frame) => excused'
      BY <1>10, <2>1 DEF ControllerFails
    <3>. QED BY <2>1, <3>1, CallReturns
  <2>2. CASE c.by # "initial"
    <3>. DEFINE new == [c EXCEPT !.way = "message"]
    <3>1. /\ calls' = (calls \ {c}) \cup {new}
          /\ UNCHANGED <<kind, state, flushInFlight, waiting, finisher, producer, outcome, phase, shown, fallback, excused>>
      BY <1>10, <2>2 DEF ControllerFails, sessionVars
    <3>2. new \in Update /\ new.by = c.by /\ new.frame = c.frame
      BY DEF StreamType, Update
    <3>. HIDE DEF new
    <3>3. StreamType' /\ OneFlush'
      BY <3>1, <3>2 DEF StreamType, OneFlush, HasController, IsTerminal
    <3>4. FramesAgree' /\ OwnerInv' /\ TerminalOnItsWay'
      BY <3>1, <3>2 DEF FramesAgree, OwnerInv, TerminalOnItsWay, Agrees, HasController, IsTerminal
    <3>. QED BY <3>3, <3>4
  <2>. QED BY <2>1, <2>2
<1>11. ASSUME NEW c \in calls, MessageFails(c) PROVE StreamInv'
  <2>1. /\ shown' = shown /\ kind' = kind /\ outcome' = outcome /\ Returns(c, FALSE)
        /\ excused => excused'
        /\ IsTerminal(c.frame) => excused'
        /\ ~IsTerminal(c.frame) => (excused' <=> excused)
    BY <1>11 DEF MessageFails
  <2>2. CASE c.by = "flush"
    BY <1>11, <2>1, <2>2, FlushReturns DEF MessageFails, OneFlush
  <2>3. CASE c.by # "flush"
    BY <2>1, <2>3, CallReturns
  <2>. QED BY <2>2, <2>3
<1>. QED BY <1>0, <1>1, <1>2, <1>3, <1>4, <1>5, <1>6, <1>7, <1>8, <1>9, <1>10, <1>11
         DEF StreamNext, CallEnds


LEMMA StreamInvariant == StreamSpec => []StreamInv
<1>. QED BY StreamInvInit, StreamInvNext, PTL DEF StreamSpec

\* What a step may do to the card follows from the frames that are in flight.
LEMMA ShownStep ==
    ASSUME StreamInv, StreamInv', [StreamNext]_streamVars
    PROVE  TerminalIsNotBuried /\ FirstTerminalStays /\ DoneIsTold'
<1>1. DoneIsTold'
  BY DEF StreamInv, OwnerInv, TerminalOnItsWay, DoneIsTold
<1>2. kind' = kind /\ (shown' = shown \/ \E c \in calls : Lands(c))
  BY DEF StreamNext, streamVars, cardVars, CallEnds, ProducerRuns, StreamFails, StreamCloses,
         StartEnds, Push, WindowElapses, Stop, WatchdogFires, StreamEnds, Settle, Settles, Lands,
         ControllerFails, MessageFails
<1>3. FirstTerminalStays
  <2>1. IsTerminal(shown) => IsTerminal(state) /\ (kind = "run" => shown.terminal = state.terminal)
    BY DEF StreamInv, FramesAgree, Agrees
  <2>2. ASSUME NEW c \in calls, Lands(c), kind = "run", IsTerminal(shown), IsTerminal(c.frame)
        PROVE  c.frame.terminal = shown.terminal
    BY <2>1, <2>2 DEF StreamInv, FramesAgree, Agrees
  <2>3. \A c \in calls : Lands(c) => shown' = c.frame
    BY DEF Lands
  <2>. QED BY <1>2, <2>2, <2>3 DEF FirstTerminalStays, IsTerminal
<1>4. TerminalIsNotBuried
  <2>. SUFFICES ASSUME NEW c \in calls, Lands(c), IsTerminal(shown), ~IsTerminal(c.frame)
                PROVE  c.by = "initial" /\ c \in calls \ calls'
    <3>1. \A c \in calls : Lands(c) => shown' = c.frame
      BY DEF Lands
    <3>. QED BY <1>2, <3>1 DEF TerminalIsNotBuried, IsTerminal
  <2>1. IsTerminal(state) /\ c.by \in {"initial", "flush", "settle"} \cup Finisher
    BY DEF StreamInv, StreamType, FramesAgree, Agrees, Update
  <2>2. c.by = "initial"
    BY <2>1 DEF StreamInv, OneFlush, FramesAgree
  <2>3. calls' = calls \ {c}
    BY <2>2 DEF Lands, Returns
  <2>. QED BY <2>2, <2>3
<1>. QED BY <1>1, <1>3, <1>4

\* The outcome of a run reaches the chat and stays on the card, in whatever
\* order updates land and whoever finishes first: only one flush is in flight,
\* finishers wait for it, and a terminal state is on the card or on its way
\* (card-session.ts flush, finish, settle).
THEOREM OutcomeReachesTheCard == StreamSpec => OutcomeIsShown
<1>1. StreamInv /\ StreamInv' /\ [StreamNext]_streamVars
        => [TerminalIsNotBuried /\ FirstTerminalStays /\ DoneIsTold']_streamVars
  BY ShownStep
<1>. QED BY <1>1, StreamInvariant, PTL DEF StreamSpec, OutcomeIsShown

-----------------------------------------------------------------------------
(***************************************************************************)
(* The lock, for any number of starts, pids and starters, whether or not   *)
(* the old instance may linger: a running instance owns the lock file.     *)
(* What makes it inductive is what each step of acquire() still knows of   *)
(* the file when it acts on what an earlier step read in it.               *)
(***************************************************************************)

USE LockAssumption DEF NoProc, NoPid, Proc, Pid, lock

Stages == Acquiring \cup {"off", "waiting", "running", "releasing", "exiting", "refused",
                         "gone"}

LockType ==
    /\ stage \in [Proc -> Stages]
    /\ pid \in [Proc -> Pid \cup {NoPid}]
    /\ suspect \in [Proc -> Pid \cup {NoPid}]
    /\ lockOf \in Proc \cup {NoProc}
    /\ written \in BOOLEAN
    /\ crowded \in BOOLEAN /\ mistaken \in BOOLEAN

\* The system gave each living start a pid, and gives it to nobody else.
PidsTold ==
    \A p \in Proc : Alive(p) =>
        /\ pid[p] \in Pid \ strangers
        /\ \A q \in Proc : Alive(q) /\ q # p => pid[q] # pid[p]

\* Only its creator can have written the file; a creator that has not got as
\* far as running is still writing it.
FileOwner ==
    /\ NoFile => ~written
    /\ \A p \in Proc : lockOf = p => stage[p] \in {"writing", "running", "releasing", "gone"}

\* The file an instance finds when it releases again is not its own any more.
Foreign ==
    \A p \in Proc : stage[p] = "exiting" => NoFile \/ pid[lockOf] # pid[p]

\* What the start p that acquires alone still knows at its next step.
Knows(p) ==
    /\ \A q \in Starters : q = p
    /\ stage[p] = "writing" => lockOf = p
    /\ stage[p] = "verifying" => NoFile \/ suspect[p] = pid[lockOf]
    /\ stage[p] \in {"clearing", "reclearing", "unlinking"} => NoFile \/ ~Alive(lockOf)

\* An instance that runs, or that found its own lock on exit, has the file.
Owns(p) == stage[p] \in {"running", "releasing"} => lockOf = p /\ written

LockInv ==
    /\ LockType
    /\ PidsTold
    /\ FileOwner
    /\ Foreign
    /\ Orderly => /\ \A p \in Starters : Knows(p)
                  /\ \A p \in Proc : Owns(p)

LEMMA LockInvInit == LockInit => LockInv
<1>. SUFFICES ASSUME LockInit PROVE LockInv
  OBVIOUS
<1>. USE DEF LockInit
<1>1. LockType
  BY DEF LockType, Stages
<1>2. \A p \in Proc : stage[p] = "off"
  OBVIOUS
<1>3. PidsTold /\ FileOwner /\ Foreign
  BY <1>2 DEF PidsTold, Alive, FileOwner, NoFile, Foreign
<1>4. Starters = {} /\ \A p \in Proc : Owns(p)
  BY <1>2 DEF Starters, Acquiring, Owns
<1>. QED BY <1>1, <1>3, <1>4 DEF LockInv

-----------------------------------------------------------------------------
(* Types                                                                   *)

\* Every step keeps the types.
LEMMA LockTypeNext == LockType /\ [LockNext]_lockVars => LockType'
<1>. SUFFICES ASSUME LockType, [LockNext]_lockVars PROVE LockType'
  OBVIOUS
<1>. USE DEF LockType, Stages, Acquiring, Goes, Unlinked
<1>0. CASE UNCHANGED lockVars
  BY <1>0 DEF lockVars
<1>1. CASE LockNext
  <2>0. crowded' \in BOOLEAN /\ mistaken' \in BOOLEAN
    BY <1>1 DEF LockNext, TakeNote
  <2>1. ASSUME NEW p \in Proc, NEW i \in Pid, Start(p, i) PROVE LockType'
    BY <2>0, <2>1 DEF Start
  <2>2. ASSUME NEW q \in Proc, NEW p \in Proc, NEW i \in Pid, RestartInstance(q, p, i)
        PROVE  LockType'
    BY <2>0, <2>2 DEF RestartInstance
  <2>3. ASSUME NEW p \in Proc, WaitEnds(p) PROVE LockType'
    BY <2>0, <2>3 DEF WaitEnds
  <2>4. ASSUME NEW p \in Proc, Acquire(p) PROVE LockType'
    <3>1. CASE Open(p)
      BY <2>0, <3>1 DEF Open
    <3>2. CASE Write(p)
      BY <2>0, <3>2 DEF Write
    <3>3. CASE Look(p)
      BY <2>0, <3>3 DEF Look
    <3>4. CASE Read(p)
      BY <2>0, <3>4 DEF Read, NoFile, Empty, Readable
    <3>5. CASE Clear(p)
      BY <2>0, <3>5 DEF Clear
    <3>6. CASE Verify(p)
      BY <2>0, <3>6 DEF Verify
    <3>7. CASE Unlink(p)
      BY <2>0, <3>7 DEF Unlink
    <3>8. CASE Reread(p)
      BY <2>0, <3>8 DEF Reread
    <3>. QED
      BY <2>4, <3>1, <3>2, <3>3, <3>4, <3>5, <3>6, <3>7, <3>8 DEF Acquire
  <2>5. ASSUME NEW p \in Proc, \/ AskExit(p) \/ Signal(p) \/ Exit(p) \/ Release(p) \/ Crash(p)
        PROVE  LockType'
    BY <2>0, <2>5 DEF AskExit, Signal, Exit, Leaves, Release, Crash
  <2>6. ASSUME NEW i \in Pid, StrangerStarts(i) \/ StrangerEnds(i)
        PROVE  LockType'
    BY <2>0, <2>6 DEF StrangerStarts, StrangerEnds
  <2>. QED
    BY <1>1, <2>1, <2>2, <2>3, <2>4, <2>5, <2>6 DEF LockNext
<1>. QED BY <1>0, <1>1

-----------------------------------------------------------------------------
(* Pids                                                                    *)

\* The pid of a living start is its own: a free pid is given to a start or to a
\* stranger, and only the dead give theirs back.
LEMMA PidsToldNext == LockType /\ PidsTold /\ [LockNext]_lockVars => PidsTold'
<1>. SUFFICES ASSUME LockType, PidsTold, [LockNext]_lockVars PROVE PidsTold'
  OBVIOUS
<1>. USE DEF LockType, PidsTold, Alive, Goes
<1>0. CASE UNCHANGED lockVars
  BY <1>0 DEF lockVars
<1>1. CASE LockNext
  <2>1. ASSUME NEW p \in Proc, NEW i \in Pid, Start(p, i) PROVE PidsTold'
    BY <2>1 DEF Start, FreePids, LivePids
  <2>2. ASSUME NEW q \in Proc, NEW p \in Proc, NEW i \in Pid, RestartInstance(q, p, i)
        PROVE  PidsTold'
    BY <2>2 DEF RestartInstance, FreePids, LivePids
  <2>3. ASSUME NEW p \in Proc, WaitEnds(p) PROVE PidsTold'
    BY <2>3 DEF WaitEnds
  <2>4. ASSUME NEW p \in Proc, Acquire(p) PROVE PidsTold'
    <3>1. Alive(p) /\ UNCHANGED <<pid, strangers>>
      BY <2>4 DEF Acquire, Open, Write, Look, Read, Clear, Verify, Unlink, Reread
    <3>2. \A q \in Proc : q # p => stage'[q] = stage[q]
      BY <2>4 DEF Acquire, Open, Write, Look, Read, Clear, Verify, Unlink, Reread
    <3>. QED BY <3>1, <3>2
  <2>5. ASSUME NEW p \in Proc, \/ AskExit(p) \/ Signal(p) \/ Exit(p) \/ Release(p) \/ Crash(p)
        PROVE  PidsTold'
    BY <2>5 DEF AskExit, Signal, Exit, Leaves, Release, Crash
  <2>6. ASSUME NEW i \in Pid, StrangerStarts(i) \/ StrangerEnds(i)
        PROVE  PidsTold'
    BY <2>6 DEF StrangerStarts, StrangerEnds, LivePids
  <2>. QED
    BY <1>1, <2>1, <2>2, <2>3, <2>4, <2>5, <2>6 DEF LockNext
<1>. QED BY <1>0, <1>1

\* A lock that appears while an instance exits is that of a start with another pid.
LEMMA ForeignNext ==
    LockType /\ PidsTold /\ FileOwner /\ Foreign /\ [LockNext]_lockVars => Foreign'
<1>. SUFFICES ASSUME LockType, PidsTold, FileOwner, Foreign, [LockNext]_lockVars
              PROVE  Foreign'
  OBVIOUS
<1>. USE DEF LockType, Foreign, NoFile
<1>0. CASE UNCHANGED lockVars
  BY <1>0 DEF lockVars
\* A step of one process that creates no file.
<1>f. ASSUME NEW p \in Proc, lockOf' \in {lockOf, NoProc},
             \A q \in Proc : q # p => stage'[q] = stage[q] /\ pid'[q] = pid[q],
             lockOf = p => pid'[p] = pid[p],
             stage'[p] # "exiting"
      PROVE  Foreign'
  BY <1>f
<1>1. CASE LockNext
  <2>1. ASSUME NEW p \in Proc, NEW i \in Pid, Start(p, i) PROVE Foreign'
    BY <1>f, <2>1 DEF Start, IsNext, FileOwner, Goes
  <2>2. ASSUME NEW q \in Proc, NEW p \in Proc, NEW i \in Pid, RestartInstance(q, p, i)
        PROVE  Foreign'
    BY <1>f, <2>2 DEF RestartInstance, IsNext, FileOwner, Goes
  <2>3. ASSUME NEW p \in Proc, WaitEnds(p) PROVE Foreign'
    BY <1>f, <2>3 DEF WaitEnds, Goes
  <2>4. ASSUME NEW p \in Proc, Acquire(p) PROVE Foreign'
    <3>1. CASE Open(p) /\ NoFile
      <4>1. ASSUME NEW q \in Proc, stage'[q] = "exiting"
            PROVE  pid'[lockOf'] # pid'[q]
        <5>1. stage[q] = "exiting" /\ q # p /\ stage[p] \in {"opening", "reopening"}
          BY <3>1, <4>1 DEF Open, Goes
        <5>2. Alive(q) /\ Alive(p)
          BY <5>1 DEF Alive
        <5>. QED BY <3>1, <5>1, <5>2 DEF Open, PidsTold
      <4>. QED BY <4>1
    <3>2. CASE Open(p) /\ ~NoFile
      BY <1>f, <3>2 DEF Open, Goes
    <3>3. CASE ~Open(p)
      BY <1>f, <2>4, <3>3
         DEF Acquire, Write, Look, Read, Clear, Verify, Unlink, Unlinked, Reread, Goes
    <3>. QED BY <3>1, <3>2, <3>3
  <2>5. ASSUME NEW p \in Proc, Exit(p) PROVE Foreign'
    <3>1. CASE stage'[p] = "exiting"
      <4>1. NoFile \/ pid[lockOf] # pid[p]
        BY <2>5, <3>1 DEF Exit, Goes, Empty, Readable
      <4>. QED BY <2>5, <4>1 DEF Exit, Leaves, Goes
    <3>. QED BY <1>f, <2>5, <3>1 DEF Exit, Leaves, Goes
  <2>6. ASSUME NEW p \in Proc, Release(p) PROVE Foreign'
    BY <2>6 DEF Release, Unlinked
  <2>7. ASSUME NEW p \in Proc, AskExit(p) \/ Signal(p) \/ Crash(p) PROVE Foreign'
    BY <2>7 DEF AskExit, Signal, Crash, Goes
  <2>8. ASSUME NEW i \in Pid, StrangerStarts(i) \/ StrangerEnds(i)
        PROVE  Foreign'
    BY <2>8 DEF StrangerStarts, StrangerEnds
  <2>. QED
    BY <1>1, <2>1, <2>2, <2>3, <2>4, <2>5, <2>6, <2>7, <2>8 DEF LockNext
<1>. QED BY <1>0, <1>1

-----------------------------------------------------------------------------
(* The owner of the file                                                   *)

\* While nobody acquires beside it, a start acts on what the file still is.
LEMMA FileNext == LockInv /\ [LockNext]_lockVars => LockInv'
<1>. SUFFICES ASSUME LockInv, [LockNext]_lockVars PROVE LockInv'
  OBVIOUS
<1>0. LockType' /\ PidsTold' /\ Foreign'
  BY LockTypeNext, PidsToldNext, ForeignNext DEF LockInv
<1>. USE DEF LockType, Stages
<1>. DEFINE Alone == Orderly => /\ \A p \in Starters : Knows(p)
                                /\ \A p \in Proc : Owns(p)
<1>. SUFFICES FileOwner' /\ Alone'
  BY <1>0 DEF LockInv
<1>t. LockType /\ PidsTold /\ FileOwner /\ Foreign /\ Alone
  BY DEF LockInv
<1>. USE <1>t
<1>1. ASSUME UNCHANGED <<stage, pid, lock, suspect>>, Orderly' => Orderly
      PROVE  FileOwner' /\ Alone'
  BY <1>1 DEF FileOwner, NoFile, Starters, Knows, Owns, Alive
<1>2. CASE UNCHANGED lockVars
  BY <1>1, <1>2 DEF lockVars, Orderly
<1>3. CASE LockNext
  <2>1. Orderly' => Orderly /\ \A p, q \in Starters' : p = q
    <3>1. TakeNote
      BY <1>3 DEF LockNext
    <3>. QED BY <3>1 DEF TakeNote, Orderly
  \* A step that leaves the file alone, to a stage that knows nothing of it.
  <2>2. ASSUME NEW p \in Proc, UNCHANGED <<lock, suspect>>,
               \A q \in Proc : q # p => stage'[q] = stage[q] /\ pid'[q] = pid[q],
               lockOf = p => stage'[p] = "gone" /\ pid'[p] = pid[p],
               stage'[p] \in {"opening", "reopening", "looking", "reading",
                              "rereading", "waiting", "refused", "exiting", "gone"}
        PROVE  FileOwner' /\ Alone'
    <3>1. FileOwner'
      BY <2>2 DEF FileOwner, NoFile
    <3>2. ASSUME Orderly', NEW q \in Starters' PROVE Knows(q)'
      <4>1. CASE q = p
        BY <2>1, <2>2, <3>2, <4>1 DEF Knows
      <4>2. CASE q # p
        BY <2>1, <2>2, <3>2, <4>2 DEF Knows, Starters, NoFile, Alive, FileOwner
      <4>. QED BY <4>1, <4>2
    <3>3. ASSUME Orderly', NEW q \in Proc PROVE Owns(q)'
      BY <2>1, <2>2, <3>3 DEF Owns
    <3>. QED BY <3>1, <3>2, <3>3
  \* A step that leaves the file alone, of the only start that acquires.
  <2>3. ASSUME NEW p \in Proc, stage[p] \in Acquiring, UNCHANGED <<lock, pid>>,
               stage' = [stage EXCEPT ![p] = stage'[p]],
               stage'[p] \in Acquiring \ {"writing"}, lockOf # p,
               Orderly' => Knows(p)'
        PROVE  FileOwner' /\ Alone'
    <3>1. FileOwner'
      BY <2>3 DEF FileOwner, NoFile
    <3>2. ASSUME Orderly', NEW q \in Starters' PROVE Knows(q)'
      BY <2>1, <2>3, <3>2 DEF Starters
    <3>3. ASSUME Orderly', NEW q \in Proc PROVE Owns(q)'
      BY <2>1, <2>3, <3>3 DEF Owns, Acquiring
    <3>. QED BY <3>1, <3>2, <3>3
  \* A step that unlinks the file that the start p knows to be dead or its own.
  <2>4. ASSUME NEW p \in Proc, Unlinked, UNCHANGED <<pid, suspect>>,
               stage' = [stage EXCEPT ![p] = stage'[p]],
               stage'[p] \in {"unlinking", "reopening", "refused", "exiting", "gone"},
               Orderly => NoFile \/ ~Alive(lockOf) \/ lockOf = p
        PROVE  FileOwner' /\ Alone'
    <3>1. FileOwner'
      BY <2>4 DEF FileOwner, NoFile, Unlinked
    <3>2. ASSUME Orderly', NEW q \in Starters' PROVE Knows(q)'
      BY <2>1, <2>4, <3>2 DEF Starters, Knows, NoFile, Unlinked, Alive, Acquiring
    <3>3. ASSUME Orderly', NEW q \in Proc PROVE Owns(q)'
      BY <2>1, <2>4, <3>3 DEF Owns, Alive, NoFile
    <3>. QED BY <3>1, <3>2, <3>3
  <2>5. ASSUME NEW p \in Proc, NEW i \in Pid, Start(p, i) PROVE FileOwner' /\ Alone'
    <3>1. lockOf # p
      BY <2>5 DEF Start, IsNext, FileOwner
    <3>. QED BY <2>2, <2>5, <3>1 DEF Start, Goes
  <2>6. ASSUME NEW q \in Proc, NEW p \in Proc, NEW i \in Pid, RestartInstance(q, p, i)
        PROVE  FileOwner' /\ Alone'
    <3>1. lockOf # p
      BY <2>6 DEF RestartInstance, IsNext, FileOwner
    <3>. QED BY <2>2, <2>6, <3>1 DEF RestartInstance, Goes
  <2>7. ASSUME NEW p \in Proc, WaitEnds(p) PROVE FileOwner' /\ Alone'
    <3>1. lockOf # p
      BY <2>7 DEF WaitEnds, FileOwner
    <3>. QED BY <2>2, <2>7, <3>1 DEF WaitEnds, Goes
  <2>8. ASSUME NEW p \in Proc, Acquire(p) PROVE FileOwner' /\ Alone'
    <3>1. CASE Open(p) /\ NoFile
      <4>1. /\ lockOf' = p /\ ~written'
            /\ UNCHANGED <<pid, suspect>>
            /\ stage' = [stage EXCEPT ![p] = "writing"]
            /\ p \in Starters
        BY <3>1 DEF Open, Goes, NoFile, FileOwner, Starters, Acquiring
      <4>2. FileOwner'
        BY <4>1 DEF FileOwner, NoFile
      <4>3. ASSUME Orderly', NEW q \in Starters' PROVE Knows(q)'
        <5>1. q = p
          BY <2>1, <4>1, <4>3 DEF Starters, Acquiring
        <5>. QED BY <2>1, <4>1, <4>3, <5>1 DEF Knows
      <4>4. ASSUME Orderly', NEW q \in Proc PROVE Owns(q)'
        BY <2>1, <3>1, <4>1, <4>4 DEF Owns, NoFile
      <4>. QED BY <4>2, <4>3, <4>4
    <3>2. CASE Open(p) /\ ~NoFile
      <4>1. lockOf # p
        BY <3>2 DEF Open, FileOwner
      <4>. QED BY <2>2, <3>2, <4>1 DEF Open, Goes, NoFile
    <3>3. CASE Write(p)
      <4>1. /\ UNCHANGED <<lockOf, pid, suspect>>
            /\ stage[p] = "writing" /\ p \in Starters
            /\ stage' = [stage EXCEPT ![p] = "running"]
            /\ written' = (written \/ lockOf = p)
        BY <3>3 DEF Write, Goes, Starters, Acquiring
      <4>2. FileOwner'
        BY <4>1 DEF FileOwner, NoFile
      <4>3. ASSUME Orderly', NEW q \in Starters' PROVE FALSE
        BY <2>1, <4>1, <4>3 DEF Knows, Starters, Acquiring
      <4>4. ASSUME Orderly', NEW q \in Proc PROVE Owns(q)'
        BY <2>1, <4>1, <4>4 DEF Owns, Knows
      <4>. QED BY <4>2, <4>3, <4>4
    <3>4. CASE Look(p)
      <4>1. lockOf # p
        BY <3>4 DEF Look, FileOwner
      <4>2. CASE NoFile
        <5>1. /\ stage[p] \in Acquiring
              /\ stage' = [stage EXCEPT ![p] = "unlinking"]
              /\ UNCHANGED <<lock, pid, suspect>>
          BY <3>4, <4>2 DEF Look, Goes, Acquiring
        <5>2. Orderly' => Knows(p)'
          BY <2>1, <4>2, <5>1 DEF Knows, Starters, Acquiring, NoFile
        <5>. QED BY <2>3, <4>1, <5>1, <5>2 DEF Acquiring
      <4>3. CASE ~NoFile
        BY <2>2, <3>4, <4>1, <4>3 DEF Look, Goes
      <4>. QED BY <4>2, <4>3
    <3>5. CASE Read(p)
      <4>1. lockOf # p /\ p \in Starters /\ UNCHANGED <<pid, lock, strangers>>
        BY <3>5 DEF Read, FileOwner, Starters, Acquiring
      <4>2. CASE NoFile
        BY <2>2, <3>5, <4>1, <4>2 DEF Read, Goes, NoFile, Empty, Readable
      <4>3. CASE Empty
        \* A living creator is still writing, so p is not alone.
        <5>1. Orderly => ~Alive(lockOf)
          <6>1. lockOf \in Proc /\ ~written
            BY <4>3 DEF Empty
          <6>2. Orderly => stage[lockOf] \notin {"writing", "running", "releasing"}
            BY <4>1, <6>1 DEF Knows, Owns, Starters, Acquiring
          <6>. QED BY <6>1, <6>2 DEF FileOwner, Alive
        <5>2. /\ stage' = [stage EXCEPT ![p] = "clearing"]
              /\ UNCHANGED suspect
          BY <3>5, <4>3 DEF Read, Goes, NoFile, Empty, Readable
        <5>3. stage[lockOf] = "gone" => stage'[lockOf] = "gone"
          BY <4>1, <4>3, <5>2 DEF Empty
        <5>4. Orderly' => Knows(p)'
          BY <2>1, <4>1, <4>3, <5>1, <5>2, <5>3 DEF Knows, Alive, Empty, Starters, Acquiring
        <5>. QED BY <2>3, <3>5, <4>1, <5>2, <5>4 DEF Read, Acquiring
      <4>4. CASE Readable
        <5>1. /\ suspect'[p] = pid[lockOf]
              /\ \A q \in Proc : q # p => suspect'[q] = suspect[q]
              /\ stage' = [stage EXCEPT ![p] = stage'[p]]
              /\ stage'[p] = IF pid[lockOf] \in LivePids THEN "verifying" ELSE "unlinking"
          BY <3>5, <4>4 DEF Read, Goes, NoFile, Empty, Readable
        <5>2. pid[lockOf] \notin LivePids => ~Alive(lockOf)
          BY <4>4 DEF LivePids, Readable
        <5>3. FileOwner'
          BY <4>1, <5>1 DEF FileOwner, NoFile
        <5>4. ASSUME Orderly', NEW q \in Starters' PROVE Knows(q)'
          <6>1. q = p
            BY <2>1, <4>1, <5>1, <5>4 DEF Starters, Acquiring
          <6>. QED BY <2>1, <4>1, <4>4, <5>1, <5>2, <5>4, <6>1 DEF Knows, Alive, Readable
        <5>5. ASSUME Orderly', NEW q \in Proc PROVE Owns(q)'
          BY <2>1, <4>1, <5>1, <5>5 DEF Owns
        <5>. QED BY <5>3, <5>4, <5>5
      <4>. QED BY <3>5, <4>2, <4>3, <4>4 DEF Read
    <3>6. CASE Clear(p)
      <4>1. Orderly => NoFile \/ ~Alive(lockOf) \/ lockOf = p
        BY <3>6 DEF Clear, Knows, Starters, Acquiring
      <4>. QED BY <2>4, <3>6, <4>1 DEF Clear, Goes
    <3>7. CASE Verify(p)
      <4>1. lockOf # p /\ p \in Starters /\ UNCHANGED <<pid, lock, strangers>>
        BY <3>7 DEF Verify, FileOwner, Starters, Acquiring
      <4>2. FileOwner'
        BY <3>7, <4>1 DEF Verify, Goes, FileOwner, NoFile
      <4>3. ASSUME Orderly', NEW q \in Starters' PROVE Knows(q)'
        <5>1. q = p /\ stage'[p] = "unlinking" /\ suspect[p] \in strangers
          BY <2>1, <3>7, <4>1, <4>3 DEF Verify, Goes, Starters, Knows, Acquiring
        <5>2. NoFile \/ pid[lockOf] \in strangers
          BY <2>1, <3>7, <4>1, <4>3, <5>1 DEF Verify, Knows
        <5>3. NoFile \/ ~Alive(lockOf)
          BY <5>2 DEF PidsTold, NoFile
        <5>. QED
          BY <2>1, <3>7, <4>1, <4>3, <5>1, <5>3 DEF Verify, Goes, Knows, Alive, NoFile
      <4>4. ASSUME Orderly', NEW q \in Proc PROVE Owns(q)'
        BY <2>1, <3>7, <4>1, <4>4 DEF Verify, Goes, Owns
      <4>. QED BY <4>2, <4>3, <4>4
    <3>8. CASE Unlink(p)
      <4>1. Orderly => NoFile \/ ~Alive(lockOf) \/ lockOf = p
        BY <3>8 DEF Unlink, Knows, Starters, Acquiring
      <4>. QED BY <2>4, <3>8, <4>1 DEF Unlink, Goes
    <3>9. CASE Reread(p)
      <4>1. lockOf # p /\ p \in Starters
        BY <3>9 DEF Reread, FileOwner, Starters, Acquiring
      <4>2. CASE ~Empty
        BY <2>2, <3>9, <4>1, <4>2 DEF Reread, Goes
      <4>3. CASE Empty
        <5>1. Orderly => ~Alive(lockOf)
          <6>1. lockOf \in Proc /\ ~written
            BY <4>3 DEF Empty
          <6>2. Orderly => stage[lockOf] \notin {"writing", "running", "releasing"}
            BY <3>9, <4>1, <6>1 DEF Reread, Knows, Owns, Starters, Acquiring
          <6>. QED BY <6>1, <6>2 DEF FileOwner, Alive
        <5>2. stage' = [stage EXCEPT ![p] = "reclearing"] /\ UNCHANGED <<lock, pid, suspect>>
          BY <3>9, <4>3 DEF Reread, Goes
        <5>3. Orderly' => Knows(p)'
          BY <2>1, <4>1, <4>3, <5>1, <5>2 DEF Knows, Alive, Empty, Starters, Acquiring
        <5>. QED BY <2>3, <3>9, <4>1, <5>2, <5>3 DEF Reread, Acquiring
      <4>. QED BY <4>2, <4>3
    <3>. QED
      BY <2>8, <3>1, <3>2, <3>3, <3>4, <3>5, <3>6, <3>7, <3>8, <3>9 DEF Acquire
  <2>9. ASSUME NEW p \in Proc, AskExit(p) PROVE FileOwner' /\ Alone'
    BY <1>1, <2>1, <2>9 DEF AskExit
  <2>14. ASSUME NEW p \in Proc, Signal(p) PROVE FileOwner' /\ Alone'
    BY <1>1, <2>1, <2>14 DEF Signal
  <2>10. ASSUME NEW p \in Proc, Exit(p) PROVE FileOwner' /\ Alone'
    <3>. DEFINE Unlinks == Empty \/ (Readable /\ pid[lockOf] = pid[p])
    <3>0. stage[p] \in {"running", "exiting"} /\ UNCHANGED <<lock, pid, suspect>>
      BY <2>10 DEF Exit
    \* A lock that is neither empty nor its own has another creator.
    <3>1. CASE ~Unlinks
      <4>1. lockOf # p
        BY <3>1 DEF Empty, Readable
      <4>2. stage' = [stage EXCEPT ![p] = IF p \in again THEN "exiting" ELSE "gone"]
        BY <2>10, <3>1 DEF Exit, Leaves, Goes
      <4>. QED BY <2>2, <3>0, <4>1, <4>2
    <3>2. CASE Unlinks
      <4>1. stage' = [stage EXCEPT ![p] = "releasing"]
        BY <2>10, <3>2 DEF Exit, Goes
      <4>2. FileOwner'
        <5>1. lockOf = p => stage[p] = "running"
          BY <3>0 DEF FileOwner
        <5>. QED BY <3>0, <4>1 DEF FileOwner, NoFile
      <4>3. ASSUME Orderly', NEW q \in Starters' PROVE Knows(q)'
        BY <2>1, <3>0, <4>1, <4>3 DEF Starters, Knows, Alive, NoFile, Acquiring
      <4>4. Orderly' => ~Empty
        <5>1. TakeNote
          BY <1>3 DEF LockNext
        <5>2. stage[p] # "releasing" /\ stage'[p] = "releasing"
          BY <3>0, <4>1
        <5>. QED BY <5>1, <5>2 DEF TakeNote, Orderly
      \* An instance that releases again finds no pid of its own.
      <4>5. Orderly' => lockOf = p /\ written
        <5>1. Orderly' => Readable /\ pid[lockOf] = pid[p]
          BY <3>2, <4>4
        <5>2. CASE stage[p] = "running"
          BY <2>1, <5>2 DEF Owns
        <5>3. CASE stage[p] = "exiting"
          BY <5>1, <5>3 DEF Foreign, Readable, NoFile
        <5>. QED BY <3>0, <5>2, <5>3
      <4>6. ASSUME Orderly', NEW q \in Proc PROVE Owns(q)'
        BY <2>1, <3>0, <4>1, <4>5, <4>6 DEF Owns
      <4>. QED BY <4>2, <4>3, <4>6
    <3>. QED BY <3>1, <3>2
  <2>11. ASSUME NEW p \in Proc, Release(p) PROVE FileOwner' /\ Alone'
    <3>1. Orderly => NoFile \/ ~Alive(lockOf) \/ lockOf = p
      BY <2>11 DEF Release, Owns
    <3>. QED BY <2>4, <2>11, <3>1 DEF Release, Leaves, Goes
  <2>12. ASSUME NEW p \in Proc, Crash(p) PROVE FileOwner' /\ Alone'
    BY <2>2, <2>12 DEF Crash, Goes
  <2>13. ASSUME NEW i \in Pid, StrangerStarts(i) \/ StrangerEnds(i)
         PROVE  FileOwner' /\ Alone'
    BY <1>1, <2>1, <2>13 DEF StrangerStarts, StrangerEnds
  <2>. QED
    BY <1>3, <2>5, <2>6, <2>7, <2>8, <2>9, <2>14, <2>10, <2>11, <2>12, <2>13 DEF LockNext
<1>. QED BY <1>2, <1>3

LEMMA LockInvariant == LockSpec => []LockInv
BY LockInvInit, FileNext, PTL DEF LockSpec

\* For any number of starts and pids: while no two starts have acquired at the
\* same time, and no exiting instance has taken a lock that is just being written
\* for a malformed one, an instance that runs owns the lock file, whatever pids the
\* system reuses, wherever starts and instances crash and however often an exit
\* runs release() (acquire and release of instance-lock.ts).
THEOREM RunningInstanceOwnsTheLock == LockSpec => []RunningOwnsLock
<1>1. LockInv => RunningOwnsLock
  BY DEF LockInv, Owns, RunningOwnsLock
<1>. QED BY <1>1, LockInvariant, PTL

\* What the lock is for: no two instances of the bridge run at the same time,
\* as long as no two starts have acquired at the same time and no instance has,
\* on exit, read a lock that a start was just writing.
COROLLARY OneInstanceRuns ==
    LockSpec => [](\A p, q \in Proc :
        stage[p] = "running" /\ stage[q] = "running" /\ Orderly => p = q)
<1>1. RunningOwnsLock => \A p, q \in Proc :
          stage[p] = "running" /\ stage[q] = "running" /\ Orderly => p = q
  BY DEF RunningOwnsLock
<1>. QED BY <1>1, RunningInstanceOwnsTheLock, PTL

(***************************************************************************)
(* The session pointers, for every set of agents and directories and any   *)
(* number of sessions, messages and commands: a run that a command         *)
(* overtook never writes back, and switching back restores the session.    *)
(***************************************************************************)

USE SessionAssumption DEF None

Pointers == [Agents -> Nat]
Entry == [sessions : Pointers, previous : Pointers, arrival : Pointers, cwd : Dirs]
Waiting == [agent : Agents, session : Nat]
Run == [agent : Agents \cup {"none"}, from : Nat, session : Nat, epoch : Nat,
        overtaken : BOOLEAN]

PointerType ==
    /\ store \in Entry /\ disk \in Entry
    /\ epochs \in [user : Nat, agent : [Agents -> Nat]]
    /\ defaultAgent \in Agents
    /\ made \in Seq([agent : Agents, dir : Dirs])
    /\ lanes \in [Dirs -> Seq(Waiting)]
    /\ runs \in [Dirs -> Run]

\* getSessionEpoch, of given epochs.
Epoch(e, a) == e.user + e.agent[a]

\* The epoch a run was given at its start is never ahead of its agent's, and it is
\* behind as soon as a command has moved the pointer of the agent.
RunEpochs ==
    \A d \in Dirs :
        /\ runs[d] = NoRun \/ runs[d].agent \in Agents
        /\ runs[d].agent \in Agents => runs[d].epoch <= Epoch(epochs, runs[d].agent)
        /\ runs[d].overtaken => /\ runs[d].agent \in Agents
                                /\ runs[d].epoch < Epoch(epochs, runs[d].agent)

\* While nothing is done after a switch, what was left is parked, and the agent
\* that is current has the session it arrived with.
Parked ==
    away.session # None =>
        /\ away.agent \in Agents /\ away.agent # defaultAgent
        /\ store.sessions[away.agent] = None
        /\ store.previous[away.agent] = away.session
        /\ store.sessions[defaultAgent] = store.arrival[defaultAgent]

PointerInv == PointerType /\ RunEpochs /\ InFlightRunYields /\ Parked /\ SwitchBackRestores

LEMMA PointerInvInit == PointerInit => PointerInv
<1>. SUFFICES ASSUME PointerInit PROVE PointerInv
  OBVIOUS
<1>. USE DEF PointerInit
<1>1. NoSessions \in Pointers
  BY DEF NoSessions, Pointers
<1>2. store \in Entry /\ disk \in Entry
  BY <1>1 DEF Entry
<1>3. NoRun \in Run
  BY DEF NoRun, Run
<1>4. made \in Seq([agent : Agents, dir : Dirs]) /\ lanes \in [Dirs -> Seq(Waiting)]
  BY EmptySeq
<1>5. epochs \in [user : Nat, agent : [Agents -> Nat]] /\ runs \in [Dirs -> Run]
  BY <1>3
<1>6. PointerType
  BY <1>2, <1>4, <1>5 DEF PointerType
<1>7. RunEpochs
  BY DEF RunEpochs, NoRun, Epoch
<1>8. Parked /\ InFlightRunYields /\ SwitchBackRestores
  BY DEF Parked, NotAway, InFlightRunYields, SwitchBackRestores
<1>. QED BY <1>6, <1>7, <1>8 DEF PointerInv

-----------------------------------------------------------------------------
(* Operators                                                               *)

\* The newest of a set of sessions is one of them.
LEMMA NewestIsOne ==
    ASSUME NEW n \in Nat, NEW S \in SUBSET (1 .. n), S # {}
    PROVE  Max(S) \in S
<1>. DEFINE T == {n - x : x \in S}
<1>0. \A x \in S : x \in Nat /\ n - x \in Nat
  OBVIOUS
<1>1. T \subseteq Nat /\ T # {}
  BY <1>0
<1>2. PICK t \in T : \A u \in T : ~(u < t)
  <2>1. PICK t \in T : \A u \in T : ~(<<u, t>> \in OpToRel(<, Nat))
    BY <1>1, NatLessThanWellFounded, WFMin
  <2>. QED BY <1>1, <2>1 DEF OpToRel
<1>3. PICK x \in S : t = n - x
  OBVIOUS
<1>4. \A y \in S : x >= y
  <2>. SUFFICES ASSUME NEW y \in S PROVE x >= y
    OBVIOUS
  <2>1. ~(n - y < n - x)
    BY <1>2, <1>3
  <2>. QED BY <1>0, <2>1
<1>. QED BY <1>4 DEF Max

LEMMA SessionsOfType ==
    ASSUME PointerType, NEW a \in Agents, NEW d \in Dirs
    PROVE  /\ SessionsOf(a, d) \subseteq Nat
           /\ SessionsOf(a, d) # {} => Max(SessionsOf(a, d)) \in Nat
<1>1. SessionsOf(a, d) \in SUBSET (1 .. Len(made)) /\ Len(made) \in Nat
  BY DEF PointerType, SessionsOf
<1>2. SessionsOf(a, d) # {} => Max(SessionsOf(a, d)) \in SessionsOf(a, d)
  <2>. HIDE DEF SessionsOf
  <2>. QED BY <1>1, NewestIsOne
<1>. QED BY <1>1, <1>2

\* What switching from old to new leaves in the store: the session of old parked,
\* new with what it arrived with, and that is its parked session if the user did
\* nothing since it was parked.
LEMMA SwitchStoreParks ==
    ASSUME store \in Entry, NEW old \in Agents, NEW new \in Agents, old # new
    PROVE  LET s == SwitchStore(old, new)
           IN  /\ s \in Entry
               /\ s.sessions[old] = None
               /\ store.sessions[old] # None => s.previous[old] = store.sessions[old]
               /\ s.sessions[new] = s.arrival[new]
               /\ store.sessions[new] = None /\ store.sessions[old] = store.arrival[old]
                  /\ store.previous[new] # None
                     => s.sessions[new] = store.previous[new]
<1>. DEFINE session == store.sessions[old]
            parked == IF session = None THEN store ELSE SetPreviousSessionId(store, old, session)
            left == ClearSessionId(parked, old)
            before == left.previous[new]
            chosen == left.sessions[new]
<1>. USE DEF SetPreviousSessionId, ClearSessionId, SetArrivalSessionId, SetSessionId, Entry, Pointers
<1>1. /\ left \in Entry
      /\ left.sessions[old] = None
      /\ session # None => left.previous[old] = session
      /\ left.sessions[new] = store.sessions[new]
      /\ left.previous[new] = store.previous[new]
      /\ left.arrival = store.arrival
  <2>1. CASE session = None
    BY <2>1
  <2>2. CASE session # None
    BY <2>2
  <2>. QED BY <2>1, <2>2
<1>. HIDE DEF left
<1>2. CASE chosen # None /\ chosen # left.arrival[new]
  <2>1. SwitchStore(old, new) = SetArrivalSessionId(left, new, chosen)
    BY <1>2 DEF SwitchStore, left
  <2>. QED BY <1>1, <1>2, <2>1
<1>3. CASE /\ ~(chosen # None /\ chosen # left.arrival[new])
           /\ before # None /\ session = store.arrival[old]
  <2>1. SwitchStore(old, new)
           = SetArrivalSessionId(SetPreviousSessionId(SetSessionId(left, new, before), new, None),
                                 new, before)
    BY <1>3 DEF SwitchStore, left
  <2>2. DEFINE s == SwitchStore(old, new)
  <2>3. /\ s.sessions = [left.sessions EXCEPT ![new] = before]
        /\ s.previous = [left.previous EXCEPT ![new] = None]
        /\ s.arrival = [left.arrival EXCEPT ![new] = before]
        /\ s.cwd = left.cwd /\ s = [left EXCEPT !.sessions = s.sessions, !.previous = s.previous,
                                               !.arrival = s.arrival]
    BY <1>1, <2>1
  <2>4. before \in Nat
    BY <1>1
  <2>. QED BY <1>1, <1>3, <2>3, <2>4
<1>4. CASE /\ ~(chosen # None /\ chosen # left.arrival[new])
           /\ ~(before # None /\ session = store.arrival[old])
  <2>1. SwitchStore(old, new) = SetArrivalSessionId(ClearSessionId(left, new), new, None)
    BY <1>4 DEF SwitchStore, left
  <2>2. DEFINE s == SwitchStore(old, new)
  <2>3. /\ s.sessions = [left.sessions EXCEPT ![new] = None]
        /\ s.previous = left.previous
        /\ s.arrival = [left.arrival EXCEPT ![new] = None]
        /\ s.cwd = left.cwd /\ s = [left EXCEPT !.sessions = s.sessions, !.arrival = s.arrival]
    BY <1>1, <2>1
  <2>. QED BY <1>1, <1>4, <2>3
<1>. QED BY <1>2, <1>3, <1>4

\* A command that moves the pointers of some agents bumps their epochs.
LEMMA OvertakeKeepsEpochs ==
    ASSUME PointerType, RunEpochs, NEW moved \in SUBSET Agents, Overtake(moved),
           epochs' \in [user : Nat, agent : [Agents -> Nat]],
           \A a \in Agents : /\ Epoch(epochs, a) <= Epoch(epochs', a)
                             /\ a \in moved => Epoch(epochs, a) < Epoch(epochs', a)
    PROVE  runs' \in [Dirs -> Run] /\ RunEpochs'
<1>1. ASSUME NEW d \in Dirs
      PROVE  /\ runs'[d] \in Run
             /\ runs'[d].agent = runs[d].agent /\ runs'[d].epoch = runs[d].epoch
             /\ runs'[d].overtaken = (runs[d].overtaken \/ runs[d].agent \in moved)
             /\ runs[d] = NoRun /\ runs[d].agent \notin moved => runs'[d] = NoRun
  <2>1. /\ runs'[d] = [runs[d] EXCEPT !.overtaken = @ \/ (runs[d].agent \in moved)]
        /\ runs[d] \in Run
    BY DEF Overtake, PointerType
  <2>2. runs'[d].overtaken = (runs[d].overtaken \/ runs[d].agent \in moved)
    BY <2>1 DEF Run
  <2>3. runs[d] = NoRun /\ runs[d].agent \notin moved => runs'[d] = NoRun
    <3>. SUFFICES ASSUME runs[d] = NoRun, runs[d].agent \notin moved PROVE runs'[d] = NoRun
      OBVIOUS
    <3>1. (NoRun.overtaken \/ (runs[d].agent \in moved)) = FALSE
      BY DEF NoRun
    <3>2. runs'[d] = [NoRun EXCEPT !.overtaken = FALSE]
      BY <2>1, <3>1
    <3>. QED BY <3>2 DEF NoRun
  <2>4. runs'[d] \in Run /\ runs'[d].agent = runs[d].agent /\ runs'[d].epoch = runs[d].epoch
    BY <2>1 DEF Run
  <2>. QED BY <2>2, <2>3, <2>4
<1>2. runs' \in [Dirs -> Run]
  BY <1>1 DEF Overtake
<1>0. /\ epochs.user \in Nat /\ epochs.agent \in [Agents -> Nat]
      /\ epochs'.user \in Nat /\ epochs'.agent \in [Agents -> Nat]
  BY DEF PointerType
<1>3. \A a \in Agents : Epoch(epochs, a) \in Nat /\ Epoch(epochs', a) \in Nat
  BY <1>0 DEF Epoch
<1>4. ASSUME NEW d \in Dirs
      PROVE  /\ runs'[d] = NoRun \/ runs'[d].agent \in Agents
             /\ runs'[d].agent \in Agents => runs'[d].epoch <= Epoch(epochs', runs[d].agent)
             /\ runs'[d].overtaken => /\ runs'[d].agent \in Agents
                                      /\ runs'[d].epoch < Epoch(epochs', runs[d].agent)
  <2>1. runs[d].epoch \in Nat
    BY DEF PointerType, Run
  <2>2. /\ runs[d] = NoRun \/ runs[d].agent \in Agents
        /\ runs[d].agent \in Agents => runs[d].epoch <= Epoch(epochs, runs[d].agent)
        /\ runs[d].overtaken => /\ runs[d].agent \in Agents
                                /\ runs[d].epoch < Epoch(epochs, runs[d].agent)
    BY DEF RunEpochs
  <2>3. runs'[d] = NoRun \/ runs'[d].agent \in Agents
    BY <1>1, <2>2
  <2>4. runs'[d].agent \in Agents => runs'[d].epoch <= Epoch(epochs', runs[d].agent)
    BY <1>1, <1>3, <2>1, <2>2
  <2>5. CASE runs[d].overtaken
    BY <1>1, <1>3, <2>1, <2>2, <2>3, <2>4, <2>5
  <2>6. CASE ~runs[d].overtaken
    <3>1. runs'[d].overtaken => runs[d].agent \in moved
      BY <1>1, <2>6
    <3>2. runs[d].agent \in moved => /\ runs'[d].agent \in Agents
                                     /\ runs'[d].epoch < Epoch(epochs', runs[d].agent)
      BY <1>1, <1>3, <2>1, <2>2
    <3>. QED BY <2>3, <2>4, <3>1, <3>2
  <2>. QED BY <2>5, <2>6
<1>. QED BY <1>1, <1>2, <1>4 DEF RunEpochs, Epoch

\* A run that is given the epoch of now, or none, is not behind it.
LEMMA RunFrame ==
    ASSUME PointerType, RunEpochs, epochs' = epochs, NEW d \in Dirs, NEW r \in Run,
           runs' = [runs EXCEPT ![d] = r],
           r = NoRun \/ r.agent \in Agents,
           r.agent \in Agents => r.epoch <= Epoch(epochs, r.agent),
           r.overtaken => r.agent \in Agents /\ r.epoch < Epoch(epochs, r.agent)
    PROVE  runs' \in [Dirs -> Run] /\ RunEpochs'
BY DEF PointerType, RunEpochs, Epoch

-----------------------------------------------------------------------------
(* Every step keeps the invariant                                          *)

\* The part of the invariant that every command keeps in the same way.
LEMMA CommandStep ==
    ASSUME PointerInv, Command, NEW s \in Entry, AutoPersist(s),
           NEW moved \in SUBSET Agents, Overtake(moved),
           epochs' \in [user : Nat, agent : [Agents -> Nat]],
           \A a \in Agents : /\ Epoch(epochs, a) <= Epoch(epochs', a)
                             /\ a \in moved => Epoch(epochs, a) < Epoch(epochs', a),
           defaultAgent' \in Agents, Parked', restored'
    PROVE  PointerInv'
<1>1. runs' \in [Dirs -> Run] /\ RunEpochs'
  BY OvertakeKeepsEpochs DEF PointerInv
<1>2. PointerType'
  BY <1>1 DEF PointerInv, PointerType, Command, AutoPersist
<1>. QED
  BY <1>1, <1>2 DEF PointerInv, Command, InFlightRunYields, SwitchBackRestores

LEMMA BumpSession ==
    ASSUME PointerType, NEW a \in Agents
    PROVE  /\ BumpSessionEpoch(epochs, a) \in [user : Nat, agent : [Agents -> Nat]]
           /\ BumpSessionEpoch(epochs, a).user = epochs.user
           /\ BumpSessionEpoch(epochs, a).agent = [epochs.agent EXCEPT ![a] = @ + 1]
<1>. DEFINE bumped == [epochs.agent EXCEPT ![a] = @ + 1]
<1>1. epochs.agent \in [Agents -> Nat] /\ epochs.user \in Nat
  BY DEF PointerType
<1>2. bumped \in [Agents -> Nat]
  BY <1>1
<1>3. BumpSessionEpoch(epochs, a) = [epochs EXCEPT !.agent = bumped]
  BY DEF BumpSessionEpoch
<1>. HIDE DEF bumped
<1>4. [epochs EXCEPT !.agent = bumped] = [user |-> epochs.user, agent |-> bumped]
  <2>1. epochs \in [user : Nat, agent : [Agents -> Nat]]
    BY DEF PointerType
  <2>. QED BY ONLY <2>1
<1>. QED BY <1>1, <1>2, <1>3, <1>4 DEF bumped

\* One bump moves the epoch of one agent, and no other.
LEMMA BumpSum ==
    ASSUME PointerType, NEW a \in Agents, epochs' = BumpSessionEpoch(epochs, a)
    PROVE  /\ epochs' \in [user : Nat, agent : [Agents -> Nat]]
           /\ \A b \in Agents : /\ Epoch(epochs, b) <= Epoch(epochs', b)
                                /\ b \in {a} => Epoch(epochs, b) < Epoch(epochs', b)
<1>1. /\ epochs.agent \in [Agents -> Nat] /\ epochs.user \in Nat
      /\ epochs'.agent = [epochs.agent EXCEPT ![a] = @ + 1] /\ epochs'.user = epochs.user
  BY BumpSession DEF PointerType
<1>2. ASSUME NEW b \in Agents
      PROVE  /\ Epoch(epochs, b) <= Epoch(epochs', b)
             /\ b \in {a} => Epoch(epochs, b) < Epoch(epochs', b)
  <2>1. /\ epochs.agent[b] \in Nat
        /\ epochs'.agent[b] = IF b = a THEN epochs.agent[b] + 1 ELSE epochs.agent[b]
    BY <1>1
  <2>. QED BY <1>1, <2>1 DEF Epoch
<1>. QED BY <1>2, BumpSession

\* So do the two bumps of a switch between two agents.
LEMMA BumpTwoSum ==
    ASSUME PointerType, NEW a \in Agents, NEW c \in Agents, a # c,
           epochs' = BumpSessionEpoch(BumpSessionEpoch(epochs, a), c)
    PROVE  /\ epochs' \in [user : Nat, agent : [Agents -> Nat]]
           /\ \A b \in Agents : /\ Epoch(epochs, b) <= Epoch(epochs', b)
                                /\ b \in {a, c} => Epoch(epochs, b) < Epoch(epochs', b)
<1>. DEFINE once == BumpSessionEpoch(epochs, a)
            twice == [once.agent EXCEPT ![c] = @ + 1]
<1>1. /\ epochs.agent \in [Agents -> Nat] /\ epochs.user \in Nat
      /\ once \in [user : Nat, agent : [Agents -> Nat]]
      /\ once.agent = [epochs.agent EXCEPT ![a] = @ + 1] /\ once.user = epochs.user
  BY BumpSession DEF PointerType
<1>2. twice \in [Agents -> Nat]
  BY <1>1
<1>3. epochs' = [once EXCEPT !.agent = twice]
  BY DEF BumpSessionEpoch
<1>. HIDE DEF once, twice
<1>4. epochs' = [user |-> once.user, agent |-> twice]
  BY <1>1, <1>3
<1>5. ASSUME NEW b \in Agents
      PROVE  /\ Epoch(epochs, b) <= Epoch(epochs', b)
             /\ b \in {a, c} => Epoch(epochs, b) < Epoch(epochs', b)
  <2>1. /\ epochs.agent[b] \in Nat
        /\ epochs'.agent[b] = IF b \in {a, c} THEN epochs.agent[b] + 1 ELSE epochs.agent[b]
    BY <1>1, <1>4 DEF twice
  <2>2. epochs'.user = epochs.user
    BY <1>1, <1>4
  <2>. QED BY <1>1, <2>1, <2>2 DEF Epoch
<1>6. epochs' \in [user : Nat, agent : [Agents -> Nat]]
  BY <1>1, <1>2, <1>4
<1>. QED BY <1>5, <1>6

LEMMA PointerNextInv == PointerInv /\ [PointerNext]_pointerVars => PointerInv'
<1>. SUFFICES ASSUME PointerInv, [PointerNext]_pointerVars PROVE PointerInv'
  OBVIOUS
<1>t. PointerType /\ RunEpochs /\ InFlightRunYields /\ Parked /\ SwitchBackRestores
  BY DEF PointerInv
<1>s. store \in Entry /\ defaultAgent \in Agents /\ NoSessions \in Pointers
  BY <1>t DEF PointerType, NoSessions, Pointers
<1>n. away' = NotAway => Parked'
  BY DEF Parked, NotAway
<1>0. CASE UNCHANGED pointerVars
  BY <1>0, <1>t DEF pointerVars, PointerInv, PointerType, RunEpochs, InFlightRunYields,
                    Parked, SwitchBackRestores, Epoch
<1>1. CASE New
  <2>1. ClearSessionId(store, defaultAgent) \in Entry
    BY <1>s DEF ClearSessionId, Entry, Pointers
  <2>2. \A a \in Agents : /\ Epoch(epochs, a) <= Epoch(epochs', a)
                          /\ a \in {defaultAgent} => Epoch(epochs, a) < Epoch(epochs', a)
    BY <1>1, <1>s, <1>t, BumpSum DEF New
  <2>. QED
    BY <1>1, <1>n, <1>s, <1>t, <2>1, <2>2, BumpSession, CommandStep DEF New, SwitchBackRestores
<1>2. ASSUME NEW d \in Dirs, SwitchCwdAndNotify(d) PROVE PointerInv'
  <2>. DEFINE newest == SessionsOf(defaultAgent, d)
  <2>1. SetCwd(store, d) \in Entry
    BY <1>s DEF SetCwd, Entry
  <2>2. newest # {} => SetSessionIdAndCwd(SetCwd(store, d), defaultAgent, Max(newest), d) \in Entry
    <3>1. newest # {} => Max(newest) \in Nat
      BY <1>s, <1>t, SessionsOfType
    <3>. HIDE DEF newest
    <3>. QED BY <2>1, <3>1 DEF SetSessionIdAndCwd, Entry, Pointers
  <2>3. /\ epochs' \in [user : Nat, agent : [Agents -> Nat]]
        /\ \A a \in Agents : Epoch(epochs, a) < Epoch(epochs', a)
    <3>1. epochs' = [epochs EXCEPT !.user = @ + 1]
      BY <1>2 DEF SwitchCwdAndNotify, BumpUserEpoch
    <3>2. epochs.agent \in [Agents -> Nat] /\ epochs.user \in Nat
      BY <1>t DEF PointerType
    <3>3. /\ epochs' \in [user : Nat, agent : [Agents -> Nat]]
          /\ epochs'.user = epochs.user + 1 /\ epochs'.agent = epochs.agent
      <4>1. epochs = [user |-> epochs.user, agent |-> epochs.agent]
        BY <1>t DEF PointerType
      <4>2. epochs' = [user |-> epochs.user + 1, agent |-> epochs.agent]
        BY <3>1, <4>1
      <4>. QED BY <3>2, <4>2
    <3>. QED BY <3>2, <3>3 DEF Epoch
  <2>4. \A a \in Agents : Epoch(epochs, a) <= Epoch(epochs', a)
    <3>1. epochs \in [user : Nat, agent : [Agents -> Nat]]
      BY <1>t DEF PointerType
    <3>. QED BY ONLY <2>3, <3>1 DEF Epoch
  <2>5. PICK e \in Entry : AutoPersist(e)
    BY <1>2, <2>1, <2>2 DEF SwitchCwdAndNotify
  <2>6. /\ Command /\ Overtake(Agents) /\ away' = NotAway
        /\ UNCHANGED <<defaultAgent, restored>>
    BY <1>2 DEF SwitchCwdAndNotify
  <2>. QED
    BY <1>n, <1>s, <1>t, <2>3, <2>4, <2>5, <2>6, CommandStep DEF SwitchBackRestores
<1>3. ASSUME NEW a \in Agents, NEW id \in Ids, Resume(a, id) PROVE PointerInv'
  <2>1. SetSessionId(store, a, id) \in Entry
    BY <1>s DEF SetSessionId, Entry, Pointers, Ids
  <2>2. \A b \in Agents : /\ Epoch(epochs, b) <= Epoch(epochs', b)
                          /\ b \in {a} => Epoch(epochs, b) < Epoch(epochs', b)
    BY <1>3, <1>t, BumpSum DEF Resume
  <2>. QED
    BY <1>3, <1>n, <1>s, <1>t, <2>1, <2>2, BumpSession, CommandStep DEF Resume, SwitchBackRestores
<1>4. ASSUME NEW new \in Agents, SwitchAgent(new) PROVE PointerInv'
  <2>. DEFINE old == defaultAgent
              s == SwitchStore(old, new)
              chosen == store.sessions[new] # None /\ store.sessions[new] # store.arrival[new]
              moved == IF chosen THEN {old} ELSE {old, new}
  <2>1. /\ new # old /\ Command /\ defaultAgent' = new /\ AutoPersist(s) /\ Overtake(moved)
        /\ away' = [agent |-> old, session |-> store.sessions[old]]
        /\ restored' = (away.agent = new /\ away.session # None
                           => store'.sessions[new] = away.session)
        /\ epochs' = IF chosen THEN BumpSessionEpoch(epochs, old)
                     ELSE BumpSessionEpoch(BumpSessionEpoch(epochs, old), new)
    BY <1>4 DEF SwitchAgent
  <2>2. /\ s \in Entry
        /\ s.sessions[old] = None
        /\ store.sessions[old] # None => s.previous[old] = store.sessions[old]
        /\ s.sessions[new] = s.arrival[new]
        /\ store.sessions[new] = None /\ store.sessions[old] = store.arrival[old]
           /\ store.previous[new] # None
              => s.sessions[new] = store.previous[new]
    BY <1>s, <2>1, SwitchStoreParks
  <2>3. store' = s
    BY <2>1 DEF AutoPersist
  <2>. HIDE DEF s
  <2>4. Parked'
    BY <1>s, <2>1, <2>2, <2>3 DEF Parked
  <2>5. restored'
    BY <1>t, <2>1, <2>2, <2>3 DEF Parked
  <2>6. /\ epochs' \in [user : Nat, agent : [Agents -> Nat]]
        /\ \A a \in Agents : /\ Epoch(epochs, a) <= Epoch(epochs', a)
                             /\ a \in moved => Epoch(epochs, a) < Epoch(epochs', a)
    <3>1. CASE chosen
      BY <1>s, <1>t, <2>1, <3>1, BumpSum
    <3>2. CASE ~chosen
      BY <1>s, <1>t, <2>1, <3>2, BumpTwoSum
    <3>. QED BY <3>1, <3>2
  <2>7. moved \in SUBSET Agents
    BY <1>s
  <2>. HIDE DEF moved
  <2>. QED BY <2>1, <2>2, <2>4, <2>5, <2>6, <2>7, CommandStep
<1>5. CASE ChangeDshService
  <2>. DEFINE s == ClearSessionId(SetPreviousSessionId(store, "dsh", store.sessions["dsh"]), "dsh")
  <2>1. "dsh" \in Agents /\ s \in Entry
    BY <1>5, <1>s DEF ChangeDshService, ClearSessionId, SetPreviousSessionId, Entry, Pointers
  <2>2. \A a \in Agents : /\ Epoch(epochs, a) <= Epoch(epochs', a)
                          /\ a \in {"dsh"} => Epoch(epochs, a) < Epoch(epochs', a)
    BY <1>5, <1>t, <2>1, BumpSum DEF ChangeDshService
  <2>3. /\ Command /\ AutoPersist(s) /\ epochs' = BumpSessionEpoch(epochs, "dsh")
        /\ Overtake({"dsh"}) /\ away' = NotAway /\ UNCHANGED <<defaultAgent, restored>>
    BY <1>5 DEF ChangeDshService
  <2>. HIDE DEF s
  <2>. QED
    BY <1>n, <1>s, <1>t, <2>1, <2>2, <2>3, BumpSession, CommandStep DEF SwitchBackRestores
<1>6. CASE Send
  <2>1. [agent |-> defaultAgent, session |-> store.sessions[defaultAgent]] \in Waiting
    BY <1>s DEF Entry, Pointers, Waiting
  <2>2. lanes' \in [Dirs -> Seq(Waiting)]
    BY <1>6, <1>t, <2>1, AppendProperties DEF Send, PointerType
  <2>. QED
    BY <1>6, <1>t, <2>2 DEF Send, PointerInv, PointerType, RunEpochs, InFlightRunYields,
                            Parked, SwitchBackRestores, Epoch
<1>7. ASSUME NEW d \in Dirs, StartRun(d) PROVE PointerInv'
  <2>. DEFINE m == Head(lanes[d])
              id == IF m.session # None THEN m.session ELSE store.sessions[m.agent]
              r == [agent |-> m.agent, from |-> id, session |-> None,
                    epoch |-> Epoch(epochs, m.agent), overtaken |-> FALSE]
  <2>1. /\ runs' = [runs EXCEPT ![d] = r] /\ lanes[d] # <<>>
        /\ lanes' = [lanes EXCEPT ![d] = Tail(@)]
        /\ UNCHANGED <<store, disk, epochs, defaultAgent, made, sent, given, lastWrite, away, restored>>
    BY <1>7 DEF StartRun, Epoch, SessionEpoch
  <2>2. m \in Waiting /\ lanes' \in [Dirs -> Seq(Waiting)]
    BY <1>t, <2>1 DEF PointerType
  <2>3. Epoch(epochs, m.agent) \in Nat /\ id \in Nat /\ m.agent \in Agents
    <3>1. m.agent \in Agents /\ m.session \in Nat
      BY <2>2 DEF Waiting
    <3>2. store.sessions \in [Agents -> Nat]
      BY <1>s DEF Entry, Pointers
    <3>3. epochs.agent \in [Agents -> Nat] /\ epochs.user \in Nat
      BY <1>t DEF PointerType
    <3>. HIDE DEF m
    <3>. QED BY <3>1, <3>2, <3>3 DEF Epoch
  <2>4. /\ r \in Run /\ r.agent \in Agents /\ ~r.overtaken
        /\ r.epoch <= Epoch(epochs, r.agent)
    BY <2>3 DEF Run
  <2>. HIDE DEF r
  <2>5. runs' \in [Dirs -> Run] /\ RunEpochs'
    BY <1>t, <2>1, <2>4, RunFrame
  <2>. QED
    BY <1>t, <2>1, <2>2, <2>5 DEF PointerInv, PointerType, InFlightRunYields, Parked,
                                  SwitchBackRestores
\* Nothing that a run which was overtaken tells is written.
<1>8. ASSUME NEW d \in Dirs, NEW id \in Nat, NEW cwd \in Dirs, WriteBack(d, id, cwd),
             runs[d].agent \in Agents, runs' \in [Dirs -> Run], RunEpochs',
             made' \in Seq([agent : Agents, dir : Dirs])
      PROVE  PointerInv'
  <2>1. UNCHANGED <<epochs, defaultAgent, lanes, sent, given, restored>>
    BY <1>8 DEF WriteBack
  <2>2. CASE Epoch(epochs, runs[d].agent) = runs[d].epoch
    <3>1. ~runs[d].overtaken
      <4>1. epochs \in [user : Nat, agent : [Agents -> Nat]]
        BY <1>t DEF PointerType
      <4>2. /\ runs[d].agent \in Agents => runs[d].epoch <= Epoch(epochs, runs[d].agent)
            /\ runs[d].overtaken => /\ runs[d].agent \in Agents
                                    /\ runs[d].epoch < Epoch(epochs, runs[d].agent)
        BY <1>t DEF RunEpochs
      <4>3. Epoch(epochs, runs[d].agent) \in Nat
        BY ONLY <1>8, <4>1 DEF Epoch
      <4>. QED BY ONLY <2>2, <4>2, <4>3
    <3>2. SetSessionIdAndCwd(store, runs[d].agent, id, cwd) \in Entry
      BY <1>8, <1>s DEF SetSessionIdAndCwd, Entry, Pointers
    <3>3. /\ AutoPersist(SetSessionIdAndCwd(store, runs[d].agent, id, cwd))
          /\ lastWrite' = "current" /\ away' = NotAway
      BY <1>8, <2>2, <3>1 DEF WriteBack, Epoch, SessionEpoch
    <3>4. PointerType'
      BY <1>8, <1>t, <2>1, <3>2, <3>3 DEF PointerType, AutoPersist
    <3>. QED
      BY <1>8, <1>n, <1>t, <2>1, <3>3, <3>4 DEF PointerInv, InFlightRunYields, SwitchBackRestores
  <2>3. CASE Epoch(epochs, runs[d].agent) # runs[d].epoch
    <3>1. UNCHANGED <<store, disk, lastWrite, away>>
      BY <1>8, <2>3 DEF WriteBack, Epoch, SessionEpoch
    <3>. QED
      BY <1>8, <1>t, <2>1, <3>1 DEF PointerInv, PointerType, InFlightRunYields, Parked,
                                    SwitchBackRestores
  <2>. QED BY <2>2, <2>3
<1>9. ASSUME NEW d \in Dirs, NEW worktree \in BOOLEAN, InitArrives(d, worktree)
      PROVE  PointerInv'
  <2>. DEFINE r == [runs[d] EXCEPT !.session = runs'[d].session]
  <2>1. runs[d] \in Run /\ runs[d].agent \in Agents
    BY <1>9, <1>t DEF InitArrives, RunEpochs, PointerType
  <2>2. WriteBack(d, runs'[d].session, IF worktree THEN store.cwd ELSE d)
    BY <1>9 DEF InitArrives
  <2>3. /\ runs' = [runs EXCEPT ![d] = r]
        /\ runs'[d].session \in Nat
        /\ made' \in Seq([agent : Agents, dir : Dirs])
    <3>1. CASE UNCHANGED made /\ runs' = [runs EXCEPT ![d].session = runs[d].from]
      BY <1>t, <2>1, <3>1 DEF PointerType, Run
    <3>2. CASE /\ made' = Append(made, [agent |-> runs[d].agent, dir |-> d])
               /\ runs' = [runs EXCEPT ![d].session = Len(made) + 1]
      BY <1>t, <2>1, <3>2 DEF PointerType, Run
    <3>. QED BY <1>9, <3>1, <3>2 DEF InitArrives
  <2>4. /\ r \in Run /\ r.agent = runs[d].agent /\ r.epoch = runs[d].epoch
        /\ r.overtaken = runs[d].overtaken
    BY <2>1, <2>3 DEF Run
  <2>5. epochs' = epochs
    BY <2>2 DEF WriteBack
  <2>. HIDE DEF r
  <2>6. runs' \in [Dirs -> Run] /\ RunEpochs'
    BY <1>t, <2>1, <2>3, <2>4, <2>5, RunFrame DEF RunEpochs
  <2>7. (IF worktree THEN store.cwd ELSE d) \in Dirs
    BY <1>s DEF Entry
  <2>. QED BY <1>8, <2>1, <2>2, <2>3, <2>6, <2>7
<1>10. ASSUME NEW d \in Dirs, InitRepeats(d) \/ TurnStarts(d) PROVE PointerInv'
  <2>1. /\ runs[d].session # None /\ WriteBack(d, runs[d].session, d)
        /\ UNCHANGED <<made, runs>>
    BY <1>10 DEF InitRepeats, TurnStarts
  <2>2. /\ runs[d] \in Run /\ runs[d].agent \in Agents
    BY <1>t, <2>1 DEF RunEpochs, PointerType, NoRun
  <2>3. RunEpochs' /\ runs[d].session \in Nat
    BY <1>t, <2>1, <2>2 DEF RunEpochs, WriteBack, Epoch, Run
  <2>. QED BY <1>8, <1>t, <2>1, <2>2, <2>3 DEF PointerType
<1>11. ASSUME NEW d \in Dirs, EndRun(d) PROVE PointerInv'
  <2>1. NoRun \in Run /\ ~NoRun.overtaken /\ NoRun.epoch = 0
    BY DEF NoRun, Run
  <2>2. \A a \in Agents : 0 <= Epoch(epochs, a)
    BY <1>t DEF Epoch, PointerType
  <2>3. runs' \in [Dirs -> Run] /\ RunEpochs'
    BY <1>11, <1>t, <2>1, <2>2, RunFrame DEF EndRun
  <2>. QED
    BY <1>11, <1>t, <2>3 DEF EndRun, PointerInv, PointerType, InFlightRunYields, Parked,
                             SwitchBackRestores
<1>12. CASE Restart
  <2>1. NoRun \in Run /\ ~NoRun.overtaken /\ NoRun.epoch = 0
    BY DEF NoRun, Run
  <2>2. lanes' \in [Dirs -> Seq(Waiting)]
    BY <1>12, EmptySeq DEF Restart
  <2>3. PointerType'
    BY <1>12, <1>t, <2>1, <2>2 DEF Restart, PointerType
  <2>4. RunEpochs'
    BY <1>12, <2>1 DEF Restart, RunEpochs, Epoch
  <2>5. Parked'
    BY <1>12, <1>t DEF Restart, Parked, NotAway
  <2>. QED
    BY <1>12, <1>t, <2>3, <2>4, <2>5 DEF Restart, PointerInv, InFlightRunYields, SwitchBackRestores
<1>. QED
  BY <1>0, <1>1, <1>2, <1>3, <1>4, <1>5, <1>6, <1>7, <1>9, <1>10, <1>11, <1>12 DEF PointerNext

LEMMA PointerInvariant == PointerSpec => []PointerInv
BY PointerInvInit, PointerNextInv, PTL DEF PointerSpec

-----------------------------------------------------------------------------

\* Whatever a run tells of its session after a command moved the pointer of its
\* agent is not written: /new, /cd, /resume and a change of agent stand, also
\* across a restart (getSessionEpoch and the write-backs of bridge/index.ts).
THEOREM OvertakenRunsYield == PointerSpec => []InFlightRunYields
BY PointerInvariant, PTL DEF PointerInv

\* Switching the default agent away and back, with nothing done in between,
\* continues the session that was left (propagateConfigSave).
THEOREM SwitchBackContinues == PointerSpec => []SwitchBackRestores
BY PointerInvariant, PTL DEF PointerInv

==============================================================================
