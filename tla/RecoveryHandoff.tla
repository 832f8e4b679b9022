---------------------------- MODULE RecoveryHandoff ----------------------------
(***************************************************************************)
(* The recovery of a conversation whose turn failed, above all by a full   *)
(* context (bridge/recovery-handoff.ts and its calls in bridge/index.ts    *)
(* forwardToClaude): one record on disk for a user, a workspace and an     *)
(* agent; a run is told of it, moved to a fresh session or to its          *)
(* replacement; and the handoff is published to a memory service that may  *)
(* be slow, fail, or lose its answer.  The record may fail to be read or   *)
(* written: that is logged, and the run goes on without it.  The process   *)
(* may end at any point.                                                   *)
(*                                                                         *)
(* What the record says (excerpts, errors, transcripts) is left out.       *)
(***************************************************************************)
EXTENDS Naturals, Sequences, FiniteSets

CONSTANTS
    MaxForks,     \* bound: sessions ever made
    MaxRuns,      \* bound: messages run
    MaxWaiting    \* bound: messages in the lane

ASSUME RecoveryAssumption ==
    MaxForks \in Nat \ {0} /\ MaxRuns \in Nat \ {0} /\ MaxWaiting \in Nat \ {0}

NoSession == 0

VARIABLES
    record,    \* the file: its pending chain, and the session of the checkpoint
    pointer,   \* the session of the store
    sessions,  \* sessions made
    lane,      \* bindings of the messages that wait
    rrun,      \* the run in hand, and the sync that follows it
    ran,       \* runs so far: the number names a run
    service,   \* the memory service: handoffs, each with its marker
    \* History variables
    spilled,   \* the session whose context overflowed in the last run
    unrecorded,\* has that overflow not been written to the record?
    resumed,   \* runs that resumed the session that had overflowed before them
    hampered   \* runs that could not read the record, or for which it lacked that

ghosts == <<spilled, unrecorded, resumed, hampered>>
recoveryVars == <<record, pointer, sessions, lane, rrun, ran, service, ghosts>>

NoPending == [id |-> NoSession, old |-> NoSession, target |-> NoSession, reason |-> "none",
              acknowledged |-> FALSE, memory |-> NoSession, memoryAcknowledged |-> FALSE]

NoRecoveryRun == [phase |-> "idle", from |-> NoSession, original |-> NoSession, session |-> NoSession,
                  recovery |-> NoSession, copy |-> NoPending, how |-> "none"]

RecoveryInit ==
    /\ record = [pending |-> NoPending, checkpoint |-> NoSession]
    /\ pointer \in {NoSession, 1}
    /\ sessions = pointer
    /\ lane = <<>>
    /\ rrun = NoRecoveryRun
    /\ ran = 0
    /\ service = <<>>
    /\ spilled = NoSession
    /\ unrecorded = FALSE
    /\ resumed = {}
    /\ hampered = {}

-----------------------------------------------------------------------------
(* Before the run.                                                         *)

Message ==
    /\ Len(lane) < MaxWaiting
    /\ lane' = Append(lane, pointer)
    /\ UNCHANGED <<record, pointer, sessions, rrun, ran, service, ghosts>>

(* /new: messages that wait keep their binding.                            *)
ForgetSession ==
    /\ pointer # NoSession
    /\ pointer' = NoSession
    /\ UNCHANGED <<record, sessions, lane, rrun, ran, service, ghosts>>

(* Mutant of Prepare: an overflowing session is resumed with advice.       *)
PrepareUnfresh(id) ==
    LET p == record.pending
    IN  IF p.id = NoSession \/ id = NoSession \/ id \notin {p.old, p.target} THEN [recovery |-> NoSession, from |-> id]
        ELSE LET replacement == id = p.old /\ p.target \notin {NoSession, id}
             IN  [recovery |-> p.id, from |-> IF replacement THEN p.target ELSE id]

(* prepare: what a message that continues session id is told, and where it *)
(* runs.  An overflowing session is left for its replacement, or for a     *)
(* fresh one; once the recovery is acknowledged only the move remains.     *)
Prepare(id) ==
    LET p == record.pending
        replacement == id = p.old /\ p.target \notin {NoSession, id}
    IN  IF p.id = NoSession \/ id = NoSession \/ id \notin {p.old, p.target}
           \/ (p.acknowledged /\ ~ replacement)
        THEN [recovery |-> NoSession, from |-> id]
        ELSE [recovery |-> p.id,
              from |-> IF replacement THEN p.target
                       ELSE IF p.reason = "overflow" /\ id = p.old THEN NoSession ELSE id]

(* forwardToClaude up to the run.  A message that is a command of the      *)
(* agent, such as /compact, is not prepared; a preparation that fails is   *)
(* logged, and the run resumes the session it would have resumed.          *)
Begin(command, prepared) ==
    /\ rrun.phase = "idle"
    /\ lane # <<>>
    /\ ran < MaxRuns
    /\ command => ~ prepared
    /\ ran' = ran + 1
    /\ LET id == IF Head(lane) # NoSession THEN Head(lane) ELSE pointer
           way == IF prepared THEN Prepare(id) ELSE [recovery |-> NoSession, from |-> id]
           goesBack == ~ command /\ spilled # NoSession /\ way.from = spilled
       IN  /\ rrun' = [NoRecoveryRun EXCEPT !.phase = "running", !.from = way.from,
                                            !.original = id, !.recovery = way.recovery]
           /\ resumed' = resumed \cup (IF goesBack THEN {ran'} ELSE {})
           /\ hampered' = hampered \cup (IF ~ command /\ (~ prepared \/ unrecorded) THEN {ran'} ELSE {})
    /\ spilled' = NoSession
    /\ unrecorded' = FALSE
    /\ lane' = Tail(lane)
    /\ UNCHANGED <<record, pointer, sessions, service>>

(* bind, at system.init: the session of the run becomes the target.        *)
Bound(id) ==
    IF rrun.recovery # NoSession /\ record.pending.id = rrun.recovery /\ ~ record.pending.acknowledged
    THEN [record EXCEPT !.pending.target = id]
    ELSE record

(* The agent tells its session: the one resumed, or a new one.  A command  *)
(* that moved the pointer meanwhile (/new) leaves the store and the record.*)
(* A bind that fails is logged.                                            *)
Told(moved, bound) ==
    /\ rrun.phase = "running"
    /\ rrun.session = NoSession
    /\ \/ rrun.from # NoSession /\ sessions' = sessions /\ rrun' = [rrun EXCEPT !.session = rrun.from]
       \/ /\ rrun.from = NoSession
          /\ sessions < MaxForks
          /\ sessions' = sessions + 1
          /\ rrun' = [rrun EXCEPT !.session = sessions + 1]
    /\ pointer' = IF moved THEN pointer ELSE rrun'.session
    /\ record' = IF moved \/ ~ bound THEN record ELSE Bound(rrun'.session)
    /\ UNCHANGED <<lane, ran, service, ghosts>>

-----------------------------------------------------------------------------
(* After the run.                                                          *)

(* record, after a failure: the chain goes on if the run was told of it,   *)
(* else a new one begins.  An overflowing replacement becomes the session  *)
(* to leave.                                                               *)
Failed(how, id) ==
    LET p == record.pending
        continuing == p.id # NoSession /\ rrun.recovery = p.id
        reason == IF how = "overflow" \/ (continuing /\ p.reason = "overflow" /\ id = p.old)
                  THEN "overflow" ELSE how
        chain == IF continuing THEN p ELSE [NoPending EXCEPT !.id = ran, !.old = id]
        kept == [chain EXCEPT !.reason = reason, !.acknowledged = FALSE, !.memoryAcknowledged = FALSE]
    IN  IF continuing /\ reason = "overflow" THEN [kept EXCEPT !.old = id, !.target = NoSession] ELSE kept

RunSession == IF rrun.session # NoSession THEN rrun.session ELSE rrun.original

(* runAgentStreamToEnd: the user sees how the run ended.                   *)
RunEnds(how) ==
    /\ rrun.phase = "running"
    /\ rrun' = [rrun EXCEPT !.phase = "ended", !.how = how]
    /\ spilled' = IF how = "overflow" THEN RunSession ELSE NoSession
    /\ unrecorded' = (spilled' # NoSession)
    /\ UNCHANGED <<record, pointer, sessions, lane, ran, service, resumed, hampered>>

(* The run is recorded; a stopped run is not.                              *)
RecordRun ==
    /\ rrun.phase = "ended"
    /\ LET carried == rrun.recovery # NoSession /\ record.pending.id = rrun.recovery
       IN  record' = IF RunSession = NoSession \/ rrun.how = "interrupted" THEN record
                     ELSE IF rrun.how = "done"
                     THEN [checkpoint |-> RunSession,
                           pending |-> [record.pending EXCEPT !.acknowledged = @ \/ carried]]
                     ELSE [record EXCEPT !.pending = Failed(rrun.how, RunSession)]
    /\ unrecorded' = FALSE
    /\ rrun' = [rrun EXCEPT !.phase = "sync"]
    /\ UNCHANGED <<pointer, sessions, lane, ran, service, spilled, resumed, hampered>>

(* The record cannot be read or written: that is logged, nothing is        *)
(* recorded and nothing published.                                         *)
RecordFails ==
    /\ rrun.phase = "ended"
    /\ rrun' = NoRecoveryRun
    /\ UNCHANGED <<record, pointer, sessions, lane, ran, service, ghosts>>

(* The memory service is called, or it is not there: sync ends, and the    *)
(* record stays for the next run.                                          *)
SyncEnds(record1) ==
    /\ record' = record1
    /\ rrun' = NoRecoveryRun

SyncFails ==
    /\ rrun.phase \in {"sync", "begin", "accept"}
    /\ SyncEnds(record)
    /\ UNCHANGED <<pointer, sessions, lane, ran, service, ghosts>>

Marked(id) == {i \in DOMAIN service : service[i].marker = id}

(* Mutant of SyncLists: an earlier publication is not looked for.          *)
SyncListsNot ==
    /\ rrun.phase = "sync"
    /\ LET p == record.pending
       IN  IF p.id = NoSession \/ p.memoryAcknowledged \/ (p.acknowledged /\ p.memory = NoSession)
           THEN SyncEnds(record)
           ELSE /\ rrun' = [rrun EXCEPT !.phase = IF p.memory = NoSession THEN "begin" ELSE "accept", !.copy = p]
                /\ UNCHANGED record
    /\ UNCHANGED <<pointer, sessions, lane, ran, service, ghosts>>

(* sync reads the record; unless the handoff has an id, it asks the        *)
(* service for one published under the marker of this recovery.            *)
SyncLists ==
    /\ rrun.phase = "sync"
    /\ LET p == record.pending
           found == IF p.memory # NoSession THEN p.memory
                    ELSE IF Marked(p.id) # {} THEN CHOOSE i \in Marked(p.id) : TRUE ELSE NoSession
           q == [p EXCEPT !.memory = found]
       IN  IF p.id = NoSession \/ p.memoryAcknowledged THEN SyncEnds(record)
           ELSE IF found = NoSession /\ ~ p.acknowledged
           THEN rrun' = [rrun EXCEPT !.phase = "begin", !.copy = q] /\ UNCHANGED record
           ELSE IF found # NoSession /\ p.acknowledged
           THEN rrun' = [rrun EXCEPT !.phase = "accept", !.copy = q] /\ record' = [record EXCEPT !.pending = q]
           ELSE SyncEnds([record EXCEPT !.pending = q])
    /\ UNCHANGED <<pointer, sessions, lane, ran, service, ghosts>>

(* memory_handoff_begin: the service publishes it; its answer may be lost. *)
SyncBegins(answered) ==
    /\ rrun.phase = "begin"
    /\ service' = Append(service, [marker |-> rrun.copy.id, accepted |-> FALSE])
    /\ SyncEnds(IF answered THEN [record EXCEPT !.pending = [rrun.copy EXCEPT !.memory = Len(service) + 1]]
                ELSE record)
    /\ UNCHANGED <<pointer, sessions, lane, ran, ghosts>>

(* memory_handoff_accept, once a run has acknowledged the recovery.        *)
SyncAccepts(answered) ==
    /\ rrun.phase = "accept"
    /\ service' = [service EXCEPT ![rrun.copy.memory].accepted = TRUE]
    /\ SyncEnds(IF answered THEN [record EXCEPT !.pending = [rrun.copy EXCEPT !.memoryAcknowledged = TRUE]]
                ELSE record)
    /\ UNCHANGED <<pointer, sessions, lane, ran, ghosts>>

(* The process ends and starts again: the lane and the run are gone, the   *)
(* record and the store are on disk.                                       *)
CrashAndRestart ==
    /\ lane' = <<>>
    /\ rrun' = NoRecoveryRun
    /\ UNCHANGED <<record, pointer, sessions, ran, service, ghosts>>

RecoveryNext ==
    \/ Message
    \/ ForgetSession
    \/ \E command, prepared \in BOOLEAN : Begin(command, prepared)
    \/ \E moved, bound \in BOOLEAN : Told(moved, bound)
    \/ \E how \in {"done", "overflow", "error", "idle", "interrupted"} : RunEnds(how)
    \/ RecordRun
    \/ RecordFails
    \/ SyncFails
    \/ SyncLists
    \/ \E answered \in BOOLEAN : SyncBegins(answered) \/ SyncAccepts(answered)
    \/ CrashAndRestart

RecoverySpec == RecoveryInit /\ [][RecoveryNext]_recoveryVars

-----------------------------------------------------------------------------
(* Properties.                                                             *)

(* The run after one whose context overflowed does not resume that session *)
(* unless it is a command of the agent, even across a restart, provided    *)
(* the overflow reached the record and the run could read it: forward-     *)
(* ToClaude goes on without either, and what it cannot record or prepare,  *)
(* a process that ends in between included, is not left.                   *)
OverflowIsLeft == resumed \subseteq hampered

(* One recovery is published once, whatever answers are lost and whenever  *)
(* the process ends.                                                       *)
HandoffPublishedOnce ==
    \A i, j \in DOMAIN service : service[i].marker = service[j].marker => i = j
=============================================================================
