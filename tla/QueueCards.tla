------------------------------ MODULE QueueCards ------------------------------
(***************************************************************************)
(* The status cards of queued tasks and the handlers behind their buttons: *)
(* cancel, edit and "run now" (router/index.ts), on top of the serial      *)
(* queue.  A card is sent when its task is queued and patched when the     *)
(* task begins, is cancelled, or is promised to run next.  Every patch     *)
(* first awaits the send, and patches of one card that are on their way at *)
(* one time are applied in any order.  "Run now" awaits the stop of the    *)
(* current run and only then looks at the queue again.                     *)
(*                                                                         *)
(* The run of a task is reduced to what the handlers read: whether it      *)
(* lives, and whether it is the active run of its workspace (BridgeRuns).  *)
(***************************************************************************)
EXTENDS QueueManager

CONSTANTS
    MaxHandler,   \* bound: stops in flight at one time
    MayFail,      \* may a send or a patch of a card fail?
    Overlap       \* may two patches of one card be on their way at one time?

ASSUME CardsAssumption ==
    MaxHandler \in Nat /\ MayFail \in BOOLEAN /\ Overlap \in BOOLEAN

VARIABLES
    run,               \* [Slot -> progress of the run of the task]
    activeRun,         \* [Workspace -> Slot or NoSlot]: Bridge.activeRuns
    handlers,          \* interrupts in flight, with the target of "run now"
    cardSend,          \* [Message -> state of the promise of the send]
    queueCardMessages, \* messages that are mapped to that promise
    updates,           \* patches on their way
    cardShown,         \* [Message -> what the user sees on the card]
    \* History variables
    marked,            \* tasks answered "your message runs now"
    blurred            \* cards with an edit form on them, or with a lost patch

runVars == <<run, activeRun>>
cardVars == <<cardSend, queueCardMessages, updates, cardShown, marked, blurred>>
vars == <<queueVars, runVars, handlers, cardVars>>

Handler == [cwd : Workspace, target : Message \cup {NoMessage},
            run : Slot \cup {NoSlot}, slot : Slot \cup {NoSlot},
            step : {"stopping", "stopped"}]
Update == [msg : Message, as : {"executing", "cancelled", "editing", "queued"},
           started : BOOLEAN, step : {"awaiting", "patching"}]

CardsInit ==
    /\ QueueInit
    /\ run = [s \in Slot |-> "none"]
    /\ activeRun = [w \in Workspace |-> NoSlot]
    /\ handlers = {}
    /\ cardSend = [m \in Message |-> "none"]
    /\ queueCardMessages = {}
    /\ updates = {}
    /\ cardShown = [m \in Message |-> "none"]
    /\ marked = {}
    /\ blurred = {}

-----------------------------------------------------------------------------
(* Sending and patching cards                                              *)

\* updateQueueCardToExecuting / updateQueueCardToCancelled up to their await:
\* the promise is read from the mapping now, a task without one has no card.
Called(M, as, started) ==
    {[msg |-> m, as |-> as, started |-> started, step |-> "awaiting"] :
        m \in M \cap queueCardMessages}

\* sendQueueStatusCard registers the promise before it awaits it.
SendQueueStatusCard(m) ==
    /\ cardSend' = [cardSend EXCEPT ![m] = "sending"]
    /\ queueCardMessages' = queueCardMessages \cup {m}

CardSent(m) ==
    /\ cardSend[m] = "sending"
    /\ cardSend' = [cardSend EXCEPT ![m] = "sent"]
    /\ cardShown' = [cardShown EXCEPT ![m] = "queued"]
    /\ UNCHANGED <<queueVars, runVars, handlers, queueCardMessages, updates,
                   marked, blurred>>

\* The promise resolves undefined: the mapping goes, whoever awaits it returns.
SendFailed(m) ==
    /\ MayFail
    /\ cardSend[m] = "sending"
    /\ cardSend' = [cardSend EXCEPT ![m] = "failed"]
    /\ queueCardMessages' = queueCardMessages \ {m}
    /\ updates' = {u \in updates : u.msg # m}
    /\ UNCHANGED <<queueVars, runVars, handlers, cardShown, marked, blurred>>

MayPatch(m) == Overlap \/ \A u \in updates : u.msg = m => u.step = "awaiting"

StillQueued(m) == \E w \in Workspace : taskIndex[w][m] # NoSlot

\* The guard of updateQueueCardToExecuting after its await.
MaySayExecuting(u) == u.as = "executing" => u.started \/ StillQueued(u.msg)

\* The send has resolved: patch the card, or leave it and drop the mapping.
UpdateResumes(u) ==
    /\ u.step = "awaiting"
    /\ cardSend[u.msg] = "sent"
    /\ MayPatch(u.msg)
    /\ IF MaySayExecuting(u)
       THEN /\ updates' = (updates \ {u}) \cup {[u EXCEPT !.step = "patching"]}
            /\ UNCHANGED queueCardMessages
       ELSE /\ updates' = updates \ {u}
            /\ queueCardMessages' = queueCardMessages \ {u.msg}
    /\ UNCHANGED <<queueVars, runVars, handlers, cardSend, cardShown, marked, blurred>>

\* Mutant of UpdateEnds: the mapping is never dropped.
UpdateEndsMapped(u) == updates' = updates \ {u} /\ UNCHANGED queueCardMessages

\* The finally of both functions; the edit form does not touch the mapping.
UpdateEnds(u) ==
    /\ updates' = updates \ {u}
    /\ queueCardMessages' =
         IF u.as \in {"executing", "cancelled"} THEN queueCardMessages \ {u.msg}
         ELSE queueCardMessages

PatchLands(u) ==
    /\ u.step = "patching"
    /\ cardShown' = [cardShown EXCEPT ![u.msg] = u.as]
    /\ UpdateEnds(u)
    /\ UNCHANGED <<queueVars, runVars, handlers, cardSend, marked, blurred>>

PatchFails(u) ==
    /\ MayFail
    /\ u.step = "patching"
    /\ blurred' = blurred \cup {u.msg}
    /\ UpdateEnds(u)
    /\ UNCHANGED <<queueVars, runVars, handlers, cardSend, cardShown, marked>>

-----------------------------------------------------------------------------
(* The queue, with the cards its steps send and patch                      *)

EnqueueWithCard(w, m) ==
    /\ Enqueue(w, m)
    /\ IF HasWaitingTasks(w) THEN SendQueueStatusCard(m)
       ELSE UNCHANGED <<cardSend, queueCardMessages>>
    /\ UNCHANGED <<runVars, handlers, updates, cardShown, marked, blurred>>

\* Mutant of BeginWithCard: the begin path leaves `started` at its default.
BeginUnconfirmed(w, s) ==
    /\ BeginTask(w, s)
    /\ updates' = updates \cup Called({taskMsg[s]}, "executing", FALSE)
    /\ run' = [run EXCEPT ![s] = "live"]
    /\ activeRun' = [activeRun EXCEPT ![w] = s]
    /\ UNCHANGED <<handlers, cardSend, queueCardMessages, cardShown, marked, blurred>>

\* The card of a task that begins says so; its run registers in the same turn.
BeginWithCard(w, s) ==
    /\ BeginTask(w, s)
    /\ updates' = updates \cup Called({taskMsg[s]}, "executing", TRUE)
    /\ run' = [run EXCEPT ![s] = "live"]
    /\ activeRun' = [activeRun EXCEPT ![w] = s]
    /\ UNCHANGED <<handlers, cardSend, queueCardMessages, cardShown, marked, blurred>>

\* The stream of the run ends, by itself or because its runner was stopped.
RunEnds(s) ==
    /\ run[s] = "live"
    /\ run' = [run EXCEPT ![s] = "ended"]
    /\ UNCHANGED <<queueVars, activeRun, handlers, cardVars>>

\* finalizeRun: only the entry of this run is deleted.
RunFinalized(w, s) ==
    /\ s \in chain[w]
    /\ run[s] = "ended"
    /\ run' = [run EXCEPT ![s] = "over"]
    /\ activeRun' = [activeRun EXCEPT ![w] = IF @ = s THEN NoSlot ELSE @]
    /\ UNCHANGED <<queueVars, handlers, cardVars>>

SettleAfterBody(w, s) ==
    /\ Settle(w, s)
    /\ phase[w] = "running" => run[s] = "over"
    /\ UNCHANGED <<runVars, handlers, cardVars>>

-----------------------------------------------------------------------------
(* The buttons                                                             *)

\* The buttons are there while the card shows a queued task; whatever the code
\* has decided since, the patch that disables them may still be on its way.
Clickable(m) == cardShown[m] = "queued"

\* handleQueueCancel
QueueCancel(w, m) ==
    /\ Clickable(m)
    /\ RemoveFromQueue(w, m)
    /\ updates' = updates \cup Called({m}, "cancelled", FALSE)
    /\ UNCHANGED <<runVars, handlers, cardSend, queueCardMessages, cardShown,
                   marked, blurred>>

ShowOnCard(m, as) ==
    /\ MayPatch(m)
    /\ updates' = updates \cup
         {[msg |-> m, as |-> as, started |-> FALSE, step |-> "patching"]}
    /\ blurred' = blurred \cup {m}

\* handleQueueEdit: the card becomes an edit form.
QueueEdit(w, m) ==
    /\ Clickable(m)
    /\ taskIndex[w][m] # NoSlot
    /\ edited[taskIndex[w][m]] < MaxEdit
    /\ ShowOnCard(m, "editing")
    /\ UNCHANGED <<queueVars, runVars, handlers, cardSend, queueCardMessages,
                   cardShown, marked>>

\* handleQueueInput: the text changes and the answer redraws the queued card.
QueueInput(w, m) ==
    /\ cardShown[m] = "editing"
    /\ EditQueuedTask(w, m)
    /\ ShowOnCard(m, "queued")
    /\ UNCHANGED <<runVars, handlers, cardSend, queueCardMessages, cardShown, marked>>

\* interruptCurrentRun up to its await, on behalf of "run now" or of /stop.
Interrupt(w, target) ==
    /\ Cardinality(handlers) < MaxHandler
    /\ handlers' = handlers \cup
         {[cwd |-> w, target |-> target, run |-> activeRun[w],
           slot |-> IF activeRun[w] = NoSlot THEN NoSlot ELSE executingSlot[w],
           step |-> "stopping"]}

Stop(w) ==
    /\ activeRun[w] # NoSlot
    /\ Interrupt(w, NoMessage)
    /\ UNCHANGED <<queueVars, runVars, cardVars>>

\* The text of an edited task replaces its closure before anything is awaited.
RefreshClosure(w, m) ==
    LET s == taskIndex[w][m] IN
    IF s # NoSlot /\ edited[s] # 0 THEN edited[s] ELSE taskReplacements[w][m]

\* handleQueueImmediate up to its await
QueueImmediate(w, m) ==
    /\ Clickable(m)
    /\ taskIndex[w][m] # NoSlot
    /\ taskReplacements' = [taskReplacements EXCEPT ![w][m] = RefreshClosure(w, m)]
    /\ Interrupt(w, m)
    /\ UNCHANGED <<taskVars, chainVars, listVars, edited, countVars, runVars, cardVars>>

\* Mutant of InterruptReturns: deletes the entry of whatever runs by now.
InterruptReturnsUnchecked(h) ==
    /\ h.step = "stopping"
    /\ handlers' = (handlers \ {h}) \cup
         (IF h.target = NoMessage THEN {} ELSE {[h EXCEPT !.step = "stopped"]})
    /\ activeRun' = [activeRun EXCEPT ![h.cwd] = NoSlot]
    /\ IF h.slot # NoSlot THEN ResetExecutingCount(h.cwd, h.slot)
       ELSE UNCHANGED queueVars
    /\ UNCHANGED <<run, cardVars>>

\* The stop has returned, perhaps before the stream of the run has ended: what
\* interruptCurrentRun still does, and its answer.
InterruptReturns(h) ==
    /\ h.step = "stopping"
    /\ handlers' = (handlers \ {h}) \cup
         (IF h.target = NoMessage THEN {} ELSE {[h EXCEPT !.step = "stopped"]})
    /\ activeRun' = [activeRun EXCEPT
         ![h.cwd] = IF h.run # NoSlot /\ @ = h.run THEN NoSlot ELSE @]
    /\ IF h.slot # NoSlot THEN ResetExecutingCount(h.cwd, h.slot)
       ELSE UNCHANGED queueVars
    /\ UNCHANGED <<run, cardVars>>

\* The tasks before the target, or none when the target has left the list.
TasksAhead(w, target) == {s \in queuedTasks[w] : target # NoSlot /\ s < target}

\* The rest of handleQueueImmediate.  All tasks ahead leave before the next
\* await; the target is marked unless a task ahead of it has begun meanwhile.
ImmediateResumes(h) ==
    LET w == h.cwd
        target == taskIndex[w][h.target]
        ahead == TasksAhead(w, target)
        gone == {taskMsg[s] : s \in ahead}
        next == IF target # NoSlot /\ activeRun[w] = NoSlot THEN {h.target} ELSE {}
    IN
    /\ h.step = "stopped"
    /\ handlers' = handlers \ {h}
    /\ removed' = removed \cup ahead
    /\ queuedTasks' = [queuedTasks EXCEPT ![w] = @ \ ahead]
    /\ taskIndex' = [taskIndex EXCEPT
         ![w] = [m \in Message |-> IF m \in gone THEN NoSlot ELSE @[m]]]
    /\ taskReplacements' = [taskReplacements EXCEPT
         ![w] = [m \in Message |-> IF m \in gone THEN 0
                                   ELSE IF m = h.target THEN RefreshClosure(w, m)
                                   ELSE @[m]]]
    /\ updates' = updates \cup Called(gone, "cancelled", FALSE)
                          \cup Called(next, "executing", FALSE)
    /\ marked' = marked \cup next
    /\ UNCHANGED <<taskVars, chainVars, edited, countVars, runVars, cardSend,
                   queueCardMessages, cardShown, blurred>>

-----------------------------------------------------------------------------
CardsNext ==
    \/ \E w \in Workspace :
         \/ Stop(w)
         \/ \E m \in Message :
              \/ EnqueueWithCard(w, m)
              \/ QueueCancel(w, m) \/ QueueEdit(w, m) \/ QueueInput(w, m)
              \/ QueueImmediate(w, m)
         \/ \E s \in Slot :
              \/ BeginWithCard(w, s) \/ RunFinalized(w, s) \/ SettleAfterBody(w, s)
              \/ SkipTask(w, s) /\ UNCHANGED <<runVars, handlers, cardVars>>
    \/ \E s \in Slot : RunEnds(s)
    \/ \E m \in Message : CardSent(m) \/ SendFailed(m)
    \/ \E u \in updates : UpdateResumes(u) \/ PatchLands(u) \/ PatchFails(u)
    \/ \E h \in handlers : InterruptReturns(h) \/ ImmediateResumes(h)

CardsSpec == CardsInit /\ [][CardsNext]_vars

-----------------------------------------------------------------------------
(* Properties                                                              *)

\* The card of m has arrived, and no patch of it is on its way or was lost.
CardAtRest(m) ==
    /\ cardSend[m] = "sent"
    /\ m \notin blurred
    /\ \A u \in updates : u.msg # m

SlotOf(m) == {s \in Slot : taskMsg[s] = m}

\* The card of a task that ran says so, and that of a cancelled one says
\* "cancelled", whichever of its patches overtook the other; a task that was
\* promised to run and then cancelled is excepted (CancelledCardStays).
CardTellsFate ==
    \A m \in Message : CardAtRest(m) => \A s \in SlotOf(m) :
       /\ HasBegun(s) => cardShown[m] = "executing"
       /\ s \in removed /\ m \notin marked => cardShown[m] = "cancelled"

\* A task that was answered "your message runs now" and still waits is the
\* first of its lane, and nothing lives in the lane but a run that was stopped:
\* interruptCurrentRun does not wait for the stream of that run to end.
PromisedTaskIsNext ==
    \A w \in Workspace : \A s \in queuedTasks[w] : taskMsg[s] \in marked =>
       /\ \A t \in queuedTasks[w] : s <= t
       /\ \A t \in chain[w] : run[t] = "live" => t \in stopped

\* A card is only mapped while its task waits or a patch is on its way: the
\* mapping does not grow with the tasks that are done, failed sends included.
NoCardForgotten ==
    \A m \in queueCardMessages :
       \/ StillQueued(m)
       \/ \E u \in updates : u.msg = m /\ u.as \in {"executing", "cancelled"}

=============================================================================
