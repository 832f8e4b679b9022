------------------------ MODULE ApprovalCoordinator ------------------------
(***************************************************************************)
(* The approval coordinator of one run (bridge/approval-coordinator.ts):   *)
(* the agent's server asks for approvals and waits, a person answers on    *)
(* the run card, a timer cancels what nobody answers, and the answer is an *)
(* asynchronous call of the runner that may fail or be dropped.  The same  *)
(* request may be asked again at any time, and a click may be delivered    *)
(* more than once.  The idle watchdog of the bridge (bridge/index.ts),     *)
(* which spares a run that waits for a person, is the last resort.         *)
(*                                                                         *)
(* What a decision or an answer says is abstracted: a click is its nonce,  *)
(* a question is answered or not.  togglePerm and updateView change the    *)
(* view of a pending request only, and no state of this model.             *)
(***************************************************************************)
EXTENDS Naturals, Sequences, FiniteSets, Functions

CONSTANTS
    Request,   \* requestIds the server uses in this run
    Asking,    \* those of kind 'question'
    Questions, \* how many questions such a request puts
    MaxNonce,  \* bound: distinct clicks on the buttons of one request
    MaxAsk     \* bound: times requests are asked, in all

ASSUME ApprovalAssumption ==
    /\ Asking \subseteq Request
    /\ Questions \in Nat \ {0}
    /\ {MaxNonce, MaxAsk} \subseteq Nat

Nonce == 1 .. MaxNonce
Cancel == 0  \* in sent: the cancel of an expired request, not a click

VARIABLES
    state,     \* [Request -> "untracked" or the ApprovalState]
    timer,     \* [Request -> is timeoutTimer armed?]
    seen,      \* [Request -> submittedNonces]
    answered,  \* [Request -> how many questions tracked.answers answers]
    calls,     \* calls of the responder in flight: <<request, index in sent>>
    card,      \* [Request -> how the run card shows it: "none", "live", "expired"]
    turn,      \* "running", "interrupted" (runner.stop called), "finished"
               \* (the session finished, the runner told to stop), "over"
    awaiting,  \* the requests the server waits for
    \* History variables
    asked,     \* [Request -> times it was asked]
    sent       \* [Request -> what the responder was called with: Cancel or the click]

coordinatorVars == <<state, timer, seen, answered, calls>>
vars == <<coordinatorVars, card, turn, awaiting, asked, sent>>

Init ==
    /\ state = [r \in Request |-> "untracked"]
    /\ timer = [r \in Request |-> FALSE]
    /\ seen = [r \in Request |-> {}]
    /\ answered = [r \in Request |-> 0]
    /\ calls = {}
    /\ card = [r \in Request |-> "none"]
    /\ turn = "running"
    /\ awaiting = {}
    /\ asked = [r \in Request |-> 0]
    /\ sent = [r \in Request |-> <<>>]

(* pushToCard: the run state reduces the event at once, and ignores it     *)
(* when it is already terminal.                                            *)
CardShows(r, how) ==
    card' = IF turn \in {"finished", "over"} THEN card ELSE [card EXCEPT ![r] = how]

ClearTimer(r) == timer' = [timer EXCEPT ![r] = FALSE]

(* The responder is called; its promise settles in CallReturns.            *)
Respond(r, by) ==
    /\ sent' = [sent EXCEPT ![r] = Append(@, by)]
    /\ calls' = calls \cup {<<r, Len(sent[r]) + 1>>}

-----------------------------------------------------------------------------
(* Events of the agent's stream.                                           *)

(* Mutant of OnRequested: only a new request gets a timer.                 *)
OnRequestedKeepsTimer(r) ==
    /\ state' = [state EXCEPT ![r] = "pending"]
    /\ timer' = IF state[r] = "untracked" THEN [timer EXCEPT ![r] = TRUE] ELSE timer

(* onRequested: a request asked again is pending again, with a new timer;  *)
(* its answers and the nonces seen are kept.                               *)
OnRequested(r) ==
    /\ state' = [state EXCEPT ![r] = "pending"]
    /\ timer' = [timer EXCEPT ![r] = TRUE]

(* The server asks and waits; the stream's event reaches the coordinator   *)
(* and the card in one step.                                               *)
Ask(r) ==
    /\ turn # "over"
    /\ FoldFunction(+, 0, asked) < MaxAsk
    /\ OnRequested(r)
    /\ CardShows(r, "live")
    /\ awaiting' = awaiting \cup {r}
    /\ asked' = [asked EXCEPT ![r] = @ + 1]
    /\ UNCHANGED <<seen, answered, calls, turn, sent>>

(* approval_resolved: the server no longer waits (it has the answer, or    *)
(* withdrew the request).                                                  *)
ServerResolves(r) ==
    /\ turn # "over"
    /\ state[r] # "untracked"
    /\ state' = [state EXCEPT ![r] = "resolved"]
    /\ ClearTimer(r)
    /\ CardShows(r, "none")
    /\ awaiting' = awaiting \ {r}
    /\ UNCHANGED <<seen, answered, calls, turn, asked, sent>>

-----------------------------------------------------------------------------
(* Clicks.  withCoordinator refuses them once the turn is over.  A click   *)
(* may be delivered again: nothing here takes it away.                     *)

(* assertFreshNonce                                                        *)
Fresh(r, n) ==
    /\ n \notin seen[r]
    /\ seen' = [seen EXCEPT ![r] = @ \cup {n}]

(* Mutant of BeginSubmit: the state and the timer change after the await.  *)
BeginSubmitLate(r, n) ==
    /\ UNCHANGED <<state, timer>>
    /\ Respond(r, n)

(* pending -> submitting, the timer cleared, the responder called          *)
BeginSubmit(r, n) ==
    /\ state' = [state EXCEPT ![r] = "submitting"]
    /\ ClearTimer(r)
    /\ Respond(r, n)

(* submit: a decision the request offers.                                  *)
Submit(r, n) ==
    /\ turn # "over"
    /\ state[r] = "pending"
    /\ Fresh(r, n)
    /\ BeginSubmit(r, n)
    /\ UNCHANGED <<answered, card, turn, awaiting, asked>>

(* submit, refused: the request is tracked but no longer pending, or the   *)
(* decision is not offered, or its feedback is missing.  The nonce is      *)
(* spent all the same.  planFeedback, answerNote and a multi-select toggle *)
(* of a pending request change the view and spend the nonce in the same    *)
(* way.                                                                    *)
ClickSpent(r, n) ==
    /\ turn # "over"
    /\ state[r] # "untracked"
    /\ Fresh(r, n)
    /\ UNCHANGED <<state, timer, answered, calls, card, turn, awaiting, asked, sent>>

(* toggleAnswer (single choice), answerCustom, submitAnswers, when another *)
(* question is still open: the nonce is not spent.  To answer a question   *)
(* again changes nothing here.                                             *)
AnswerOne(r) ==
    /\ turn # "over"
    /\ r \in Asking
    /\ state[r] = "pending"
    /\ answered[r] + 1 < Questions
    /\ answered' = [answered EXCEPT ![r] = @ + 1]
    /\ UNCHANGED <<state, timer, seen, calls, card, turn, awaiting, asked, sent>>

(* The same, when every question has an answer: respondQuestionAnswers.    *)
(* The answer is recorded even when the nonce is refused.                  *)
AnswerLast(r, n) ==
    /\ turn # "over"
    /\ r \in Asking
    /\ state[r] = "pending"
    /\ answered[r] + 1 >= Questions
    /\ answered' = [answered EXCEPT ![r] = Questions]
    /\ \/ Fresh(r, n) /\ BeginSubmit(r, n)
       \/ n \in seen[r] /\ UNCHANGED <<state, timer, seen, calls, sent>>
    /\ UNCHANGED <<card, turn, awaiting, asked>>

-----------------------------------------------------------------------------
(* The timer of a request, and the calls of the responder.                 *)

(* expireApproval: the server is sent a cancel, the card told.             *)
Expire(r) ==
    IF state[r] = "pending"
    THEN /\ state' = [state EXCEPT ![r] = "expired"]
         /\ Respond(r, Cancel)
         /\ CardShows(r, "expired")
    ELSE UNCHANGED <<state, calls, sent, card>>

TimerFires(r) ==
    /\ timer[r]
    /\ ClearTimer(r)
    /\ Expire(r)
    /\ UNCHANGED <<seen, answered, turn, awaiting, asked>>

(* The runner's respondApproval returns: the answer reached the server, or *)
(* was silently dropped (no connection, or a request the runner no longer  *)
(* knows).  A click's request is resolved and leaves the card.             *)
CallReturns(r, i) ==
    /\ <<r, i>> \in calls
    /\ calls' = calls \ {<<r, i>>}
    /\ IF sent[r][i] = Cancel
       THEN UNCHANGED <<state, card>>
       ELSE /\ state' = [state EXCEPT ![r] = "resolved"]
            /\ CardShows(r, "none")
    /\ awaiting' \in {awaiting, awaiting \ {r}}
    /\ UNCHANGED <<timer, seen, answered, turn, asked, sent>>

(* respondApproval throws: the request has failed.  When it was the cancel *)
(* of an expiry, interruptTurn stops the runner.                           *)
CallFails(r, i) ==
    /\ <<r, i>> \in calls
    /\ calls' = calls \ {<<r, i>>}
    /\ state' = [state EXCEPT ![r] = "failed"]
    /\ turn' = IF sent[r][i] = Cancel /\ turn = "running" THEN "interrupted" ELSE turn
    /\ UNCHANGED <<timer, seen, answered, card, awaiting, asked, sent>>

-----------------------------------------------------------------------------
(* The run.                                                                *)

pendingCount == Cardinality({r \in Request : state[r] = "pending"})

(* Mutant of WatchdogSpares: a failed request counts as pending.           *)
SparesFailures == pendingCount > 0 \/ \E r \in Request : state[r] = "failed"

(* A run is spared while somebody is being asked, however silent it is.    *)
WatchdogSpares == pendingCount > 0

(* The watchdog, or a person's /stop, finishes the session and stops the   *)
(* runner.  A server that waits for an approval is silent.                 *)
FinishAndStop ==
    /\ turn \in {"running", "interrupted"}
    /\ turn' = "finished"
    /\ UNCHANGED <<coordinatorVars, card, awaiting, asked, sent>>

WatchdogStops == ~ WatchdogSpares /\ FinishAndStop

StopClicked == FinishAndStop

(* onTurnEnded: what is pending expires, its timer is cleared.             *)
OnTurnEnded ==
    /\ state' = [r \in Request |-> IF state[r] = "pending" THEN "expired" ELSE state[r]]
    /\ timer' = [r \in Request |-> timer[r] /\ state[r] # "pending"]

(* The stream ends (the turn completed, the agent died, or it was          *)
(* stopped); the session finishes and the coordinator is released.         *)
StreamEnds ==
    /\ turn # "over"
    /\ turn' = "over"
    /\ OnTurnEnded
    /\ awaiting' = {}
    /\ UNCHANGED <<seen, answered, calls, card, asked, sent>>

-----------------------------------------------------------------------------
(* Clicks are numbered in the order their nonces are first seen.           *)
Clicks(r) == {n \in Nonce : n <= Cardinality(seen[r]) + 1}

Click(r) ==
    \/ \E n \in Clicks(r) : Submit(r, n) \/ ClickSpent(r, n) \/ AnswerLast(r, n)
    \/ AnswerOne(r)

CallEnds(r) == \E i \in 1 .. Len(sent[r]) : CallReturns(r, i) \/ CallFails(r, i)

Next ==
    \/ \E r \in Request :
        Ask(r) \/ ServerResolves(r) \/ Click(r) \/ TimerFires(r) \/ CallEnds(r)
    \/ WatchdogStops
    \/ StopClicked
    \/ StreamEnds

Spec == Init /\ [][Next]_vars

(* Timers fire, calls settle, the watchdog ticks (idle.watchdogMinutes is  *)
(* 15 by default, 0 switches it off), and a runner that was stopped ends   *)
(* its stream.  Nobody has to click, and the server need not do anything.  *)
FairSpec ==
    /\ Spec
    /\ \A r \in Request : WF_vars(TimerFires(r)) /\ WF_vars(CallEnds(r))
    /\ WF_vars(awaiting # {} /\ WatchdogStops)
    /\ WF_vars(turn \in {"interrupted", "finished"} /\ StreamEnds)

-----------------------------------------------------------------------------
(* The runner is given at most one response for each time a request is     *)
(* asked, whatever clicks, second clicks and timers do: a click and the    *)
(* expiry never both answer.                                               *)
OneResponsePerAsk == \A r \in Request : Len(sent[r]) <= asked[r]

(* A click counts once, even when it is delivered again after the same     *)
(* request has been asked anew: it does not answer the new request.        *)
ClickCountsOnce ==
    \A r \in Request : \A i, j \in 1 .. Len(sent[r]) :
        sent[r][i] = sent[r][j] /\ sent[r][i] # Cancel => i = j

(* Every request is answered once, by what was meant for it.               *)
OneAnswerEach == OneResponsePerAsk /\ ClickCountsOnce

(* A request that is pending is being timed and the turn is not over: it   *)
(* cannot wait for ever ("审批超时自动 cancel").                             *)
PendingIsTimed ==
    \A r \in Request : state[r] = "pending" => timer[r] /\ turn # "over"

(* While the run card is live it tells the state of every request: pending *)
(* ones have their buttons, resolved and expired ones have not.            *)
CardTellsTheState ==
    turn \in {"running", "interrupted"} =>
        \A r \in Request :
            /\ state[r] = "pending" => card[r] = "live"
            /\ state[r] = "resolved" => card[r] = "none"
            /\ state[r] = "expired" => card[r] = "expired"

(* Every request that waits can be answered and is being timed, also one   *)
(* that is asked again after an expiry or a failure.                       *)
RequestsAreTended == PendingIsTimed /\ CardTellsTheState

(* The server does not wait for ever: it is answered, it withdraws, or the *)
(* turn ends.                                                              *)
ServerIsReleased == \A r \in Request : r \in awaiting ~> r \notin awaiting
=============================================================================
