------------------------------- MODULE AgentTurn -------------------------------
(***************************************************************************)
(* The turns of a workspace-lifetime runner (runner/common/connection-     *)
(* based-runner.ts, common/acp/base-acp-runner.ts and the codex, kimi,     *)
(* opencode and pi runners) over its connections (AgentConnection): the    *)
(* setup with its retry after a lost connection, the event queue, a stop,  *)
(* the idle watchdog, and the bridge's eviction of the runner.             *)
(*                                                                         *)
(* Of the events only the results are kept, named by the attempt that they *)
(* belong to: a result is what ends a turn.  The consumer of the generator *)
(* is the bridge's event loop, which always asks for the next event.       *)
(***************************************************************************)
EXTENDS AgentConnection, Sequences, SequencesExt

VARIABLES
    run,       \* the runner: its fields, and where its generator stands
    queue,     \* notificationQueue: the results in it
    attempt,   \* setups begun
    stops,     \* attempts whose stop() awaits the answer to its cancel
    last       \* history: how the last turn ended, until the next begins

turnVars == <<kind, connVars, run, queue, attempt, stops, last>>

Acp == {"kimi", "opencode"}

FreshRunner(next) ==
    [first |-> next,      \* the first attempt of this runner object
     running |-> FALSE, phase |-> "idle",
     waits |-> "no",      \* the awaited call: "no", "waiting", or settled "ok", "error", "lost"
     then |-> "consume",  \* what follows an awaited cancel
     at |-> None, turnFirst |-> None,
     stop |-> FALSE,      \* stopRequested
     force |-> None,      \* forceFinish, as the attempt whose stop set it
     client |-> None, session |-> FALSE, turnId |-> FALSE,
     sent |-> FALSE, settled |-> FALSE, evicted |-> FALSE,
     cancelled |-> FALSE]  \* history: a cancel was sent for the turn

NoEnd == [how |-> "none", of |-> "none", reached |-> TRUE]

TurnInit ==
    /\ ConnInit
    /\ run = FreshRunner(1)
    /\ queue = <<>>
    /\ attempt = 0
    /\ stops = {}
    /\ last = NoEnd

(* A response, a timer or a close may come between a settled promise and   *)
(* the code that awaits it only within one chunk of the pipe.              *)
Quiet == run.waits \in {"no", "waiting"}

-----------------------------------------------------------------------------
(* What settled requests wake.                                             *)

Own(a) == a >= run.first   \* the attempt belongs to this runner object

(* The generator that awaits one of them, and the flag of the prompt.      *)
Woken(reqs, o) ==
    LET awaited == [at |-> run.at, what |-> run.phase]
        prompted == \E r \in reqs : r.what = "prompt" /\ kind \in Acp /\ Own(r.at)
        stopped == {a \in stops : Own(a) /\ [at |-> a, what |-> "cancel"] \in reqs}
    IN  [run EXCEPT !.waits = IF @ = "waiting" /\ awaited \in reqs THEN o ELSE @,
                    !.settled = @ \/ prompted,
                    !.force = IF stopped # {} THEN CHOOSE a \in stopped : TRUE ELSE @]

StillStopping(reqs) == {a \in stops : [at |-> a, what |-> "cancel"] \notin reqs}

(* handlePromptResolved and handlePromptRejected: the response of an ACP   *)
(* prompt is the turn's result, unless the runner is being stopped.        *)
PromptResults(reqs) ==
    IF run.stop THEN <<>>
    ELSE SetToSeq({r.at : r \in {q \in reqs : q.what = "prompt" /\ kind \in Acp /\ Own(q.at)}})

(* Mutant of HearsClose: failPending is not called.                        *)
HearsCloseUnsettled(c) ==
    LET news == ~ conn[c].closed
        hook == conn[c].hooks
        failTurn == IF news /\ hook # None /\ Own(hook) THEN <<hook>> ELSE <<>>
    IN  /\ run' = run
        /\ stops' = stops
        /\ queue' = queue \o failTurn
        /\ slot' = IF news THEN SlotAfterClose(c) ELSE slot

(* The client's onClose: every promise is rejected, the manager clears its *)
(* slot, and the hooks of the run fail the turn.                           *)
HearsClose(c) ==
    LET news == ~ conn[c].closed
        hook == conn[c].hooks
        failTurn == IF news /\ hook # None /\ Own(hook) THEN <<hook>> ELSE <<>>
    IN  /\ run' = Woken(conn[c].pending, "lost")
        /\ stops' = StillStopping(conn[c].pending)
        /\ queue' = queue \o failTurn \o PromptResults(conn[c].pending)
        /\ slot' = IF news THEN SlotAfterClose(c) ELSE slot

(* The promises that a dispose rejects; its hooks are gone by then.        *)
HearsDispose ==
    LET lost == IF slot.client = None THEN {} ELSE conn[slot.client].pending
    IN  /\ stops' = StillStopping(lost)
        /\ queue' = queue \o PromptResults(lost)
        /\ conn' = SlotDisposed
        /\ slot' = NoSlot
        /\ disowned' = disowned \cup ({slot.creating} \ {None})

-----------------------------------------------------------------------------
(* The setup of a turn.                                                    *)

(* run(): one turn at a time.  The queue of the turn before is dropped.    *)
StartTurn ==
    /\ ~ run.running
    /\ attempt + 1 < MaxAttempts  \* one is left for its retry
    /\ attempt' = attempt + 1
    /\ run' = [run EXCEPT !.running = TRUE, !.phase = "acquire", !.at = attempt + 1,
                          !.turnFirst = attempt + 1, !.force = None]
    /\ queue' = <<>>
    /\ last' = NoEnd
    /\ UNCHANGED <<kind, connVars, stops>>

(* The connection is there: the idle timer is disarmed, the run's hooks    *)
(* are set and the session is asked for (session/new or resume,            *)
(* thread/start or resume, get_state).                                     *)
Acquired(c) ==
    LET r == [at |-> run.at, what |-> "session"]
    IN  /\ conn' = [conn EXCEPT ![c] = Asked([@ EXCEPT !.hooks = run.at], r)]
        /\ slot' = [Cached(c) EXCEPT !.timer = FALSE]
        /\ run' = [run EXCEPT !.phase = "session", !.client = c,
                              !.waits = IF conn[c].closed THEN "lost" ELSE "waiting"]

(* acquire: reuse the connection of the slot, or replace it.  A spawn that *)
(* fails is a lost connection.                                             *)
Acquire ==
    /\ run.phase = "acquire"
    /\ \E sameSession \in BOOLEAN :
         \/ /\ Reusable(sameSession)
            /\ Acquired(slot.client)
         \/ /\ ~ Reusable(sameSession)
            /\ \E new \in Conns, ok \in BOOLEAN :
                 /\ conn[new] = Unborn
                 /\ \A c \in Conns : conn[c] = Unborn => new <= c
                 /\ conn' = Replaced(slot.client, new, run.at, ok)
                 /\ slot' = [NoSlot EXCEPT !.creating = new]
                 /\ run' = [run EXCEPT !.phase = "connect",
                                       !.waits = CASE ~ ok -> "lost"
                                                   [] ok /\ kind = "pi" -> "ok"
                                                   [] OTHER -> "waiting"]
    /\ UNCHANGED <<kind, disowned, queue, attempt, stops, last>>

(* The connection a creation in hand is making: the last one spawned.      *)
Made == CHOOSE c \in Conns : conn[c] # Unborn /\ \A d \in Conns : d > c => conn[d] = Unborn

(* acquire resumes after connect(), and setupTurn with it.                 *)
Connected ==
    /\ run.phase = "connect"
    /\ run.waits = "ok"
    /\ Acquired(Made)
    /\ UNCHANGED <<kind, disowned, queue, attempt, stops, last>>

(* Writing the prompt: its request is open, and the agent goes to work.    *)
Prompted(c) ==
    LET k == Asked(conn[c], [at |-> run.at, what |-> "prompt"])
    IN  conn' = [conn EXCEPT ![c] = IF @.closed THEN k ELSE [k EXCEPT !.work = @ \cup {run.at}]]

(* cancelCurrentTurn in the generator: codex asks and waits for the        *)
(* answer (turn/interrupt); the others send a notification (session/cancel,*)
(* abort).                                                                 *)
CancelCurrentTurn(next) ==
    LET c == run.client
        can == run.client # None /\ run.session /\ (kind = "codex" => run.turnId)
        cancelled == can /\ ~ conn[c].closed
    IN  IF can /\ kind = "codex"
        THEN /\ conn' = [conn EXCEPT ![c] = Asked(@, [at |-> run.at, what |-> "cancel"])]
             /\ run' = [run EXCEPT !.phase = "cancel", !.then = next, !.cancelled = @ \/ cancelled,
                                   !.waits = IF conn[c].closed THEN "lost" ELSE "waiting"]
        ELSE /\ run' = [run EXCEPT !.phase = next, !.waits = "no", !.cancelled = @ \/ cancelled]
             /\ UNCHANGED conn

(* The session is there.  codex and pi write the prompt and await its      *)
(* acknowledgement; ACP agents get their settings first, which opencode    *)
(* skips when they are in force.                                           *)
SessionReady ==
    /\ run.phase = "session"
    /\ run.waits = "ok"
    /\ IF kind \in Acp
       THEN /\ \/ /\ conn' = [conn EXCEPT ![run.client] = Asked(@, [at |-> run.at, what |-> "settings"])]
                  /\ run' = [run EXCEPT !.session = TRUE, !.phase = "settings",
                                        !.waits = IF conn[run.client].closed THEN "lost" ELSE "waiting"]
               \/ /\ kind = "opencode"
                  /\ run' = [run EXCEPT !.session = TRUE, !.phase = "settings", !.waits = "ok"]
                  /\ UNCHANGED conn
       ELSE /\ Prompted(run.client)
            /\ run' = [run EXCEPT !.session = TRUE, !.phase = "prompt",
                                  !.turnId = (kind = "pi"), !.settled = FALSE,
                                  !.waits = IF conn[run.client].closed THEN "lost" ELSE "waiting"]
    /\ UNCHANGED <<kind, slot, disowned, queue, attempt, stops, last>>

(* The settings are applied or failed, whatever the reason: the ACP prompt *)
(* is written and not awaited.  On a dead connection it is rejected now.   *)
SettingsApplied ==
    /\ run.phase = "settings"
    /\ run.waits \in {"ok", "error", "lost"}
    /\ Prompted(run.client)
    /\ run' = [run EXCEPT !.turnId = TRUE, !.sent = TRUE, !.settled = conn[run.client].closed,
                          !.phase = "set", !.waits = "no"]
    /\ queue' = IF ~ conn[run.client].closed \/ run.stop THEN queue ELSE Append(queue, run.at)
    /\ UNCHANGED <<kind, slot, disowned, attempt, stops, last>>

(* The acknowledgement of codex (the turn's id) or of pi.                  *)
PromptAcknowledged ==
    /\ run.phase = "prompt"
    /\ run.waits = "ok"
    /\ run' = [run EXCEPT !.turnId = TRUE, !.settled = (kind = "pi"), !.phase = "set", !.waits = "no"]
    /\ UNCHANGED <<kind, connVars, queue, attempt, stops, last>>

(* The setup is over: a stop that came during it is made up for.           *)
SetupDone ==
    /\ run.phase = "set"
    /\ IF run.stop THEN CancelCurrentTurn("consume")
       ELSE run' = [run EXCEPT !.phase = "consume"] /\ UNCHANGED conn
    /\ UNCHANGED <<kind, slot, disowned, queue, attempt, stops, last>>

SetupFailed ==
    \/ run.phase = "connect" /\ run.waits \in {"error", "lost"}
    \/ run.phase \in {"session", "prompt"} /\ run.waits \in {"error", "lost"}

(* Only a lost connection is worth a retry, once a turn, and not when the  *)
(* person has stopped it.                                                  *)
Retryable == run.waits = "lost" /\ ~ run.stop /\ run.at = run.turnFirst

(* Mutant of Respawn: the queue keeps what the lost connection left.       *)
RespawnDirty ==
    /\ SetupFailed
    /\ Retryable
    /\ attempt < MaxAttempts
    /\ attempt' = attempt + 1
    /\ slot' = NoSlot
    /\ run' = [run EXCEPT !.phase = "acquire", !.waits = "no", !.at = attempt + 1, !.force = None]
    /\ UNCHANGED <<kind, conn, disowned, queue, stops, last>>

(* respawnAfterConnectionLost: the slot is released, the hooks of the lost *)
(* client are taken off, the queue and forceFinish are reset; the setup    *)
(* runs again.                                                             *)
Respawn ==
    /\ SetupFailed
    /\ Retryable
    /\ attempt < MaxAttempts
    /\ attempt' = attempt + 1
    /\ conn' = [c \in Conns |->
                  LET k == IF c = slot.client THEN Disposed(conn[c]) ELSE conn[c]
                  IN  IF c = run.client THEN [k EXCEPT !.hooks = None] ELSE k]
    /\ slot' = NoSlot
    /\ queue' = <<>>
    /\ run' = [run EXCEPT !.phase = "acquire", !.waits = "no", !.at = attempt + 1, !.force = None]
    /\ UNCHANGED <<kind, disowned, stops, last>>

-----------------------------------------------------------------------------
(* The end of a turn.                                                      *)

(* The finally of executeTurn: the turn's state is cleared and the idle    *)
(* timer armed.  A runner the bridge evicted meanwhile gets no more turns: *)
(* the next one is a new object, with a manager of its own.                *)
Ended(how, from) ==
    /\ last' = [how |-> how,
                of |-> CASE from < run.turnFirst -> "earlier turn"
                         [] run.turnFirst <= from /\ from < run.at -> "earlier setup"
                         [] OTHER -> "own",
                reached |-> run.cancelled \/ \A c \in Conns : Open(c) => run.at \notin conn[c].work]
    /\ run' = IF run.evicted THEN FreshRunner(attempt + 1)
              ELSE [FreshRunner(run.first) EXCEPT !.client = run.client]

Idled == [slot EXCEPT !.timer = slot.client # None]

(* A setup that failed for good ends the turn with an error.               *)
SetupFails ==
    /\ SetupFailed
    /\ ~ Retryable
    /\ Ended("error", run.at)
    /\ IF run.phase = "connect" THEN Uncached(Made)
       ELSE UNCHANGED disowned /\ slot' = Idled
    /\ UNCHANGED <<kind, conn, queue, attempt, stops>>

(* consumeTurn finds a result.                                             *)
ConsumeResult ==
    /\ run.phase = "consume"
    /\ queue # <<>>
    /\ Ended("result", Head(queue))
    /\ slot' = Idled
    /\ queue' = Tail(queue)
    /\ UNCHANGED <<kind, conn, disowned, attempt, stops>>

(* consumeTurn finds forceFinish, and nothing left in the queue.           *)
ConsumeStop ==
    /\ run.phase = "consume"
    /\ queue = <<>>
    /\ run.force # None
    /\ Ended("interrupted", run.force)
    /\ slot' = Idled
    /\ UNCHANGED <<kind, conn, disowned, queue, attempt, stops>>

(* The watchdog: the agent was silent for turnIdleTimeout.                 *)
TurnIdles ==
    /\ run.phase = "consume"
    /\ queue = <<>>
    /\ run.force = None
    /\ CancelCurrentTurn("timeout")
    /\ UNCHANGED <<kind, slot, disowned, queue, attempt, stops, last>>

(* codex answered the interrupt, or it failed: the generator goes on.      *)
Interrupted ==
    /\ run.phase = "cancel"
    /\ run.waits \in {"ok", "error", "lost"}
    /\ run' = [run EXCEPT !.phase = run.then, !.waits = "no"]
    /\ UNCHANGED <<kind, connVars, queue, attempt, stops, last>>

TimeoutReported ==
    /\ run.phase = "timeout"
    /\ Ended("timeout", run.at)
    /\ slot' = Idled
    /\ UNCHANGED <<kind, conn, disowned, queue, attempt, stops>>

-----------------------------------------------------------------------------
(* Who acts on the runner.                                                 *)

(* The agents differ in when a stop is left to the generator.              *)
DefersStop ==
    CASE kind = "codex" -> ~ run.turnId
      [] kind = "opencode" -> ~ run.sent
      [] OTHER -> ~ run.settled

(* stop(): the intent is noted in every phase; the cancel is sent now      *)
(* unless the turn is still being set up.  codex's answer is awaited, and  *)
(* forceFinish is set again after it.                                      *)
Stop ==
    /\ run.running
    /\ ~ run.stop
    /\ run.phase \notin {"acquire", "set", "timeout"}
    /\ Quiet
    /\ LET now == run.client # None /\ run.session /\ ~ DefersStop
           c == run.client
           sent == now /\ ~ conn[c].closed
       IN  /\ run' = [run EXCEPT !.stop = TRUE, !.force = run.at, !.cancelled = @ \/ sent]
           /\ IF sent /\ kind = "codex"
              THEN /\ stops' = stops \cup {run.at}
                   /\ conn' = [conn EXCEPT ![c] = Asked(@, [at |-> run.at, what |-> "cancel"])]
              ELSE UNCHANGED <<conn, stops>>
    /\ UNCHANGED <<kind, slot, disowned, queue, attempt, last>>

(* evictRunnerSlot: after a stop, or between turns, the bridge disposes    *)
(* the runner and forgets it.                                              *)
Evict ==
    /\ ~ run.evicted
    /\ run.running => run.stop
    /\ run.phase # "acquire"
    /\ Quiet
    /\ attempt > 0
    /\ HearsDispose
    /\ LET lost == IF slot.client = None THEN {} ELSE conn[slot.client].pending
       IN  run' = IF run.running THEN [Woken(lost, "lost") EXCEPT !.evicted = TRUE]
                  ELSE FreshRunner(attempt + 1)
    /\ UNCHANGED <<kind, attempt, last>>

(* The idle timer of the slot: the connection is released.                 *)
IdleTimerFires ==
    /\ slot.timer
    /\ Quiet
    /\ HearsDispose
    /\ LET lost == IF slot.client = None THEN {} ELSE conn[slot.client].pending
       IN  run' = Woken(lost, "lost")
    /\ UNCHANGED <<kind, attempt, last>>

(* The agent answers a request, in any order.  The ACP answer to a prompt  *)
(* is the end of the agent's work.                                         *)
AgentAnswers(c, r, ok) ==
    /\ Open(c)
    /\ r \in conn[c].asked
    /\ LET over == r.what = "prompt" /\ (kind \in Acp \/ ~ ok)
           k == Answered(conn[c], r, ok)
       IN  conn' = [conn EXCEPT ![c] = [k EXCEPT !.work = IF over THEN @ \ {r.at} ELSE @]]
    /\ LET heard == {r} \cap conn[c].pending
       IN  /\ run' = Woken(heard, IF ok THEN "ok" ELSE "error")
           /\ stops' = StillStopping(heard)
           /\ queue' = queue \o PromptResults(heard)
    /\ UNCHANGED <<kind, slot, disowned, attempt, last>>

(* codex and pi report the end of a turn with a notification, which the    *)
(* translator of the running turn takes without asking whose it is; with   *)
(* no translator it is dropped.                                            *)
AgentEndsTurn(c, a) ==
    /\ kind \notin Acp
    /\ Open(c)
    /\ a \in conn[c].work
    /\ conn' = [conn EXCEPT ![c].work = @ \ {a}]
    /\ queue' = IF conn[c].hooks # None /\ Own(conn[c].hooks) /\ run.session THEN Append(queue, a) ELSE queue
    /\ UNCHANGED <<kind, slot, disowned, run, attempt, stops, last>>

(* A request is not answered in time.  An ACP prompt has no timer.         *)
RequestTimesOut(c, r) ==
    /\ r \in conn[c].pending
    /\ ~ (r.what = "prompt" /\ kind \in Acp)
    /\ Quiet
    /\ conn' = [conn EXCEPT ![c] = TimedOut(@, r)]
    /\ run' = Woken({r}, "error")
    /\ stops' = StillStopping({r})
    /\ UNCHANGED <<kind, slot, disowned, queue, attempt, last>>

(* stdin breaks, or the process object reports an error.                   *)
TransportBreaks(c) ==
    /\ Open(c)
    /\ HearsClose(c)
    /\ conn' = [conn EXCEPT ![c] = Broken(@)]
    /\ UNCHANGED <<kind, disowned, attempt, last>>

(* The process exits: by itself, asked to, or killed.                      *)
ProcessExits(c) ==
    /\ Living(c)
    /\ HearsClose(c)
    /\ conn' = [conn EXCEPT ![c] = Exited(@)]
    /\ UNCHANGED <<kind, disowned, attempt, last>>

KilledExits(c) == conn[c].proc = "killed" /\ ProcessExits(c)

Generator ==
    \/ Acquire \/ Connected \/ SessionReady \/ SettingsApplied \/ PromptAcknowledged
    \/ SetupDone \/ Respawn \/ SetupFails
    \/ ConsumeResult \/ ConsumeStop \/ Interrupted \/ TimeoutReported

TurnNext ==
    \/ StartTurn \/ Acquire \/ Connected \/ SessionReady \/ SettingsApplied \/ PromptAcknowledged
    \/ SetupDone \/ Respawn \/ SetupFails
    \/ ConsumeResult \/ ConsumeStop \/ TurnIdles \/ Interrupted \/ TimeoutReported
    \/ Stop \/ Evict \/ IdleTimerFires
    \/ \E c \in Conns :
         \/ \E r \in conn[c].asked, ok \in BOOLEAN : AgentAnswers(c, r, ok)
         \/ \E a \in Attempts : AgentEndsTurn(c, a)
         \/ \E r \in conn[c].pending : RequestTimesOut(c, r)
         \/ TransportBreaks(c)
         \/ ProcessExits(c)
         \/ GraceElapses(c) /\ UNCHANGED <<run, queue, attempt, stops, last>>

TurnSpec == TurnInit /\ [][TurnNext]_turnVars

(* The code runs on after an await; the timers of requests, of the idle    *)
(* watchdog and of the terminator fire; a killed process exits.            *)
TurnFairSpec ==
    /\ TurnSpec
    /\ WF_turnVars(Generator)
    /\ WF_turnVars(TurnIdles)
    /\ \A c \in Conns :
         /\ WF_turnVars(\E r \in conn[c].pending : RequestTimesOut(c, r))
         /\ WF_turnVars(GraceElapses(c) /\ UNCHANGED <<run, queue, attempt, stops, last>>)
         /\ WF_turnVars(KilledExits(c))

-----------------------------------------------------------------------------
(* Properties.                                                             *)

(* A turn that ends with a result ends with one of its last setup: what a  *)
(* lost connection left in the queue does not end the retry.               *)
RetryStartsClean ==
    last.how = "result" => last.of # "earlier setup"

(* A turn that its own stop ended has told the agent, or the agent had     *)
(* nothing to do any more.  kimi is left out: it defers the cancel until   *)
(* its prompt has settled, and the stop ends the turn without it.          *)
InterruptReachesAgent ==
    kind # "kimi" /\ last.how = "interrupted" /\ last.of = "own" => last.reached

(* How a turn ended is true of that turn, not of an earlier one, and of    *)
(* the agent.                                                              *)
EndIsTrue == RetryStartsClean /\ InterruptReachesAgent

(* An agent process nobody has asked to stop is the one the slot caches or *)
(* makes, but for those the manager gave up knowingly.                     *)
StrayOnlyIfGivenUp ==
    \A c \in Conns : Open(c) => c \in {slot.client, slot.creating} \cup disowned

(* Every turn ends, whatever the agent, the pipe and the person do.        *)
EveryTurnEnds == run.running ~> ~ run.running

=============================================================================
