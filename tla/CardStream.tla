----------------------------- MODULE CardStream -----------------------------
(***************************************************************************)
(* One streaming card (card/card-session.ts) of a run or of a bash command *)
(* (run-card-session.ts, bash-card-session.ts) and the parties that write  *)
(* it: the producer of the stream with its first frame, the batching       *)
(* window with its flushes, and the finishers - the end of the stream, a   *)
(* person's stop, the idle watchdog - which may overlap.                   *)
(*                                                                         *)
(* An update of the card is an asynchronous call.  Calls in flight at the  *)
(* same time land in any order: the session relies on no FIFO.  A frame is *)
(* what a rendering tells apart: the events reduced so far, the terminal,  *)
(* and whether the final figures (usage, exit code) are in.  'finalizing'  *)
(* is not told from 'running'.                                             *)
(***************************************************************************)
EXTENDS Naturals, Sequences

CONSTANT MaxPush  \* bound: events of the stream

ASSUME CardStreamAssumption == MaxPush \in Nat

Finisher == {"stream", "stop", "watchdog"}
Blank == [events |-> 0, terminal |-> "running", final |-> FALSE]

VARIABLES
    kind,        \* "run" or "bash"
    state,       \* the state of the session, as the frame it renders to: the events,
                 \* the terminal (named for who set it) and the final figures
    flushTimer, flushInFlight, pendingReschedule,
    waiting,     \* finishers that await flushP, in the order they came
    finisher,    \* [Finisher -> finish() "idle", "busy" or "returned"]
    producer,    \* "absent" (no controller), "first" (first update in flight) or "ready"
    released,    \* producerReleased
    outcome,     \* streamOutcome: "open", "ok" or "failed"
    phase,       \* of the owner: "starting", "streaming", "finishing", "settling", "done"
    calls,       \* updates in flight: [by, way, frame]
    shown,       \* what the streamed card shows
    fallback,    \* was the static card sent?
    \* History variables
    excused      \* a terminal frame was lost, or the first frame landed late

sessionVars == <<state, flushTimer, flushInFlight, pendingReschedule, waiting, finisher, released>>
cardVars == <<shown, fallback, excused>>
streamVars == <<kind, sessionVars, producer, outcome, phase, calls, cardVars>>

StreamInit ==
    /\ kind \in {"run", "bash"}
    /\ state = Blank
    /\ flushTimer = FALSE
    /\ flushInFlight = FALSE
    /\ pendingReschedule = FALSE
    /\ waiting = <<>>
    /\ finisher = [f \in Finisher |-> "idle"]
    /\ producer = "absent"
    /\ released = FALSE
    /\ outcome = "open"
    /\ phase = "starting"
    /\ calls = {}
    /\ shown = Blank
    /\ fallback = FALSE
    /\ excused = FALSE

IsTerminal(frame) == frame.terminal # "running"
HasController == producer # "absent"

(* updateCard called by several callers in one step: each frame is         *)
(* rendered, and sent if there is a controller.                            *)
UpdateCard(by, frame) == [by |-> by, way |-> "controller", frame |-> frame]

Render(updates) ==
    /\ calls' = IF HasController THEN calls \cup updates ELSE calls

-----------------------------------------------------------------------------
(* The stream of the card: connector.streamCard and its producer.          *)

(* The producer runs: controller and messageId are known, and the first    *)
(* frame is rendered from the state of now.  Nobody waits for it but       *)
(* start().                                                                *)
ProducerRuns ==
    /\ producer = "absent"
    /\ outcome = "open"
    /\ producer' = "first"
    /\ calls' = calls \cup {UpdateCard("initial", state)}
    /\ UNCHANGED <<kind, sessionVars, outcome, phase, cardVars>>

(* streamCard rejects, before its producer ran or after.                   *)
StreamFails ==
    /\ outcome = "open"
    /\ outcome' = "failed"
    /\ UNCHANGED <<kind, sessionVars, producer, phase, calls, cardVars>>

(* The producer was released, and streamCard resolves.                     *)
StreamCloses ==
    /\ outcome = "open"
    /\ producer = "ready"
    /\ released
    /\ outcome' = "ok"
    /\ UNCHANGED <<kind, sessionVars, producer, phase, calls, cardVars>>

(* start() returns or throws (controllerReady, a failed stream, or its     *)
(* timeout); the owner goes on either way.                                 *)
StartEnds ==
    /\ phase = "starting"
    /\ phase' = "streaming"
    /\ UNCHANGED <<kind, sessionVars, producer, outcome, calls, cardVars>>

-----------------------------------------------------------------------------
(* The batching window.                                                    *)

(* scheduleFlush: one timer, and none while a flush is in flight.          *)
ScheduleFlush ==
    /\ flushTimer' = (flushTimer \/ ~ flushInFlight)
    /\ pendingReschedule' = (pendingReschedule \/ (~ flushTimer /\ flushInFlight))

(* push / update: a run ignores events once it is terminal, a bash command *)
(* stores them; the flush is scheduled either way.                         *)
Push ==
    /\ phase = "streaming"
    /\ state.events < MaxPush
    /\ state' = IF kind = "run" /\ IsTerminal(state) THEN state ELSE [state EXCEPT !.events = @ + 1]
    /\ ScheduleFlush
    /\ UNCHANGED <<kind, flushInFlight, waiting, finisher, released, producer, outcome, phase,
                   calls, cardVars>>

(* The window elapses: flush, unless isFlushableState denies it.           *)
WindowElapses ==
    /\ flushTimer
    /\ flushTimer' = FALSE
    /\ IF flushInFlight \/ IsTerminal(state)
       THEN UNCHANGED <<flushInFlight, calls>>
       ELSE /\ Render({UpdateCard("flush", state)})
            /\ flushInFlight' = HasController
    /\ UNCHANGED <<kind, state, pendingReschedule, waiting, finisher, released, producer, outcome,
                   phase, cardVars>>

-----------------------------------------------------------------------------
(* Finishing.                                                              *)

(* finishRun keeps the first terminal of a run and adds the figures; the   *)
(* bash session takes every terminal it is given.                          *)
FinishState(s, f) ==
    [s EXCEPT !.terminal = IF kind = "run" /\ @ # "running" THEN @ ELSE f,
              !.final = @ \/ f = "stream"]

(* The state after the first i finishers of a sequence have gone through   *)
(* FinishState one after the other.                                        *)
StateAfter(fs, i) ==
    IF i = 0 THEN state
    ELSE [FinishState(state, IF kind = "run" THEN fs[1] ELSE fs[i]) EXCEPT
            !.final = @ \/ \E j \in 1 .. i : fs[j] = "stream"]

FinishAtOnce(f) ==
    /\ state' = FinishState(state, f)
    /\ Render({UpdateCard(f, FinishState(state, f))})
    /\ finisher' = [finisher EXCEPT ![f] = IF HasController THEN "busy" ELSE "returned"]
    /\ released' = (released \/ ~ HasController)
    /\ UNCHANGED waiting

(* finish: the window is cancelled, a flush in flight awaited; then the    *)
(* terminal state is set and its frame sent.                               *)
Finish(f) ==
    /\ finisher[f] = "idle"
    /\ flushTimer' = FALSE
    /\ pendingReschedule' = FALSE
    /\ \/ /\ ~ flushInFlight
          /\ FinishAtOnce(f)
       \/ /\ flushInFlight
          /\ waiting' = Append(waiting, f)
          /\ finisher' = [finisher EXCEPT ![f] = "busy"]
          /\ UNCHANGED <<state, released, calls>>

(* interruptCurrentRun: a run is found until it is finalised; the finish   *)
(* of a stopped bash command follows the stop of its process, and may come *)
(* later than that.                                                        *)
Stop ==
    /\ kind = "bash" \/ phase # "done"
    /\ Finish("stop")
    /\ UNCHANGED <<kind, flushInFlight, producer, outcome, phase, cardVars>>

(* The watchdog is armed while the stream of a run is read.                *)
WatchdogFires ==
    /\ kind = "run"
    /\ phase = "streaming"
    /\ Finish("watchdog")
    /\ UNCHANGED <<kind, flushInFlight, producer, outcome, phase, cardVars>>

(* The stream of the agent ends or throws: the owner finishes the session, *)
(* a terminal run only if it saw a result and has figures to add.          *)
StreamEnds ==
    /\ phase = "streaming"
    /\ \/ /\ phase' = "finishing"
          /\ Finish("stream")
       \/ /\ kind = "run" /\ IsTerminal(state)
          /\ phase' = "settling"
          /\ released' = TRUE
          /\ UNCHANGED <<state, flushTimer, pendingReschedule, waiting, finisher, calls>>
    /\ UNCHANGED <<kind, flushInFlight, producer, outcome, cardVars>>

-----------------------------------------------------------------------------
(* settle(): the producer is released and the stream of the card awaited.  *)

Settle ==
    /\ phase = "finishing"
    /\ finisher["stream"] = "returned"
    /\ phase' = "settling"
    /\ released' = TRUE
    /\ UNCHANGED <<kind, state, flushTimer, flushInFlight, pendingReschedule, waiting, finisher,
                   producer, outcome, calls, cardVars>>

(* Mutant of SettleEnds: whatever became of the stream, it is trusted.     *)
SettleTrustsTimeout ==
    /\ phase' = "done"
    /\ UNCHANGED <<calls, fallback>>

(* 'streamed'; or the stream failed or is too late: the card is updated    *)
(* through its messageId, and without one ('unsent') the static card sent. *)
SettleEnds ==
    \/ /\ outcome = "ok"
       /\ phase' = "done"
       /\ UNCHANGED <<calls, fallback>>
    \/ /\ outcome # "ok"
       /\ HasController
       /\ calls' = calls \cup {[by |-> "settle", way |-> "message", frame |-> state]}
       /\ UNCHANGED <<phase, fallback>>
    \/ /\ outcome # "ok"
       /\ ~ HasController
       /\ fallback' = TRUE
       /\ phase' = "done"
       /\ UNCHANGED <<calls>>

Settles ==
    /\ phase = "settling"
    /\ \A c \in calls : c.by # "settle"
    /\ SettleEnds
    /\ UNCHANGED <<kind, sessionVars, producer, outcome, shown, excused>>

-----------------------------------------------------------------------------
(* Updates in flight.                                                      *)

(* The flush is over: what was pushed meanwhile is scheduled again, and    *)
(* the finishers that awaited it go on, one after the other.               *)
FlushEnds(others) ==
    LET resumed == {UpdateCard(waiting[i], StateAfter(waiting, i)) : i \in DOMAIN waiting} IN
    /\ flushInFlight' = FALSE
    /\ flushTimer' = (flushTimer \/ pendingReschedule)
    /\ pendingReschedule' = FALSE
    /\ state' = StateAfter(waiting, Len(waiting))
    /\ calls' = others \cup resumed
    /\ waiting' = <<>>
    /\ UNCHANGED <<finisher, released, producer, phase, fallback>>

(* A call is over, landed or not: its caller goes on.                      *)
Returns(c, landed) ==
    \/ /\ c.by = "flush"
       /\ FlushEnds(calls \ {c})
    \/ /\ c.by # "flush"
       /\ calls' = calls \ {c}
       /\ producer' = IF c.by = "initial" THEN "ready" ELSE producer
       /\ finisher' = [f \in Finisher |-> IF f = c.by THEN "returned" ELSE finisher[f]]
       /\ released' = (released \/ c.by \in Finisher)
       /\ phase' = IF c.by = "settle" THEN "done" ELSE phase
       /\ fallback' = (fallback \/ (c.by = "settle" /\ ~ landed))
       /\ UNCHANGED <<state, flushTimer, flushInFlight, pendingReschedule, waiting>>

Lands(c) ==
    /\ shown' = c.frame
    /\ excused' = (excused \/ (c.by = "initial" /\ IsTerminal(state) /\ ~ IsTerminal(c.frame)))
    /\ Returns(c, TRUE)
    /\ UNCHANGED <<kind, outcome>>

(* The controller fails: updateCard tries the messageId, the producer's    *)
(* first update does not.                                                  *)
ControllerFails(c) ==
    /\ c.way = "controller"
    /\ \/ /\ c.by = "initial"
          /\ excused' = (excused \/ IsTerminal(c.frame))
          /\ Returns(c, FALSE)
       \/ /\ c.by # "initial"
          /\ calls' = (calls \ {c}) \cup {[c EXCEPT !.way = "message"]}
          /\ UNCHANGED <<sessionVars, producer, phase, fallback, excused>>
    /\ UNCHANGED <<kind, outcome, shown>>

(* The messageId fails as well: the frame is lost, which is only logged.   *)
MessageFails(c) ==
    /\ c.way = "message"
    /\ excused' = (excused \/ IsTerminal(c.frame))
    /\ Returns(c, FALSE)
    /\ UNCHANGED <<kind, outcome, shown>>

-----------------------------------------------------------------------------
CallEnds == \E c \in calls : Lands(c) \/ ControllerFails(c) \/ MessageFails(c)

StreamNext ==
    \/ ProducerRuns \/ StreamFails \/ StreamCloses \/ StartEnds
    \/ Push \/ WindowElapses
    \/ Stop \/ WatchdogFires \/ StreamEnds
    \/ Settle \/ Settles
    \/ CallEnds

StreamSpec == StreamInit /\ [][StreamNext]_streamVars

-----------------------------------------------------------------------------
(* Property.                                                               *)

(* Once a terminal frame is on the card, no flush puts a frame of the run  *)
(* in progress over it; the producer's first frame, which nobody awaits,   *)
(* may.                                                                    *)
TerminalIsNotBuried ==
    IsTerminal(shown) /\ ~ IsTerminal(shown') => \E c \in calls \ calls' : c.by = "initial"

(* The card of a run keeps the terminal it has shown, whoever finishes it  *)
(* afterwards: a stopped run does not turn into a completed one.           *)
FirstTerminalStays ==
    kind = "run" /\ IsTerminal(shown) /\ IsTerminal(shown') => shown'.terminal = shown.terminal

(* When the owner is done and nothing is in flight, the chat shows the     *)
(* outcome: on the streamed card or on the static one, unless a terminal   *)
(* frame was lost or the producer's first frame landed last.               *)
DoneIsTold ==
    phase = "done" /\ calls = {} => IsTerminal(shown) \/ fallback \/ excused

(* The outcome of a run reaches the chat and stays there, whichever of the *)
(* stream, a stop and the watchdog comes first and in whatever order the   *)
(* updates land.                                                           *)
OutcomeIsShown == [][TerminalIsNotBuried /\ FirstTerminalStays /\ DoneIsTold']_streamVars
=============================================================================
