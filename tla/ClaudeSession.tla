---------------------------- MODULE ClaudeSession ----------------------------
(***************************************************************************)
(* The interactive sessions of claude in one workspace                     *)
(* (runner/claude/session.ts, runner/claude/runner.ts over                 *)
(* runner/common/spawning-runner.ts and platform/terminator-posix.ts).     *)
(*                                                                         *)
(* A runner keeps one process over many turns: a turn writes its message   *)
(* on stdin and takes the events a reader queues until the result.  The    *)
(* process is stopped by a person, by the idle timer, by a turn of another *)
(* session, by an approval that expired, by a turn that breaks off and     *)
(* when its runner is disposed of; the next turn spawns another one.  A    *)
(* graceful stop awaits the exit or the end of the grace; the other stops  *)
(* kill at once and await nothing.  A process is its own generation.       *)
(*                                                                         *)
(* The lane of the workspace runs one turn after another; the texts of     *)
(* messages, the command line and the views of requests are left out.  The *)
(* process is of the environment; one that was killed is gone before the   *)
(* next one is spawned, which awaits cards to be sent in between.          *)
(***************************************************************************)
EXTENDS Naturals, Sequences, SequencesExt, FiniteSets

CONSTANTS
    MaxTurns,    \* bound: messages
    MaxSpawns,   \* bound: processes
    MaxRunners,  \* bound: runners in the slot of the workspace, one by one
    MaxOut,      \* bound: what a process has said and nobody read
    MaxAsks      \* bound: requests for a permission

ASSUME ClaudeSessionAssumption ==
    {MaxTurns, MaxSpawns, MaxRunners, MaxOut, MaxAsks} \subseteq Nat \ {0}

Turn == 1 .. MaxTurns
Proc == 1 .. MaxSpawns
Runner == 1 .. MaxRunners
Nobody == 0
Nothing == 0

VARIABLES
    procs,    \* the processes
    reader,   \* of each process: where its stream reader is
    session,  \* of each runner: the fields of its ClaudeSession
    stops,    \* graceful stops under way: what they await and why
    pidFile,  \* the process the pid file names; the runners share it
    cached,   \* the runner in the slot of the workspace
    run,      \* the turn of the lane: where it is, of which runner, whether
              \* its watchdog fired, and whether a stop has yet to evict
    shown,    \* requests on the card of the turn, unanswered
    asked,    \* how many requests were made so far
    stopped,  \* turns a person stopped
    ended     \* how each turn ended, and with the result of which

vars == <<procs, reader, session, stops, pidFile, cached, run, shown, asked, stopped, ended>>
aux == <<asked, stopped>>

NewProc == [runner |-> Nobody, life |-> "new", signal |-> "none", resumes |-> FALSE,
            spoke |-> FALSE, inbox |-> <<>>, turn |-> 0, waits |-> Nothing, out |-> <<>>]
NewSession == [current |-> Nobody, generation |-> Nobody, streamEnded |-> FALSE, sawInit |-> FALSE,
               queue |-> <<>>, stoppedByUser |-> FALSE, pending |-> {}, autoApprove |-> FALSE, idle |-> FALSE,
               created |-> FALSE]
NoRun == [pc |-> "none", turn |-> 0, runner |-> 1, watched |-> FALSE, evict |-> FALSE]
Open == [how |-> "open", turn |-> 0]

Event(type, turn) == [type |-> type, turn |-> turn]
Ask(type, turn, id) == [type |-> type, turn |-> turn, id |-> id]

Init ==
    /\ procs = [p \in Proc |-> NewProc]
    /\ reader = [p \in Proc |-> [at |-> "none", ev |-> Event("none", 0)]]
    /\ session = [r \in Runner |-> NewSession]
    /\ stops = {}
    /\ pidFile = Nobody
    /\ cached = 1
    /\ run = NoRun
    /\ shown = {}
    /\ asked = 0
    /\ stopped = {}
    /\ ended = [t \in Turn |-> Open]

Alive(p) == p # Nobody /\ procs[p].life = "alive"
IsRunning(r) == Alive(session[r].current)
TurnActive(r) == run.pc # "none" /\ run.runner = r

-----------------------------------------------------------------------------
(* The process.                                                            *)

(* It takes its next message; before the first it says who it is, after    *)
(* the last result of a session it resumes.                                *)
ClaudeReads(p) ==
    /\ Alive(p) /\ procs[p].turn = 0 /\ procs[p].inbox # <<>>
    /\ Len(procs[p].out) < MaxOut
    /\ procs' = [procs EXCEPT
         ![p].turn = Head(procs[p].inbox), ![p].inbox = Tail(@), ![p].spoke = TRUE, ![p].resumes = FALSE,
         ![p].out = IF procs[p].spoke THEN @
                    ELSE @ \o (IF procs[p].resumes THEN <<Event("result", 0)>> ELSE <<>>) \o <<Event("init", 0)>>]
    /\ UNCHANGED <<reader, session, stops, pidFile, cached, run, shown, ended, aux>>

(* It asks for a permission, or has its plan approved, and waits.          *)
ClaudeAsks(p, type) ==
    /\ Alive(p) /\ procs[p].turn # 0 /\ procs[p].waits = Nothing
    /\ asked < MaxAsks /\ Len(procs[p].out) < MaxOut
    /\ asked' = asked + 1
    /\ procs' = [procs EXCEPT ![p].waits = asked', ![p].out = Append(@, Ask(type, procs[p].turn, asked'))]
    /\ UNCHANGED <<reader, session, stops, pidFile, cached, run, shown, ended, stopped>>

ClaudeFinishes(p) ==
    /\ Alive(p) /\ procs[p].turn # 0 /\ procs[p].waits = Nothing /\ Len(procs[p].out) < MaxOut
    /\ procs' = [procs EXCEPT ![p].turn = 0, ![p].out = Append(@, Event("result", procs[p].turn))]
    /\ UNCHANGED <<reader, session, stops, pidFile, cached, run, shown, ended, aux>>

-----------------------------------------------------------------------------
(* Stopping.                                                               *)

(* What stop() does when what it awaited is over: the session has no       *)
(* process, and the file goes.  A turn that recycles goes on to spawn.     *)
StopsContinue(done, ps) ==
    /\ procs' = ps
    /\ stops' = stops \ done
    /\ pidFile' = IF done = {} THEN pidFile ELSE Nobody
    /\ session' = [r \in Runner |->
                     IF \E s \in done : procs[s.proc].runner = r THEN [session[r] EXCEPT !.current = Nobody]
                     ELSE session[r]]
    /\ run' = IF \E s \in done : s.by = "recycle" THEN [run EXCEPT !.pc = "starting"] ELSE run

(* The process ends - signalled, or by itself - and its exit ends the      *)
(* stops that await it.                                                    *)
ClaudeExits(p) ==
    /\ Alive(p)
    /\ StopsContinue({s \in stops : s.proc = p},
                     [procs EXCEPT ![p] = [NewProc EXCEPT !.runner = procs[p].runner, !.life = "dead", !.out = procs[p].out]])
    /\ UNCHANGED <<reader, cached, shown, ended, aux>>

(* stopPosix: it did not exit within the grace and is killed.              *)
GraceIsOver(s) ==
    /\ Alive(s.proc)
    /\ StopsContinue({s}, [procs EXCEPT ![s.proc].signal = "kill"])
    /\ UNCHANGED <<reader, cached, shown, ended, aux>>

(* stop() of a runner that has a process: what becomes of the processes,   *)
(* the session and the file.                                               *)
Signalled(r, signal) ==
    [procs EXCEPT ![session[r].current].signal = signal]

BeginsGracefulStop(r, by) ==
    /\ procs' = Signalled(r, "term")
    /\ stops' = stops \cup {[proc |-> session[r].current, by |-> by]}
    /\ session' = [session EXCEPT ![r].stoppedByUser = TRUE, ![r].idle = FALSE]
    /\ UNCHANGED pidFile

StopsGracefully(r, by) ==
    IF IsRunning(r) THEN BeginsGracefulStop(r, by)
    ELSE /\ session' = [session EXCEPT ![r].current = Nobody, ![r].idle = FALSE]
         /\ UNCHANGED <<procs, stops, pidFile>>

StopsAtOnce(r) ==
    IF IsRunning(r)
    THEN /\ procs' = Signalled(r, "kill")
         /\ session' = [session EXCEPT ![r].stoppedByUser = TRUE, ![r].current = Nobody, ![r].idle = FALSE]
         /\ pidFile' = Nobody
    ELSE /\ session' = [session EXCEPT ![r].current = Nobody, ![r].idle = FALSE]
         /\ UNCHANGED <<procs, pidFile>>

(* armIdleTimer: the timer fires; it stops no process that is in a turn.   *)
IdleTimerFires(r) ==
    /\ session[r].idle
    /\ IF ~ TurnActive(r) /\ IsRunning(r)
       THEN BeginsGracefulStop(r, "idle")
       ELSE /\ session' = [session EXCEPT ![r].idle = FALSE]
            /\ UNCHANGED <<procs, stops, pidFile>>
    /\ UNCHANGED <<reader, cached, run, shown, ended, aux>>

(* A person stops the turn (interruptCurrentRun); the card is finished     *)
(* before the runner is evicted.                                           *)
UserStops ==
    /\ run.pc # "none" /\ run.turn \notin stopped /\ ~ run.evict /\ cached < MaxRunners
    /\ run' = [run EXCEPT !.evict = TRUE]
    /\ stopped' = stopped \cup {run.turn}
    /\ StopsAtOnce(run.runner)
    /\ shown' = {}
    /\ UNCHANGED <<reader, stops, cached, asked, ended>>

(* evictRunnerSlot, after a stop or, between turns, a change of the        *)
(* configuration: the runner is disposed of, the next turn gets another.   *)
Dispose ==
    /\ cached < MaxRunners
    /\ run.evict \/ run.pc = "none"
    /\ cached' = cached + 1
    /\ run' = [run EXCEPT !.evict = FALSE]
    /\ StopsGracefully(cached, "dispose")
    /\ UNCHANGED <<reader, shown, ended, aux>>

(* startIdleWatchdog: the turn has been silent for too long, and no        *)
(* approval is waited for.  It fires once.                                 *)
WatchdogFires ==
    /\ run.pc = "consuming" /\ ~ run.watched /\ shown = {}
    /\ run' = [run EXCEPT !.watched = TRUE]
    /\ StopsGracefully(run.runner, "watchdog")
    /\ UNCHANGED <<reader, cached, shown, ended, aux>>

-----------------------------------------------------------------------------
(* The stream reader of a process.                                         *)

Queued(r, ev) == [session EXCEPT ![r].queue = Append(@, ev)]

(* Mutant of ReaderTakes: the results of an earlier turn, which a resumed  *)
(* session says first, are let through.                                    *)
ReaderTakesReplays(p) ==
    LET r == procs[p].runner
        ev == Head(procs[p].out)
    IN  /\ reader[p].at = "reading" /\ procs[p].out # <<>>
        /\ session' = IF p # session[r].generation THEN session
                      ELSE IF ev.type = "init" THEN [session EXCEPT ![r].sawInit = TRUE]
                      ELSE Queued(r, ev)
        /\ procs' = [procs EXCEPT ![p].out = Tail(@)]
        /\ UNCHANGED <<reader, stops, pidFile, cached, run, shown, asked, stopped, ended>>

(* One line: of another generation than the session's it ends the reader;  *)
(* before the init it is dropped.  A request is remembered and shown, or   *)
(* allowed where everything was granted; a plan is read from disk first.   *)
ReaderTakes(p) ==
    LET r == procs[p].runner
        s == session[r]
        ev == Head(procs[p].out)
        taken == [procs EXCEPT ![p].out = Tail(@)]
        mute == p # s.generation
        auto == ev.type \in {"ask", "plan"} /\ s.sawInit /\ s.autoApprove
        asks == ev.type \in {"ask", "plan"} /\ s.sawInit /\ ~ s.autoApprove
    IN  /\ reader[p].at = "reading" /\ procs[p].out # <<>>
        /\ reader' = IF mute THEN [reader EXCEPT ![p].at = "over"]
                     ELSE IF asks /\ ev.type = "plan" THEN [reader EXCEPT ![p] = [at |-> "translating", ev |-> ev]]
                     ELSE reader
        /\ session' = IF mute THEN session
                      ELSE IF ev.type = "init" THEN [session EXCEPT ![r].sawInit = TRUE]
                      ELSE IF asks THEN [session EXCEPT ![r].pending = @ \cup {ev.id},
                                                        ![r].queue = IF ev.type = "plan" THEN @ ELSE Append(@, ev)]
                      ELSE IF auto \/ ~ s.sawInit THEN session
                      ELSE Queued(r, ev)
        /\ procs' = IF ~ mute /\ auto /\ Alive(s.current) THEN [taken EXCEPT ![s.current].waits = Nothing] ELSE taken
        /\ UNCHANGED <<stops, pidFile, cached, run, shown, asked, stopped, ended>>

(* The plan is read, and the request is queued.                            *)
ReaderTranslated(p) ==
    /\ reader[p].at = "translating"
    /\ reader' = [reader EXCEPT ![p].at = "reading"]
    /\ session' = Queued(procs[p].runner, reader[p].ev)
    /\ UNCHANGED <<procs, stops, pidFile, cached, run, shown, ended, aux>>

(* Mutant of ReaderEnds: the reader tells whose stream it was by the       *)
(* process of the session, which stop() has forgotten.                     *)
ReaderEndsByProcess(p) ==
    LET r == procs[p].runner IN
    /\ reader[p].at = "reading" /\ procs[p].out = <<>> /\ procs[p].life = "dead"
    /\ reader' = [reader EXCEPT ![p].at = "over"]
    /\ IF p = session[r].current
       THEN /\ session' = [session EXCEPT ![r].streamEnded = TRUE, ![r].current = Nobody]
            /\ pidFile' = Nobody
       ELSE UNCHANGED <<session, pidFile>>
    /\ UNCHANGED <<procs, stops, cached, run, shown, ended, aux>>

(* Mutant of ReaderEnds: any reader that ends takes the process away.      *)
ReaderEndsOfAnyGeneration(p) ==
    LET r == procs[p].runner IN
    /\ reader[p].at = "reading" /\ procs[p].out = <<>> /\ procs[p].life = "dead"
    /\ reader' = [reader EXCEPT ![p].at = "over"]
    /\ session' = [session EXCEPT ![r].streamEnded = TRUE, ![r].current = Nobody]
    /\ pidFile' = Nobody
    /\ UNCHANGED <<procs, stops, cached, run, shown, ended, aux>>

(* The stream is over; an old generation leaves the session alone.         *)
ReaderEnds(p) ==
    LET r == procs[p].runner IN
    /\ reader[p].at = "reading" /\ procs[p].out = <<>> /\ procs[p].life = "dead"
    /\ reader' = [reader EXCEPT ![p].at = "over"]
    /\ IF p = session[r].generation
       THEN /\ session' = [session EXCEPT ![r].streamEnded = TRUE, ![r].current = Nobody]
            /\ pidFile' = Nobody
       ELSE UNCHANGED <<session, pidFile>>
    /\ UNCHANGED <<procs, stops, cached, run, shown, ended, aux>>

-----------------------------------------------------------------------------
(* A turn.                                                                 *)

(* getRunner, which kills the process the file names (killOrphan) when it  *)
(* makes a runner, and run(): a process of another session is stopped      *)
(* first, and awaited.                                                     *)
RunStarts(otherSession) ==
    LET orphan == IF session[cached].created THEN Nobody ELSE pidFile IN
    /\ run.pc = "none" /\ run.turn < MaxTurns
    /\ IF IsRunning(cached) /\ otherSession
       THEN /\ run' = [run EXCEPT !.pc = "recycling", !.turn = @ + 1, !.runner = cached, !.watched = FALSE]
            /\ BeginsGracefulStop(cached, "recycle")
       ELSE /\ run' = [run EXCEPT !.pc = "starting", !.turn = @ + 1, !.runner = cached, !.watched = FALSE]
            /\ session' = [session EXCEPT ![cached].created = TRUE]
            /\ procs' = IF orphan # Nobody /\ Alive(orphan) /\ procs[orphan].signal = "none"
                        THEN [procs EXCEPT ![orphan].signal = "term"] ELSE procs
            /\ pidFile' = IF session[cached].created THEN pidFile ELSE Nobody
            /\ UNCHANGED stops
    /\ UNCHANGED <<reader, cached, shown, ended, aux>>

(* doStartProcess: the session of a process just spawned.                  *)
SpawnedSession(s, p) ==
    [s EXCEPT !.current = p, !.generation = p, !.streamEnded = FALSE, !.sawInit = FALSE, !.queue = <<>>,
              !.stoppedByUser = FALSE, !.pending = {}, !.autoApprove = FALSE, !.idle = FALSE]

(* startProcess and writeUserMessage: the message goes to the process that *)
(* runs, or to a new one; what was queued between turns is dropped.        *)
RunSends(resumes) ==
    LET r == run.runner
        p == CHOOSE n \in Proc : procs[n].life = "new" /\ \A m \in Proc : procs[m].life = "new" => n <= m
    IN  /\ run.pc = "starting"
        /\ run' = [run EXCEPT !.pc = "consuming"]
        /\ IF IsRunning(r)
           THEN /\ procs' = [procs EXCEPT ![session[r].current].inbox = Append(@, run.turn)]
                /\ session' = [session EXCEPT ![r].queue = <<>>, ![r].stoppedByUser = FALSE, ![r].idle = FALSE]
                /\ UNCHANGED <<reader, pidFile>>
           ELSE /\ \E n \in Proc : procs[n].life = "new"
                /\ \A n \in Proc : Alive(n) => procs[n].signal # "kill"
                /\ procs' = [procs EXCEPT ![p] = [NewProc EXCEPT !.runner = r, !.life = "alive",
                                                                 !.resumes = resumes, !.inbox = <<run.turn>>]]
                /\ session' = [session EXCEPT ![r] = SpawnedSession(@, p)]
                /\ reader' = [reader EXCEPT ![p].at = "reading"]
                /\ pidFile' = p
        /\ UNCHANGED <<stops, cached, shown, ended, aux>>

(* The turn is over; the idle timer is armed.                              *)
TurnOver(how, turn, ss) ==
    /\ ended' = [ended EXCEPT ![run.turn] = [how |-> how, turn |-> turn]]
    /\ run' = [run EXCEPT !.pc = "none"]
    /\ session' = [ss EXCEPT ![run.runner].idle = TRUE]
    /\ shown' = {}

(* The process could not be spawned; the turn tells the error.             *)
SpawnFails ==
    /\ run.pc = "starting" /\ ~ IsRunning(run.runner)
    /\ TurnOver("spawn error", run.turn,
                [session EXCEPT ![run.runner].streamEnded = FALSE, ![run.runner].current = Nobody,
                                ![run.runner].autoApprove = FALSE, ![run.runner].pending = {}])
    /\ UNCHANGED <<procs, reader, stops, pidFile, cached, aux>>

(* consumeTurn takes the next event; the result ends the turn.             *)
RunTakes ==
    LET r == run.runner
        ev == Head(session[r].queue)
        rest == [session EXCEPT ![r].queue = Tail(@)]
    IN  /\ run.pc = "consuming" /\ session[r].queue # <<>>
        /\ IF ev.type = "result" THEN TurnOver("result", ev.turn, rest)
           ELSE /\ session' = rest
                /\ shown' = IF run.turn \in stopped THEN shown ELSE shown \cup {ev.id}
                /\ UNCHANGED <<run, ended>>
        /\ UNCHANGED <<procs, reader, stops, pidFile, cached, aux>>

(* The stream ended without a result: interrupted if stopped, or an error. *)
RunSeesEnd ==
    /\ run.pc = "consuming" /\ session[run.runner].queue = <<>> /\ session[run.runner].streamEnded
    /\ TurnOver(IF session[run.runner].stoppedByUser THEN "interrupted" ELSE "error", run.turn, session)
    /\ UNCHANGED <<procs, reader, stops, pidFile, cached, aux>>

(* The bridge leaves the loop over the events: the process is killed.      *)
RunBreaksOff ==
    LET r == run.runner IN
    /\ run.pc = "consuming" /\ run.turn \notin stopped
    /\ ended' = [ended EXCEPT ![run.turn] = [how |-> "broken off", turn |-> run.turn]]
    /\ run' = [run EXCEPT !.pc = "none"]
    /\ shown' = {}
    /\ procs' = IF IsRunning(r) THEN Signalled(r, "kill") ELSE procs
    /\ session' = [session EXCEPT ![r].stoppedByUser = @ \/ IsRunning(r), ![r].current = Nobody, ![r].idle = TRUE]
    /\ pidFile' = IF IsRunning(r) THEN Nobody ELSE pidFile
    /\ UNCHANGED <<reader, stops, cached, aux>>

-----------------------------------------------------------------------------
(* Answers.                                                                *)

(* respondPermission: an answer to a request the session remembers goes to *)
(* the process; accept_all grants the rest of its requests first.          *)
Respond(q, all) ==
    LET r == run.runner
        s == session[r]
        p == s.current
    IN  /\ shown' = shown \ {q}
        /\ session' = [session EXCEPT ![r].autoApprove = @ \/ all,
                                      ![r].pending = IF IsRunning(r) THEN @ \ {q} ELSE @]
        /\ procs' = IF IsRunning(r) /\ q \in s.pending /\ procs[p].waits = q
                    THEN [procs EXCEPT ![p].waits = Nothing] ELSE procs
        /\ UNCHANGED <<reader, stops, pidFile, cached, run, asked, stopped, ended>>

(* An approval that expired is denied, and the process is killed.          *)
Cancel(q) ==
    /\ shown' = shown \ {q}
    /\ StopsAtOnce(run.runner)
    /\ UNCHANGED <<reader, stops, cached, run, ended, aux>>

-----------------------------------------------------------------------------
Process == \E p \in Proc : ClaudeReads(p) \/ ClaudeFinishes(p) \/ ClaudeExits(p)
                           \/ \E type \in {"ask", "plan"} : ClaudeAsks(p, type)
Reads == \E p \in Proc : ReaderTakes(p) \/ ReaderTranslated(p) \/ ReaderEnds(p)
Runs == RunTakes \/ RunSeesEnd \/ SpawnFails \/ \E flag \in BOOLEAN : RunSends(flag) \/ RunStarts(flag)
Answers == \E q \in shown : Cancel(q) \/ \E all \in BOOLEAN : Respond(q, all)

Next ==
    \/ Process \/ Reads \/ Runs \/ Answers \/ UserStops \/ Dispose \/ WatchdogFires \/ RunBreaksOff
    \/ \E s \in stops : GraceIsOver(s)
    \/ \E r \in Runner : IdleTimerFires(r)

(* The program runs; an approval is answered or expires; a process gets on *)
(* with its turn, and one that was signalled exits.                        *)
Fairness ==
    /\ WF_vars(Reads) /\ WF_vars(RunTakes \/ RunSeesEnd) /\ WF_vars(Answers)
    /\ WF_vars(WatchdogFires)
    /\ WF_vars(SpawnFails \/ \E flag \in BOOLEAN : RunSends(flag))
    /\ \A p \in Proc : WF_vars(ClaudeReads(p)) /\ WF_vars(ClaudeFinishes(p))
    /\ \A p \in Proc : WF_vars(procs[p].signal # "none" /\ ClaudeExits(p))

Spec == Init /\ [][Next]_vars /\ Fairness

-----------------------------------------------------------------------------
(* A turn that ends with a result ends with its own: not with one replayed *)
(* by a resumed session, left in the queue by a turn that broke off, or    *)
(* said by the process of an earlier turn.                                 *)
TurnEndsWithItsOwnResult == \A t \in Turn : ended[t].how = "result" => ended[t].turn = t

(* No process is lost: one that nobody signalled is the process of its     *)
(* session, which somebody will stop - the turn it is in, the idle timer,  *)
(* or whoever disposes of the runner in the slot.                          *)
NoStrayProcess ==
    \A p \in Proc : Alive(p) /\ procs[p].signal = "none" =>
        LET r == procs[p].runner IN
        /\ session[r].current = p
        /\ r = cached \/ TurnActive(r) \/ session[r].idle

(* Every turn ends, whoever stops the process and whenever.                *)
EveryTurnEnds == \A t \in Turn : (run.pc # "none" /\ run.turn = t) ~> (ended[t].how # "open")

(* While a process runs, the pid file names it.                            *)
LiveProcessIsRecorded ==
    \A r \in Runner : IsRunning(r) /\ procs[session[r].current].signal = "none" => pidFile = session[r].current
=============================================================================
