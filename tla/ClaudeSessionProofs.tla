------------------------- MODULE ClaudeSessionProofs -------------------------
(***************************************************************************)
(* Proofs about ClaudeSession, for any number of turns, processes, runners *)
(* and requests: a turn that ends with a result ends with its own, and no  *)
(* process is lost.                                                        *)
(***************************************************************************)
EXTENDS ClaudeSession, SequenceTheorems, WellFoundedInduction, TLAPS

USE DEF Nobody, Nothing

(* What a process can say; what of it is queued for a turn.                *)
Said == {Event("init", 0)} \cup {Event("result", t) : t \in Turn \cup {0}}
        \cup {Ask(type, t, id) : type \in {"ask", "plan"}, t \in Turn, id \in 1 .. MaxAsks}
ToTell == Said \ {Event("init", 0)}

ProcState == [runner : Runner \cup {Nobody}, life : {"new", "alive", "dead"}, signal : {"none", "term", "kill"},
              resumes : BOOLEAN, spoke : BOOLEAN, inbox : Seq(Turn), turn : Turn \cup {0},
              waits : 0 .. MaxAsks, out : Seq(Said)]
SessionState == [current : Proc \cup {Nobody}, generation : Proc \cup {Nobody}, streamEnded : BOOLEAN,
                 sawInit : BOOLEAN, queue : Seq(ToTell), stoppedByUser : BOOLEAN,
                 pending : SUBSET (1 .. MaxAsks), autoApprove : BOOLEAN, idle : BOOLEAN, created : BOOLEAN]
RunRecord == [pc : {"none", "recycling", "starting", "consuming"}, turn : Turn \cup {0}, runner : Runner,
              watched : BOOLEAN, evict : BOOLEAN]
StopRecord == [proc : Proc, by : {"idle", "recycle", "watchdog", "dispose"}]
ReaderState == [at : {"none", "reading", "translating", "over"}, ev : Said \cup {Event("none", 0)}]
PlanAsk == {Ask("plan", t, id) : t \in Turn, id \in 1 .. MaxAsks}
End == [how : {"open", "result", "error", "interrupted", "spawn error", "broken off"}, turn : Turn \cup {0}]

(* Every variable has the values it may have; a plan is translated, and a  *)
(* turn that is under way is one of the turns.                             *)
ClaudeTypes ==
    /\ procs \in [Proc -> ProcState]
    /\ reader \in [Proc -> ReaderState]
    /\ session \in [Runner -> SessionState]
    /\ stops \subseteq StopRecord
    /\ pidFile \in Proc \cup {Nobody}
    /\ cached \in Runner
    /\ run \in RunRecord
    /\ shown \subseteq 1 .. MaxAsks
    /\ asked \in 0 .. MaxAsks
    /\ stopped \subseteq Turn
    /\ ended \in [Turn -> End]
    /\ \A p \in Proc : reader[p].at = "translating" => reader[p].ev \in PlanAsk
    /\ run.pc # "none" => run.turn \in Turn

(* A runner has one process at most that is alive, and its session holds   *)
(* it until it is killed; what the session holds is the newest       *)
(* process it spawned, and nothing once the stream of that one is over.    *)
SessionHoldsProcess ==
    /\ \A p \in Proc : IF procs[p].life = "new" THEN procs[p].out = <<>> ELSE procs[p].runner \in Runner
    /\ \A p, q \in Proc : Alive(p) /\ Alive(q) /\ procs[p].runner = procs[q].runner => p = q
    /\ \A p \in Proc : Alive(p) => (procs[p].signal # "kill" <=> session[procs[p].runner].current = p)
    /\ \A r \in Runner :
        /\ session[r].current \in {Nobody, session[r].generation}
        /\ session[r].streamEnded => session[r].current = Nobody
        /\ session[r].generation # Nobody =>
              /\ procs[session[r].generation].life # "new"
              /\ procs[session[r].generation].runner = r

(* A graceful stop awaits a process that is alive and was signalled; one   *)
(* of them at most is of a turn, which waits for it.                       *)
StopsAwait ==
    /\ \A s \in stops : Alive(s.proc) /\ procs[s.proc].signal # "none"
    /\ \A s \in stops : s.by = "recycle" => run.pc = "recycling"
    /\ \A s, z \in stops : s.by = "recycle" /\ z.by = "recycle" => s = z

NoResult(s) == \A i \in DOMAIN s : s[i].type # "result"
NoResultOf(s, t) == \A i \in DOMAIN s : s[i].type = "result" => s[i].turn # t

(* Turn t, sent to process P of session S, is in one place at most: the    *)
(* inbox, the process, what it said, or the queue.  Nothing else that      *)
(* looks like a result is there but what a resumed session replays, which  *)
(* comes first and before the init.                                        *)
Carries(P, S, t) ==
    /\ P.inbox # <<>> => P.inbox = <<t>> /\ P.turn = 0 /\ NoResultOf(P.out, t) /\ NoResult(S.queue)
    /\ P.turn # 0 => P.turn = t /\ NoResultOf(P.out, t) /\ NoResult(S.queue)
    /\ \A i, j \in DOMAIN P.out :
          P.out[i].type = "result" /\ P.out[i].turn = t /\ P.out[j].type = "result" /\ P.out[j].turn = t => i = j
    /\ \A i \in DOMAIN P.out : P.out[i].type = "result" /\ P.out[i].turn # t =>
          i = 1 /\ Len(P.out) >= 2 /\ P.out[2].type = "init" /\ ~ S.sawInit
    /\ \A i \in DOMAIN S.queue : S.queue[i].type = "result" =>
          S.queue[i].turn = t /\ S.sawInit /\ NoResult(P.out)

(* A process that is in no turn has nothing of one.                        *)
Clean(P) == P.inbox = <<>> /\ P.turn = 0 /\ NoResult(P.out)

(* A process that said nothing yet has no init behind it; the newest       *)
(* process of the session in the turn carries it; every other process that *)
(* a turn could use is clean.                                              *)
ResultsHaveTheirTurn ==
    /\ \A p \in Proc : Alive(p) /\ ~ procs[p].spoke => procs[p].out = <<>> /\ procs[p].turn = 0
    /\ \A r \in Runner : LET g == session[r].generation IN
          g # Nobody /\ procs[g].life = "alive" /\ session[r].sawInit => procs[g].spoke
    /\ \A r \in Runner : LET g == session[r].generation IN
          run.pc = "consuming" /\ run.runner = r => g # Nobody /\ Carries(procs[g], session[r], run.turn)
    /\ \A r \in Runner :
          ~ (run.pc = "consuming" /\ run.runner = r) /\ IsRunning(r) => Clean(procs[session[r].current])

ClaudeInv ==
    ClaudeTypes /\ SessionHoldsProcess /\ StopsAwait /\ NoStrayProcess /\ ResultsHaveTheirTurn
    /\ TurnEndsWithItsOwnResult

-----------------------------------------------------------------------------
(* Operators                                                               *)

LEMMA NumbersApart ==
    /\ 0 \notin Turn /\ 0 \notin Proc /\ 0 \notin Runner
    /\ Turn \subseteq Nat /\ Proc \subseteq Nat /\ Runner \subseteq Nat /\ 1 \in Runner
    /\ 0 \in 0 .. MaxAsks
  BY ClaudeSessionAssumption DEF Turn, Proc, Runner

LEMMA Typed ==
    ClaudeTypes =>
        /\ procs \in [Proc -> ProcState] /\ session \in [Runner -> SessionState] /\ run \in RunRecord
        /\ \A p \in Proc : procs[p] \in ProcState
        /\ \A r \in Runner : session[r] \in SessionState
        /\ run.runner \in Runner
<1>. SUFFICES ASSUME ClaudeTypes
             PROVE  /\ procs \in [Proc -> ProcState] /\ session \in [Runner -> SessionState] /\ run \in RunRecord
                    /\ \A p \in Proc : procs[p] \in ProcState
                    /\ \A r \in Runner : session[r] \in SessionState
                    /\ run.runner \in Runner
  OBVIOUS
<1>1. procs \in [Proc -> ProcState] /\ session \in [Runner -> SessionState] /\ run \in RunRecord
  BY DEF ClaudeTypes
<1>2. run.runner \in Runner
  BY <1>1 DEF RunRecord
<1>. QED BY <1>1, <1>2

LEMMA WhatIsSaid ==
    ASSUME NEW e \in Said
    PROVE  /\ e.type \in {"init", "result", "ask", "plan"}
           /\ e.type = "init" => e \notin ToTell
           /\ e.type # "init" => e \in ToTell
           /\ e.type = "result" => e.turn \in Turn \cup {0}
           /\ e.type \in {"ask", "plan"} => e.id \in 1 .. MaxAsks
           /\ e.type = "plan" => e \in PlanAsk
  BY DEF Said, PlanAsk, ToTell, Event, Ask

LEMMA SaidHas ==
    /\ Event("init", 0) \in Said
    /\ \A t \in Turn \cup {0} : Event("result", t) \in Said
    /\ \A type \in {"ask", "plan"}, t \in Turn, id \in 1 .. MaxAsks : Ask(type, t, id) \in Said
  BY DEF Said

LEMMA ClaudeInvInit == Init => ClaudeInv
<1>. SUFFICES ASSUME Init PROVE ClaudeInv
  OBVIOUS
<1>. USE DEF Init
<1>1. NewProc \in ProcState /\ NewProc.life = "new" /\ NewProc.out = <<>>
  <2>1. <<>> \in Seq(Turn) /\ <<>> \in Seq(Said)
    BY EmptySeq
  <2>. QED BY <2>1, NumbersApart DEF NewProc, ProcState
<1>2. NewSession \in SessionState /\ NewSession.current = 0 /\ NewSession.generation = 0
      /\ NewSession.streamEnded = FALSE
  BY EmptySeq DEF NewSession, SessionState
<1>3. NoRun \in RunRecord /\ NoRun.pc = "none" /\ Open \in End /\ Open.how = "open"
  BY NumbersApart DEF NoRun, RunRecord, Open, End
<1>4. \A p \in Proc : ~ Alive(p)
  BY <1>1 DEF Alive
<1>5. \A r \in Runner : ~ IsRunning(r)
  BY <1>2 DEF IsRunning, Alive
<1>6. ClaudeTypes
  BY <1>1, <1>2, <1>3, NumbersApart DEF ClaudeTypes, Event, ReaderState
<1>7. SessionHoldsProcess /\ StopsAwait /\ NoStrayProcess
  BY <1>1, <1>2, <1>4 DEF SessionHoldsProcess, StopsAwait, NoStrayProcess
<1>8. ResultsHaveTheirTurn
  BY <1>2, <1>3, <1>4, <1>5 DEF ResultsHaveTheirTurn
<1>9. TurnEndsWithItsOwnResult
  BY <1>3 DEF TurnEndsWithItsOwnResult
<1>. QED BY <1>6, <1>7, <1>8, <1>9 DEF ClaudeInv

-----------------------------------------------------------------------------
(* Steps that only stop                                                    *)

(* A step that says and queues nothing and spawns nobody: a process that   *)
(* goes leaves what it said, and a session lets go only of a process that  *)
(* is gone or killed.                                                      *)
Stopping ==
    /\ \A p \in Proc :
        /\ procs'[p].runner = procs[p].runner /\ procs'[p].out = procs[p].out
        /\ procs'[p].life # procs[p].life => procs[p].life = "alive" /\ procs'[p].life = "dead"
        /\ procs'[p].life = "alive" =>
              /\ procs'[p].spoke = procs[p].spoke
              /\ procs'[p].signal # "kill" => procs[p].signal # "kill"
              /\ procs'[p].signal = "none" => procs[p].signal = "none"
        /\ procs'[p].inbox \in {procs[p].inbox, <<>>}
        /\ procs'[p].turn \in {procs[p].turn, 0}
    /\ \A r \in Runner :
        /\ session'[r].generation = session[r].generation
        /\ session'[r].queue = session[r].queue
        /\ session'[r].sawInit = session[r].sawInit
        /\ session'[r].current \in {session[r].current, Nobody}
        /\ session'[r].streamEnded = session[r].streamEnded \/ session'[r].current = Nobody
    /\ \A p \in Proc : procs'[p].life = "alive" =>
          IF procs'[p].signal = "kill" THEN session'[procs[p].runner].current # p
          ELSE session'[procs[p].runner].current = session[procs[p].runner].current

LEMMA StoppingHolds ==
    ASSUME ClaudeTypes, SessionHoldsProcess, Stopping
    PROVE  SessionHoldsProcess'
<1>1. \A p \in Proc : Alive(p)' => Alive(p)
  BY DEF Stopping, Alive
<1>2. (\A p \in Proc : IF procs[p].life = "new" THEN procs[p].out = <<>> ELSE procs[p].runner \in Runner)'
  BY DEF Stopping, SessionHoldsProcess
<1>3. (\A p, q \in Proc : Alive(p) /\ Alive(q) /\ procs[p].runner = procs[q].runner => p = q)'
  BY <1>1 DEF Stopping, SessionHoldsProcess
<1>4. (\A p \in Proc : Alive(p) => (procs[p].signal # "kill" <=> session[procs[p].runner].current = p))'
  BY <1>1 DEF Stopping, SessionHoldsProcess, Alive
<1>5. ASSUME NEW r \in Runner
      PROVE  /\ session'[r].current \in {Nobody, session'[r].generation}
             /\ session'[r].streamEnded => session'[r].current = Nobody
             /\ session'[r].generation # Nobody =>
                   /\ procs'[session'[r].generation].life # "new"
                   /\ procs'[session'[r].generation].runner = r
  <2>1. session[r] \in SessionState
    BY Typed
  <2>2. session[r].generation # Nobody => session[r].generation \in Proc
    BY <2>1 DEF SessionState
  <2>. QED BY <2>2 DEF Stopping, SessionHoldsProcess
<1>. QED BY <1>2, <1>3, <1>4, <1>5 DEF SessionHoldsProcess

LEMMA StoppingKeepsResults ==
    ASSUME ClaudeTypes, ClaudeTypes', SessionHoldsProcess, ResultsHaveTheirTurn, Stopping,
           run'.pc = "consuming" => run.pc = "consuming" /\ run'.runner = run.runner /\ run'.turn = run.turn,
           run.pc = "consuming" /\ run'.pc # "consuming" => session'[run.runner].current = Nobody
    PROVE  ResultsHaveTheirTurn'
<1>1. \A p \in Proc : Alive(p)' => Alive(p)
  BY DEF Stopping, Alive
<1>2. (\A p \in Proc : Alive(p) /\ ~ procs[p].spoke => procs[p].out = <<>> /\ procs[p].turn = 0)'
  BY <1>1 DEF Stopping, ResultsHaveTheirTurn, Alive
<1>3. ASSUME NEW r \in Runner
      PROVE  LET g == session'[r].generation IN
             /\ g # Nobody /\ procs'[g].life = "alive" /\ session'[r].sawInit => procs'[g].spoke
             /\ run'.pc = "consuming" /\ run'.runner = r =>
                   g # Nobody /\ Carries(procs'[g], session'[r], run'.turn)
             /\ ~ (run'.pc = "consuming" /\ run'.runner = r) /\ IsRunning(r)' =>
                   Clean(procs'[session'[r].current])
  <2>. DEFINE g == session[r].generation
  <2>0. session[r] \in SessionState
    BY Typed
  <2>1. session'[r].generation = g
    BY DEF Stopping
  <2>2. g # Nobody => g \in Proc
    BY <2>0 DEF SessionState
  <2>3. g # Nobody /\ procs'[g].life = "alive" /\ session'[r].sawInit => procs'[g].spoke
    BY <2>2 DEF Stopping, ResultsHaveTheirTurn
  <2>4. ASSUME run'.pc = "consuming", run'.runner = r
        PROVE  g # Nobody /\ Carries(procs'[g], session'[r], run'.turn)
    <3>1. g # Nobody /\ Carries(procs[g], session[r], run.turn)
      BY <2>4 DEF ResultsHaveTheirTurn
    <3>2. /\ procs'[g].out = procs[g].out /\ procs'[g].inbox \in {procs[g].inbox, <<>>}
          /\ procs'[g].turn \in {procs[g].turn, 0}
          /\ session'[r].queue = session[r].queue /\ session'[r].sawInit = session[r].sawInit
          /\ run'.turn = run.turn
      BY <2>2, <2>4, <3>1 DEF Stopping
    <3>. QED BY <3>1, <3>2 DEF Carries
  <2>5. ASSUME ~ (run'.pc = "consuming" /\ run'.runner = r), IsRunning(r)'
        PROVE  Clean(procs'[session'[r].current])
    <3>1. session'[r].current = g /\ session[r].current = g /\ g # Nobody /\ procs'[g].life = "alive"
      BY <2>5 DEF IsRunning, Alive, Stopping, SessionHoldsProcess
    <3>2. ~ (run.pc = "consuming" /\ run.runner = r) /\ IsRunning(r)
      BY <2>2, <2>5, <3>1 DEF IsRunning, Alive, Stopping
    <3>3. Clean(procs[g])
      BY <3>1, <3>2 DEF ResultsHaveTheirTurn
    <3>. QED BY <2>2, <3>1, <3>3 DEF Clean, Stopping
  <2>. QED BY <2>1, <2>3, <2>4, <2>5
<1>. QED BY <1>2, <1>3 DEF ResultsHaveTheirTurn

LEMMA CurrentProcess ==
    ASSUME ClaudeTypes, SessionHoldsProcess, NEW r \in Runner, IsRunning(r)
    PROVE  LET c == session[r].current IN
           /\ c \in Proc /\ Alive(c) /\ procs[c] \in ProcState /\ procs[c].runner = r
           /\ procs[c].signal # "kill" /\ session[r].generation = c
<1>1. session[r] \in SessionState
  BY Typed
<1>2. session[r].current \in Proc /\ Alive(session[r].current)
  BY <1>1 DEF IsRunning, Alive, SessionState
<1>3. procs[session[r].current] \in ProcState
  BY <1>2, Typed
<1>4. session[r].generation = session[r].current
  BY <1>2, NumbersApart DEF SessionHoldsProcess
<1>5. procs[session[r].current].runner = r
  BY <1>2, <1>4, NumbersApart DEF SessionHoldsProcess
<1>. QED BY <1>2, <1>3, <1>4, <1>5 DEF SessionHoldsProcess

\* Signals change nothing else of a process.
LEMMA SignalledFields ==
    ASSUME ClaudeTypes, NEW c \in Proc, NEW signal \in {"none", "term", "kill"},
           procs' = [procs EXCEPT ![c].signal = signal]
    PROVE  /\ procs' \in [Proc -> ProcState]
           /\ procs'[c].signal = signal
           /\ \A p \in Proc : p # c => procs'[p] = procs[p]
           /\ \A p \in Proc : /\ procs'[p].runner = procs[p].runner /\ procs'[p].out = procs[p].out
                              /\ procs'[p].life = procs[p].life /\ procs'[p].spoke = procs[p].spoke
                              /\ procs'[p].inbox = procs[p].inbox /\ procs'[p].turn = procs[p].turn
                              /\ p # c => procs'[p].signal = procs[p].signal
<1>1. procs \in [Proc -> ProcState] /\ procs[c] \in ProcState
  BY Typed
<1>. DEFINE Q == [procs[c] EXCEPT !.signal = signal]
<1>2. /\ Q \in ProcState /\ Q.signal = signal /\ Q.runner = procs[c].runner /\ Q.out = procs[c].out
      /\ Q.life = procs[c].life /\ Q.spoke = procs[c].spoke
      /\ Q.inbox = procs[c].inbox /\ Q.turn = procs[c].turn
  BY <1>1 DEF ProcState
<1>3. procs' = [procs EXCEPT ![c] = Q]
  BY <1>1
<1>. HIDE DEF Q
<1>4. procs' \in [Proc -> ProcState] /\ procs'[c] = Q /\ \A p \in Proc : p # c => procs'[p] = procs[p]
  BY <1>1, <1>2, <1>3
<1>. QED BY <1>2, <1>4

\* What a stop changes of a session.
LEMMA SessionFields ==
    ASSUME ClaudeTypes, NEW r \in Runner, NEW current \in {session[r].current, Nobody},
           NEW byUser \in BOOLEAN, NEW idle \in BOOLEAN,
           session' = [session EXCEPT ![r].stoppedByUser = byUser, ![r].current = current, ![r].idle = idle]
    PROVE  /\ session' \in [Runner -> SessionState]
           /\ \A x \in Runner : x # r => session'[x] = session[x]
           /\ session'[r].current = current /\ session'[r].idle = idle
           /\ \A x \in Runner :
                /\ session'[x].generation = session[x].generation /\ session'[x].queue = session[x].queue
                /\ session'[x].sawInit = session[x].sawInit /\ session'[x].streamEnded = session[x].streamEnded
<1>1. session \in [Runner -> SessionState] /\ session[r] \in SessionState
  BY Typed
<1>. DEFINE T == [session[r] EXCEPT !.stoppedByUser = byUser, !.current = current, !.idle = idle]
<1>2. /\ T \in SessionState /\ T.current = current /\ T.idle = idle
      /\ T.generation = session[r].generation /\ T.queue = session[r].queue
      /\ T.sawInit = session[r].sawInit /\ T.streamEnded = session[r].streamEnded
  BY <1>1 DEF SessionState
<1>3. session' = [session EXCEPT ![r] = T]
  BY <1>1
<1>. HIDE DEF T
<1>4. session' \in [Runner -> SessionState] /\ session'[r] = T /\ \A x \in Runner : x # r => session'[x] = session[x]
  BY <1>1, <1>2, <1>3
<1>. QED BY <1>2, <1>4

(* A stop of runner r: its process, if it has one, is signalled, and of the *)
(* other runners nothing changes.                                          *)
StopsRunner(r) ==
    /\ Stopping
    /\ procs' \in [Proc -> ProcState] /\ session' \in [Runner -> SessionState]
    /\ pidFile' \in Proc \cup {Nobody}
    /\ \A p \in Proc :
        /\ procs'[p].life = procs[p].life
        /\ procs[p].signal # "none" => procs'[p].signal # "none"
        /\ procs'[p].life = "alive" /\ procs'[p].signal = "none" => procs[p].runner # r
    /\ \A x \in Runner : x # r => session'[x].idle = session[x].idle

AddsStop(by) ==
    \/ stops' = stops
    \/ \E s \in [proc : Proc, by : {by}] :
          /\ stops' = stops \cup {s}
          /\ procs'[s.proc].life = "alive" /\ procs'[s.proc].signal # "none"

LEMMA BeginsStopping ==
    ASSUME ClaudeTypes, SessionHoldsProcess, NEW r \in Runner, IsRunning(r),
           NEW by \in {"idle", "recycle", "watchdog", "dispose"}, BeginsGracefulStop(r, by)
    PROVE  StopsRunner(r) /\ AddsStop(by)
<1>. DEFINE c == session[r].current
            s == [proc |-> c, by |-> by]
<1>1. /\ c \in Proc /\ Alive(c) /\ procs[c].runner = r /\ procs[c].signal # "kill"
  BY CurrentProcess
<1>2. /\ procs' = [procs EXCEPT ![c].signal = "term"]
      /\ session' = [session EXCEPT ![r].stoppedByUser = TRUE, ![r].idle = FALSE]
      /\ stops' = stops \cup {s} /\ pidFile' = pidFile
  BY DEF BeginsGracefulStop, Signalled
<1>. HIDE DEF c
<1>3. /\ procs' \in [Proc -> ProcState]
      /\ \A p \in Proc : /\ procs'[p].runner = procs[p].runner /\ procs'[p].out = procs[p].out
                         /\ procs'[p].life = procs[p].life /\ procs'[p].spoke = procs[p].spoke
                         /\ procs'[p].inbox = procs[p].inbox /\ procs'[p].turn = procs[p].turn
                         /\ p # c => procs'[p].signal = procs[p].signal
      /\ procs'[c].signal = "term"
  BY <1>1, <1>2, SignalledFields
<1>4. session' = [session EXCEPT ![r].stoppedByUser = TRUE, ![r].current = session[r].current, ![r].idle = FALSE]
  BY <1>2, Typed DEF SessionState
<1>5. /\ session' \in [Runner -> SessionState]
      /\ \A x \in Runner :
            /\ session'[x].generation = session[x].generation
            /\ session'[x].queue = session[x].queue
            /\ session'[x].sawInit = session[x].sawInit
            /\ session'[x].current = session[x].current
            /\ session'[x].streamEnded = session[x].streamEnded
            /\ x # r => session'[x].idle = session[x].idle
  BY <1>4, SessionFields
<1>7. Stopping
  <2>1. ASSUME NEW p \in Proc, procs'[p].life = "alive"
        PROVE  IF procs'[p].signal = "kill" THEN session'[procs[p].runner].current # p
               ELSE session'[procs[p].runner].current = session[procs[p].runner].current
    <3>1. Alive(p) /\ procs[p].runner \in Runner
      BY <1>3, <2>1, NumbersApart DEF Alive, SessionHoldsProcess
    <3>2. procs'[p].signal = "kill" => procs[p].signal = "kill"
      BY <1>3
    <3>3. session'[procs[p].runner].current = session[procs[p].runner].current
      BY <1>5, <3>1
    <3>4. procs[p].signal = "kill" => session[procs[p].runner].current # p
      BY <3>1 DEF SessionHoldsProcess
    <3>. QED BY <3>2, <3>3, <3>4
  <2>. QED BY <1>1, <1>3, <1>5, <2>1 DEF Stopping
<1>9. ASSUME NEW p \in Proc, procs'[p].life = "alive", procs'[p].signal = "none" PROVE procs[p].runner # r
  BY <1>1, <1>3, <1>9, NumbersApart DEF SessionHoldsProcess, Alive
<1>10. s \in [proc : Proc, by : {by}] /\ procs'[s.proc].life = "alive" /\ procs'[s.proc].signal # "none"
  <2>1. s.proc = c /\ s \in [proc : Proc, by : {by}]
    BY <1>1
  <2>2. procs'[c].life = "alive" /\ procs'[c].signal # "none"
    BY <1>1, <1>3 DEF Alive
  <2>. QED BY <2>1, <2>2
<1>11. AddsStop(by)
  <2>. HIDE DEF s
  <2>. QED BY <1>2, <1>10 DEF AddsStop
<1>12. \A p \in Proc : procs[p].signal # "none" => procs'[p].signal # "none"
  BY <1>3
<1>13. pidFile' \in Proc \cup {Nobody}
  BY <1>2 DEF ClaudeTypes
<1>. QED BY <1>3, <1>5, <1>7, <1>9, <1>11, <1>12, <1>13 DEF StopsRunner

\* A runner that has no process running lets go of the one it had.
LEMMA LetsGo ==
    ASSUME ClaudeTypes, SessionHoldsProcess, NEW r \in Runner, ~ IsRunning(r),
           procs' = procs, pidFile' \in Proc \cup {Nobody},
           session' \in [Runner -> SessionState],
           \A x \in Runner : x # r => session'[x] = session[x],
           session'[r].generation = session[r].generation, session'[r].queue = session[r].queue,
           session'[r].sawInit = session[r].sawInit, session'[r].current = Nobody
    PROVE  StopsRunner(r)
<1>1. ASSUME NEW p \in Proc, procs[p].life = "alive"
      PROVE  /\ procs[p].runner = r => procs[p].signal = "kill"
             /\ procs[p].runner \in Runner
             /\ IF procs[p].signal = "kill" THEN session'[procs[p].runner].current # p
                ELSE session'[procs[p].runner].current = session[procs[p].runner].current
  <2>1. Alive(p) /\ procs[p].runner \in Runner
    BY <1>1, NumbersApart DEF Alive, SessionHoldsProcess
  <2>2. procs[p].signal # "kill" <=> session[procs[p].runner].current = p
    BY <2>1 DEF SessionHoldsProcess
  <2>3. procs[p].runner = r => procs[p].signal = "kill"
    BY <2>1, <2>2 DEF IsRunning
  <2>4. p # Nobody
    BY NumbersApart
  <2>. QED BY <2>1, <2>2, <2>3, <2>4
<1>2. Stopping
  BY <1>1 DEF Stopping
<1>. QED BY <1>1, <1>2, Typed DEF StopsRunner

LEMMA ForgetsProcess ==
    ASSUME ClaudeTypes, SessionHoldsProcess, NEW r \in Runner, ~ IsRunning(r),
           session' = [session EXCEPT ![r].current = Nobody, ![r].idle = FALSE],
           UNCHANGED <<procs, pidFile>>
    PROVE  StopsRunner(r)
<1>1. session[r].stoppedByUser \in BOOLEAN
  BY Typed DEF SessionState
<1>2. session' = [session EXCEPT ![r].stoppedByUser = session[r].stoppedByUser, ![r].current = Nobody,
                                 ![r].idle = FALSE]
  BY Typed DEF SessionState
<1>3. /\ session' \in [Runner -> SessionState]
      /\ \A x \in Runner : x # r => session'[x] = session[x]
      /\ session'[r].current = Nobody
      /\ session'[r].generation = session[r].generation /\ session'[r].queue = session[r].queue
      /\ session'[r].sawInit = session[r].sawInit
  BY <1>1, <1>2, SessionFields
<1>4. pidFile' \in Proc \cup {Nobody}
  BY DEF ClaudeTypes
<1>. QED BY <1>3, <1>4, LetsGo

LEMMA KillStopping ==
    ASSUME ClaudeTypes, SessionHoldsProcess, NEW r \in Runner, IsRunning(r),
           NEW byUser \in BOOLEAN, NEW idle \in BOOLEAN,
           procs' = Signalled(r, "kill"), pidFile' = Nobody,
           session' = [session EXCEPT ![r].stoppedByUser = byUser, ![r].current = Nobody, ![r].idle = idle]
    PROVE  StopsRunner(r) /\ session'[r].current = Nobody /\ session'[r].idle = idle
<1>. DEFINE c == session[r].current
<1>1. /\ c \in Proc /\ Alive(c) /\ procs[c].runner = r /\ procs[c].signal # "kill"
  BY CurrentProcess
<1>2. procs' = [procs EXCEPT ![c].signal = "kill"]
  BY DEF Signalled
<1>. HIDE DEF c
<1>3. /\ procs' \in [Proc -> ProcState]
      /\ \A p \in Proc :
            /\ procs'[p].runner = procs[p].runner /\ procs'[p].out = procs[p].out
            /\ procs'[p].life = procs[p].life /\ procs'[p].spoke = procs[p].spoke
            /\ procs'[p].inbox = procs[p].inbox /\ procs'[p].turn = procs[p].turn
            /\ p # c => procs'[p].signal = procs[p].signal
      /\ procs'[c].signal = "kill"
  BY <1>1, <1>2, SignalledFields
<1>4. /\ session' \in [Runner -> SessionState]
      /\ \A x \in Runner : x # r => session'[x] = session[x]
      /\ session'[r].current = Nobody /\ session'[r].idle = idle
      /\ \A x \in Runner :
            /\ session'[x].generation = session[x].generation /\ session'[x].queue = session[x].queue
            /\ session'[x].sawInit = session[x].sawInit /\ session'[x].streamEnded = session[x].streamEnded
  BY SessionFields
<1>5. ASSUME NEW p \in Proc, procs'[p].life = "alive"
      PROVE  /\ procs[p].runner = r => p = c
             /\ IF procs'[p].signal = "kill" THEN session'[procs[p].runner].current # p
                ELSE session'[procs[p].runner].current = session[procs[p].runner].current
  <2>1. Alive(p) /\ procs[p].runner \in Runner
    BY <1>3, <1>5, NumbersApart DEF Alive, SessionHoldsProcess
  <2>2. procs[p].signal # "kill" <=> session[procs[p].runner].current = p
    BY <2>1 DEF SessionHoldsProcess
  <2>3. procs[p].runner = r => p = c
    BY <1>1, <2>1 DEF SessionHoldsProcess
  <2>4. p # Nobody
    BY NumbersApart
  <2>. QED BY <1>1, <1>3, <1>4, <2>1, <2>2, <2>3, <2>4
<1>6. Stopping
  BY <1>3, <1>4, <1>5 DEF Stopping
<1>7. \A p \in Proc : /\ procs[p].signal # "none" => procs'[p].signal # "none"
                      /\ procs'[p].life = "alive" /\ procs'[p].signal = "none" => procs[p].runner # r
  BY <1>3, <1>5
<1>. QED BY <1>3, <1>4, <1>6, <1>7 DEF StopsRunner

LEMMA StopsAtOnceStops ==
    ASSUME ClaudeTypes, SessionHoldsProcess, NEW r \in Runner, StopsAtOnce(r)
    PROVE  StopsRunner(r) /\ session'[r].current = Nobody
<1>1. CASE IsRunning(r)
  <2>1. /\ procs' = Signalled(r, "kill") /\ pidFile' = Nobody
        /\ session' = [session EXCEPT ![r].stoppedByUser = TRUE, ![r].current = Nobody, ![r].idle = FALSE]
    BY <1>1 DEF StopsAtOnce
  <2>. QED BY <1>1, <2>1, KillStopping
<1>2. CASE ~ IsRunning(r)
  <2>1. /\ session' = [session EXCEPT ![r].current = Nobody, ![r].idle = FALSE]
        /\ UNCHANGED <<procs, pidFile>>
    BY <1>2 DEF StopsAtOnce
  <2>2. session'[r].current = Nobody
    BY <2>1, Typed DEF SessionState
  <2>. QED BY <1>2, <2>1, <2>2, ForgetsProcess
<1>. QED BY <1>1, <1>2

LEMMA StopsGracefullyStops ==
    ASSUME ClaudeTypes, SessionHoldsProcess, NEW r \in Runner,
           NEW by \in {"idle", "recycle", "watchdog", "dispose"}, StopsGracefully(r, by)
    PROVE  StopsRunner(r) /\ AddsStop(by)
<1>1. CASE IsRunning(r)
  BY <1>1, BeginsStopping DEF StopsGracefully
<1>2. CASE ~ IsRunning(r)
  BY <1>2, ForgetsProcess DEF StopsGracefully, AddsStop
<1>. QED BY <1>1, <1>2

\* After a stop of r every process nobody signalled still has somebody to stop it.
LEMMA StopLosesNone ==
    ASSUME ClaudeTypes, SessionHoldsProcess, NoStrayProcess, NEW r \in Runner, StopsRunner(r),
           \A x \in Runner : x # r /\ (x = cached \/ TurnActive(x)) => x = cached' \/ TurnActive(x)'
    PROVE  NoStrayProcess'
<1>. SUFFICES ASSUME NEW p \in Proc, Alive(p)', procs'[p].signal = "none"
              PROVE  /\ session'[procs'[p].runner].current = p
                     /\ \/ procs'[p].runner = cached'
                        \/ run'.pc # "none" /\ run'.runner = procs'[p].runner
                        \/ session'[procs'[p].runner].idle
  BY DEF NoStrayProcess, TurnActive
<1>. DEFINE x == procs[p].runner
<1>1. procs'[p].life = "alive" /\ Alive(p) /\ procs'[p].runner = x /\ procs[p].signal = "none" /\ x # r
  BY NumbersApart DEF StopsRunner, Stopping, Alive
<1>2. x \in Runner
  BY <1>1 DEF SessionHoldsProcess, Alive
<1>3. session[x].current = p /\ (x = cached \/ TurnActive(x) \/ session[x].idle)
  BY <1>1 DEF NoStrayProcess
<1>4. session'[x].current = session[x].current /\ session'[x].idle = session[x].idle
  BY <1>1, <1>2 DEF StopsRunner, Stopping
<1>5. x = cached \/ TurnActive(x) => x = cached' \/ (run'.pc # "none" /\ run'.runner = x)
  <2>. HIDE DEF x
  <2>1. \A y \in Runner : y # r /\ (y = cached \/ TurnActive(y)) => y = cached' \/ (run'.pc # "none" /\ run'.runner = y)
    BY DEF TurnActive
  <2>. QED BY <1>1, <1>2, <2>1
<1>. HIDE DEF x
<1>. QED BY <1>1, <1>3, <1>4, <1>5

LEMMA StopAwaitsMore ==
    ASSUME ClaudeTypes, StopsAwait, NEW r \in Runner, StopsRunner(r),
           NEW by \in {"idle", "recycle", "watchdog", "dispose"}, AddsStop(by),
           run.pc = "recycling" => by # "recycle",
           run.pc = "recycling" \/ (by = "recycle" /\ stops' # stops) => run'.pc = "recycling"
    PROVE  StopsAwait' /\ stops' \subseteq StopRecord
<1>1. PICK T \in SUBSET [proc : Proc, by : {by}] :
         /\ stops' = stops \cup T
         /\ \A s, z \in T : s = z
         /\ \A s \in T : procs'[s.proc].life = "alive" /\ procs'[s.proc].signal # "none"
  <2>1. CASE stops' = stops
    <3>1. {} \in SUBSET [proc : Proc, by : {by}] /\ stops' = stops \cup {}
      BY <2>1
    <3>. QED BY <3>1
  <2>2. CASE stops' # stops
    <3>1. PICK s \in [proc : Proc, by : {by}] :
          /\ stops' = stops \cup {s}
          /\ procs'[s.proc].life = "alive" /\ procs'[s.proc].signal # "none"
      BY <2>2 DEF AddsStop
    <3>2. {s} \in SUBSET [proc : Proc, by : {by}] /\ \A y, z \in {s} : y = z
      OBVIOUS
    <3>3. \A y \in {s} : procs'[y.proc].life = "alive" /\ procs'[y.proc].signal # "none"
      BY <3>1
    <3>. QED BY <3>1, <3>2, <3>3
  <2>. QED BY <2>1, <2>2
<1>2. \A s \in stops : s \in StopRecord /\ s.proc \in Proc
  BY DEF ClaudeTypes, StopRecord
<1>3. \A s \in T : s \in StopRecord /\ s.proc \in Proc /\ s.by = by
  BY DEF StopRecord
<1>4. \A s \in stops' : procs'[s.proc].life = "alive" /\ procs'[s.proc].signal # "none"
  BY <1>1, <1>2 DEF StopsAwait, StopsRunner, Alive
<1>5. \A s \in stops' : s.proc # Nobody
  BY <1>1, <1>2, <1>3, NumbersApart
<1>6. \A s \in stops' : s.by = "recycle" => run'.pc = "recycling"
  BY <1>1, <1>3 DEF StopsAwait
<1>7. \A s, z \in stops' : s.by = "recycle" /\ z.by = "recycle" => s = z
  BY <1>1, <1>3 DEF StopsAwait
<1>8. StopsAwait'
  BY <1>4, <1>5, <1>6, <1>7 DEF StopsAwait, Alive
<1>. QED BY <1>1, <1>2, <1>3, <1>8

\* The end of the stops of one process: it is gone or it was killed.
LEMMA ContinueStops ==
    ASSUME ClaudeInv, NEW q \in Proc, Alive(q), NEW ps \in [Proc -> ProcState],
           NEW done \in SUBSET stops, \A s \in done : s.proc = q,
           StopsContinue(done, ps),
           \A p \in Proc : p # q => ps[p] = procs[p],
           ps[q].runner = procs[q].runner, ps[q].out = procs[q].out,
           ps[q].inbox \in {procs[q].inbox, <<>>}, ps[q].turn \in {procs[q].turn, 0},
           \/ ps[q].life = "dead" /\ \A s \in stops : s.proc = q => s \in done
           \/ /\ ps[q].life = "alive" /\ ps[q].signal = "kill" /\ ps[q].spoke = procs[q].spoke
              /\ done # {},
           UNCHANGED <<reader, cached, shown, ended, aux>>
    PROVE  ClaudeInv'
<1>. USE DEF ClaudeInv
<1>. DEFINE o == procs[q].runner
<1>1. /\ procs' = ps /\ stops' = stops \ done
      /\ pidFile' = IF done = {} THEN pidFile ELSE Nobody
      /\ session' = [r \in Runner |->
                       IF \E s \in done : procs[s.proc].runner = r THEN [session[r] EXCEPT !.current = Nobody]
                       ELSE session[r]]
      /\ run' = IF \E s \in done : s.by = "recycle" THEN [run EXCEPT !.pc = "starting"] ELSE run
  BY DEF StopsContinue
<1>2. o \in Runner /\ procs[q].life = "alive" /\ q # Nobody
  BY NumbersApart DEF SessionHoldsProcess, Alive
<1>. HIDE DEF o
<1>3. ASSUME NEW r \in Runner
      PROVE  session'[r] = IF done # {} /\ r = o THEN [session[r] EXCEPT !.current = Nobody] ELSE session[r]
  BY <1>1 DEF o
<1>4. ASSUME NEW r \in Runner
      PROVE  /\ session'[r] \in SessionState
             /\ session'[r].generation = session[r].generation /\ session'[r].queue = session[r].queue
             /\ session'[r].sawInit = session[r].sawInit /\ session'[r].streamEnded = session[r].streamEnded
             /\ session'[r].idle = session[r].idle
             /\ session'[r].current = IF done # {} /\ r = o THEN Nobody ELSE session[r].current
  <2>1. session[r] \in SessionState
    BY Typed
  <2>2. CASE done # {} /\ r = o
    <3>1. session'[r] = [session[r] EXCEPT !.current = Nobody]
      BY <1>3, <2>2
    <3>. QED BY <2>1, <2>2, <3>1 DEF SessionState
  <2>3. CASE ~ (done # {} /\ r = o)
    BY <1>3, <2>1, <2>3
  <2>. QED BY <2>2, <2>3
<1>5. session' \in [Runner -> SessionState]
  <2>1. session' = [r \in Runner |-> session'[r]]
    BY <1>1
  <2>. QED BY <1>4, <2>1
<1>6. run' \in RunRecord /\ run'.turn = run.turn /\ run'.runner = run.runner
      /\ (IF \E s \in done : s.by = "recycle" THEN run'.pc = "starting" /\ run.pc = "recycling" ELSE run' = run)
  <2>1. CASE \E s \in done : s.by = "recycle"
    <3>1. run' = [run EXCEPT !.pc = "starting"] /\ run.pc = "recycling"
      BY <1>1, <2>1 DEF StopsAwait
    <3>. QED BY <2>1, <3>1, Typed DEF RunRecord
  <2>2. CASE ~ \E s \in done : s.by = "recycle"
    BY <1>1, <2>2, Typed
  <2>. QED BY <2>1, <2>2
<1>7. \A p \in Proc : ps[p].life = "alive" /\ p # q => Alive(p) /\ procs[p].runner # o /\ procs[p].runner \in Runner
  BY NumbersApart DEF Alive, SessionHoldsProcess, o
<1>8. Stopping
  <2>1. ASSUME NEW p \in Proc, procs'[p].life = "alive"
        PROVE  IF procs'[p].signal = "kill" THEN session'[procs[p].runner].current # p
               ELSE session'[procs[p].runner].current = session[procs[p].runner].current
    <3>1. CASE p = q
      BY <1>1, <1>2, <1>4, <2>1, <3>1 DEF o
    <3>2. CASE p # q
      <4>1. Alive(p) /\ procs[p].runner # o /\ procs[p].runner \in Runner /\ procs'[p] = procs[p]
        BY <1>1, <1>7, <2>1, <3>2
      <4>2. session'[procs[p].runner].current = session[procs[p].runner].current
        BY <1>4, <4>1
      <4>. QED BY <4>1, <4>2 DEF SessionHoldsProcess
    <3>. QED BY <3>1, <3>2
  <2>2. \A p \in Proc :
        /\ procs'[p].runner = procs[p].runner /\ procs'[p].out = procs[p].out
        /\ procs'[p].life # procs[p].life => procs[p].life = "alive" /\ procs'[p].life = "dead"
        /\ procs'[p].life = "alive" =>
              /\ procs'[p].spoke = procs[p].spoke
              /\ procs'[p].signal # "kill" => procs[p].signal # "kill"
              /\ procs'[p].signal = "none" => procs[p].signal = "none"
        /\ procs'[p].inbox \in {procs[p].inbox, <<>>}
        /\ procs'[p].turn \in {procs[p].turn, 0}
    BY <1>1, <1>2
  <2>. QED BY <1>4, <2>1, <2>2 DEF Stopping
<1>9. StopsAwait' /\ stops' \subseteq StopRecord
  <2>1. \A s \in stops : s.proc \in Proc
    BY DEF ClaudeTypes, StopRecord
  <2>2. ASSUME NEW s \in stops'
        PROVE  s.proc # Nobody /\ procs'[s.proc].life = "alive" /\ procs'[s.proc].signal # "none"
    <3>1. s \in stops /\ s \notin done
      BY <1>1
    <3>. QED BY <1>1, <2>1, <3>1 DEF StopsAwait, Alive
  <2>3. \A s \in stops' : s.by = "recycle" => run'.pc = "recycling"
    BY <1>1, <1>6 DEF StopsAwait
  <2>4. \A s, z \in stops' : s.by = "recycle" /\ z.by = "recycle" => s = z
    BY <1>1 DEF StopsAwait
  <2>. QED BY <1>1, <2>2, <2>3, <2>4 DEF StopsAwait, Alive, ClaudeTypes
<1>10. NoStrayProcess'
  <2>. SUFFICES ASSUME NEW p \in Proc, Alive(p)', procs'[p].signal = "none"
                PROVE  /\ session'[procs'[p].runner].current = p
                       /\ \/ procs'[p].runner = cached'
                          \/ run'.pc # "none" /\ run'.runner = procs'[p].runner
                          \/ session'[procs'[p].runner].idle
    BY DEF NoStrayProcess, TurnActive
  <2>1. p # q /\ procs'[p] = procs[p] /\ Alive(p) /\ procs[p].runner # o /\ procs[p].runner \in Runner
    BY <1>1, <1>7 DEF Alive
  <2>2. session[procs[p].runner].current = p
        /\ (procs[p].runner = cached \/ TurnActive(procs[p].runner) \/ session[procs[p].runner].idle)
    BY <2>1 DEF NoStrayProcess
  <2>3. session'[procs[p].runner].current = session[procs[p].runner].current
        /\ session'[procs[p].runner].idle = session[procs[p].runner].idle
    BY <1>4, <2>1
  <2>4. run.pc # "none" => run'.pc # "none"
    BY <1>6
  <2>. QED BY <1>6, <2>1, <2>2, <2>3, <2>4 DEF TurnActive
<1>11. ClaudeTypes'
  BY <1>1, <1>5, <1>6, <1>9 DEF ClaudeTypes, aux
<1>12. SessionHoldsProcess'
  BY <1>8, StoppingHolds
<1>13. ResultsHaveTheirTurn'
  <2>1. run'.pc = "consuming" => run.pc = "consuming" /\ run'.runner = run.runner /\ run'.turn = run.turn
    BY <1>6
  <2>2. run.pc = "consuming" /\ run'.pc # "consuming" => session'[run.runner].current = Nobody
    BY <1>6
  <2>. QED BY <1>8, <1>11, <2>1, <2>2, StoppingKeepsResults
<1>. QED BY <1>9, <1>10, <1>11, <1>12, <1>13 DEF TurnEndsWithItsOwnResult

LEMMA ClaudeExitsKeeps ==
    ASSUME ClaudeInv, NEW p \in Proc, ClaudeExits(p)
    PROVE  ClaudeInv'
<1>. DEFINE done == {s \in stops : s.proc = p}
            Q == [NewProc EXCEPT !.runner = procs[p].runner, !.life = "dead", !.out = procs[p].out]
            ps == [procs EXCEPT ![p] = Q]
<1>1. Alive(p) /\ StopsContinue(done, ps) /\ UNCHANGED <<reader, cached, shown, ended, aux>>
  BY DEF ClaudeExits
<1>2. procs \in [Proc -> ProcState] /\ procs[p] \in ProcState
  BY Typed DEF ClaudeInv
<1>3. /\ Q \in ProcState /\ Q.runner = procs[p].runner /\ Q.life = "dead" /\ Q.out = procs[p].out
      /\ Q.inbox = <<>> /\ Q.turn = 0
  <2>1. <<>> \in Seq(Turn)
    BY EmptySeq
  <2>. QED BY <1>2, <2>1, NumbersApart DEF NewProc, ProcState
<1>. HIDE DEF Q
<1>4. ps \in [Proc -> ProcState] /\ ps[p] = Q /\ \A x \in Proc : x # p => ps[x] = procs[x]
  BY <1>2, <1>3
<1>5. done \in SUBSET stops /\ (\A s \in done : s.proc = p) /\ (\A s \in stops : s.proc = p => s \in done)
  OBVIOUS
<1>. HIDE DEF done, ps
<1>. QED BY <1>1, <1>3, <1>4, <1>5, ContinueStops

LEMMA GraceIsOverKeeps ==
    ASSUME ClaudeInv, NEW s \in stops, GraceIsOver(s)
    PROVE  ClaudeInv'
<1>. DEFINE q == s.proc
            Q == [procs[q] EXCEPT !.signal = "kill"]
            ps == [procs EXCEPT ![q].signal = "kill"]
<1>1. q \in Proc
  BY DEF ClaudeInv, ClaudeTypes, StopRecord
<1>2. Alive(q) /\ StopsContinue({s}, ps) /\ UNCHANGED <<reader, cached, shown, ended, aux>>
  BY DEF GraceIsOver
<1>3. procs \in [Proc -> ProcState] /\ procs[q] \in ProcState /\ procs[q].life = "alive"
  BY <1>1, <1>2, Typed DEF ClaudeInv, Alive
<1>4. /\ Q \in ProcState /\ Q.runner = procs[q].runner /\ Q.life = "alive" /\ Q.out = procs[q].out
      /\ Q.inbox = procs[q].inbox /\ Q.turn = procs[q].turn /\ Q.spoke = procs[q].spoke /\ Q.signal = "kill"
  BY <1>3 DEF ProcState
<1>5. ps = [procs EXCEPT ![q] = Q]
  BY <1>3
<1>. HIDE DEF Q, ps
<1>6. ps \in [Proc -> ProcState] /\ ps[q] = Q /\ \A x \in Proc : x # q => ps[x] = procs[x]
  BY <1>1, <1>3, <1>4, <1>5
<1>7. {s} \in SUBSET stops /\ (\A z \in {s} : z.proc = q) /\ {s} # {}
  OBVIOUS
<1>. HIDE DEF q
<1>. QED BY <1>1, <1>2, <1>4, <1>6, <1>7, ContinueStops

LEMMA StopKeeps ==
    ASSUME ClaudeInv, NEW r \in Runner, StopsRunner(r),
           NEW by \in {"idle", "recycle", "watchdog", "dispose"}, AddsStop(by),
           run.pc = "recycling" => by # "recycle",
           run.pc = "recycling" \/ (by = "recycle" /\ stops' # stops) => run'.pc = "recycling",
           \A x \in Runner : x # r /\ (x = cached \/ TurnActive(x)) => x = cached' \/ TurnActive(x)',
           run'.pc = "consuming" => run.pc = "consuming" /\ run'.runner = run.runner /\ run'.turn = run.turn,
           run.pc = "consuming" /\ run'.pc # "consuming" => session'[run.runner].current = Nobody,
           cached' \in Runner, run' \in RunRecord, run'.pc # "none" => run'.turn \in Turn,
           shown' \subseteq 1 .. MaxAsks, stopped' \subseteq Turn, UNCHANGED <<reader, asked>>,
           ended' \in [Turn -> End], TurnEndsWithItsOwnResult'
    PROVE  ClaudeInv'
<1>. USE DEF ClaudeInv
<1>1. StopsAwait' /\ stops' \subseteq StopRecord
  BY StopAwaitsMore
<1>2. NoStrayProcess'
  BY StopLosesNone
<1>3. ClaudeTypes'
  BY <1>1 DEF ClaudeTypes, StopsRunner
<1>4. SessionHoldsProcess'
  BY StoppingHolds DEF StopsRunner
<1>5. ResultsHaveTheirTurn'
  BY <1>3, StoppingKeepsResults DEF StopsRunner
<1>. QED BY <1>1, <1>2, <1>3, <1>4, <1>5

LEMMA UserStopsKeeps ==
    ASSUME ClaudeInv, UserStops
    PROVE  ClaudeInv'
<1>1. /\ run.pc # "none" /\ run' = [run EXCEPT !.evict = TRUE] /\ stopped' = stopped \cup {run.turn}
      /\ StopsAtOnce(run.runner) /\ shown' = {} /\ UNCHANGED <<reader, stops, cached, asked, ended>>
  BY DEF UserStops
<1>2. run \in RunRecord /\ run.runner \in Runner /\ run.turn \in Turn
  BY <1>1, Typed DEF ClaudeInv, ClaudeTypes
<1>3. run' \in RunRecord /\ run'.pc = run.pc /\ run'.turn = run.turn /\ run'.runner = run.runner
  BY <1>1, <1>2 DEF RunRecord
<1>4. StopsRunner(run.runner) /\ AddsStop("idle")
  BY <1>1, <1>2, StopsAtOnceStops DEF ClaudeInv, AddsStop
<1>5. \A x \in Runner : x = cached \/ TurnActive(x) => x = cached' \/ TurnActive(x)'
  BY <1>1, <1>3 DEF TurnActive
<1>6. stopped' \subseteq Turn /\ ended' \in [Turn -> End] /\ TurnEndsWithItsOwnResult' /\ cached' \in Runner
  BY <1>1, <1>2 DEF ClaudeInv, ClaudeTypes, TurnEndsWithItsOwnResult
<1>. QED BY <1>1, <1>2, <1>3, <1>4, <1>5, <1>6, StopKeeps

LEMMA DisposeKeeps ==
    ASSUME ClaudeInv, Dispose
    PROVE  ClaudeInv'
<1>1. /\ cached < MaxRunners /\ cached' = cached + 1 /\ run' = [run EXCEPT !.evict = FALSE]
      /\ StopsGracefully(cached, "dispose") /\ UNCHANGED <<reader, shown, ended, aux>>
  BY DEF Dispose
<1>2. run \in RunRecord /\ cached \in Runner
  BY Typed DEF ClaudeInv, ClaudeTypes
<1>3. run' \in RunRecord /\ run'.pc = run.pc /\ run'.turn = run.turn /\ run'.runner = run.runner
  BY <1>1, <1>2 DEF RunRecord
<1>4. StopsRunner(cached) /\ AddsStop("dispose")
  BY <1>1, <1>2, StopsGracefullyStops DEF ClaudeInv
<1>5. \A x \in Runner : x # cached /\ (x = cached \/ TurnActive(x)) => x = cached' \/ TurnActive(x)'
  BY <1>1, <1>3 DEF TurnActive
<1>6. cached' \in Runner
  BY <1>1, <1>2, ClaudeSessionAssumption DEF Runner
<1>7. stopped' \subseteq Turn /\ ended' \in [Turn -> End] /\ TurnEndsWithItsOwnResult'
      /\ shown' \subseteq 1 .. MaxAsks /\ (run.pc # "none" => run.turn \in Turn) /\ asked' = asked
  BY <1>1, <1>2 DEF ClaudeInv, ClaudeTypes, TurnEndsWithItsOwnResult, aux
<1>. QED BY <1>1, <1>2, <1>3, <1>4, <1>5, <1>6, <1>7, StopKeeps

LEMMA WatchdogKeeps ==
    ASSUME ClaudeInv, WatchdogFires
    PROVE  ClaudeInv'
<1>1. /\ run' = [run EXCEPT !.watched = TRUE] /\ run.pc = "consuming"
      /\ StopsGracefully(run.runner, "watchdog") /\ UNCHANGED <<reader, cached, shown, ended, aux>>
  BY DEF WatchdogFires
<1>2. run \in RunRecord /\ run.runner \in Runner /\ run.turn \in Turn
  BY <1>1, Typed DEF ClaudeInv, ClaudeTypes
<1>3. run' \in RunRecord /\ run'.pc = run.pc /\ run'.turn = run.turn /\ run'.runner = run.runner
  BY <1>1, <1>2 DEF RunRecord
<1>4. StopsRunner(run.runner) /\ AddsStop("watchdog")
  BY <1>1, <1>2, StopsGracefullyStops DEF ClaudeInv
<1>5. \A x \in Runner : x = cached \/ TurnActive(x) => x = cached' \/ TurnActive(x)'
  BY <1>1, <1>3 DEF TurnActive
<1>6. stopped' \subseteq Turn /\ ended' \in [Turn -> End] /\ TurnEndsWithItsOwnResult'
      /\ shown' \subseteq 1 .. MaxAsks /\ asked' = asked /\ cached' \in Runner
  BY <1>1, <1>2 DEF ClaudeInv, ClaudeTypes, TurnEndsWithItsOwnResult, aux
<1>. QED BY <1>1, <1>2, <1>3, <1>4, <1>5, <1>6, StopKeeps

LEMMA CancelKeeps ==
    ASSUME ClaudeInv, NEW q \in shown, Cancel(q)
    PROVE  ClaudeInv'
<1>1. /\ shown' = shown \ {q} /\ StopsAtOnce(run.runner) /\ UNCHANGED <<reader, stops, cached, run, ended, aux>>
  BY DEF Cancel
<1>2. run \in RunRecord /\ run.runner \in Runner
  BY <1>1, Typed DEF ClaudeInv
<1>3. StopsRunner(run.runner) /\ AddsStop("idle")
  BY <1>1, <1>2, StopsAtOnceStops DEF ClaudeInv, AddsStop
<1>4. \A x \in Runner : x = cached \/ TurnActive(x) => x = cached' \/ TurnActive(x)'
  BY <1>1 DEF TurnActive
<1>5. stopped' \subseteq Turn /\ ended' \in [Turn -> End] /\ TurnEndsWithItsOwnResult'
      /\ shown' \subseteq 1 .. MaxAsks /\ asked' = asked /\ cached' \in Runner
      /\ run' = run /\ (run'.pc # "none" => run'.turn \in Turn) /\ run' \in RunRecord
  BY <1>1, <1>2 DEF ClaudeInv, ClaudeTypes, TurnEndsWithItsOwnResult, aux
<1>. QED BY <1>1, <1>2, <1>3, <1>4, <1>5, StopKeeps

LEMMA IdleTimerKeeps ==
    ASSUME ClaudeInv, NEW r \in Runner, IdleTimerFires(r)
    PROVE  ClaudeInv'
<1>. USE DEF ClaudeInv
<1>1. UNCHANGED <<reader, cached, run, shown, ended, aux>>
  BY DEF IdleTimerFires
<1>2. stopped' \subseteq Turn /\ ended' \in [Turn -> End] /\ TurnEndsWithItsOwnResult'
      /\ shown' \subseteq 1 .. MaxAsks /\ asked' = asked /\ cached' \in Runner
      /\ run' = run /\ (run'.pc # "none" => run'.turn \in Turn) /\ run' \in RunRecord
  BY <1>1 DEF ClaudeTypes, TurnEndsWithItsOwnResult, aux
<1>3. CASE ~ TurnActive(r) /\ IsRunning(r)
  <2>1. BeginsGracefulStop(r, "idle")
    BY <1>3 DEF IdleTimerFires
  <2>2. StopsRunner(r) /\ AddsStop("idle")
    BY <1>3, <2>1, BeginsStopping
  <2>3. \A x \in Runner : x = cached \/ TurnActive(x) => x = cached' \/ TurnActive(x)'
    BY <1>1 DEF TurnActive
  <2>. QED BY <1>1, <1>2, <2>2, <2>3, StopKeeps
<1>4. CASE ~ (~ TurnActive(r) /\ IsRunning(r))
  <2>1. session' = [session EXCEPT ![r].idle = FALSE] /\ UNCHANGED <<procs, stops, pidFile>>
    BY <1>4 DEF IdleTimerFires
  <2>2. session' = [session EXCEPT ![r].stoppedByUser = session[r].stoppedByUser,
                                   ![r].current = session[r].current, ![r].idle = FALSE]
    BY <2>1, Typed DEF SessionState
  <2>3. session[r].stoppedByUser \in BOOLEAN
    BY Typed DEF SessionState
  <2>4. /\ session' \in [Runner -> SessionState]
        /\ \A x \in Runner : x # r => session'[x] = session[x]
        /\ session'[r].current = session[r].current
        /\ \A x \in Runner :
              /\ session'[x].generation = session[x].generation /\ session'[x].queue = session[x].queue
              /\ session'[x].sawInit = session[x].sawInit /\ session'[x].streamEnded = session[x].streamEnded
    BY <2>2, <2>3, SessionFields
  <2>5. \A p \in Proc : procs[p].life = "alive" =>
          procs[p].runner \in Runner /\ (procs[p].signal # "kill" <=> session[procs[p].runner].current = p)
    BY NumbersApart DEF SessionHoldsProcess, Alive
  <2>6. Stopping
    BY <2>1, <2>4, <2>5 DEF Stopping
  <2>7. ClaudeTypes' /\ StopsAwait'
    BY <1>1, <1>2, <2>1, <2>4 DEF ClaudeTypes, StopsAwait, Alive
  <2>8. NoStrayProcess'
    <3>. SUFFICES ASSUME NEW p \in Proc, Alive(p)', procs'[p].signal = "none"
                  PROVE  /\ session'[procs'[p].runner].current = p
                         /\ \/ procs'[p].runner = cached'
                            \/ run'.pc # "none" /\ run'.runner = procs'[p].runner
                            \/ session'[procs'[p].runner].idle
      BY DEF NoStrayProcess, TurnActive
    <3>. DEFINE x == procs[p].runner
    <3>1. Alive(p) /\ procs'[p] = procs[p] /\ procs[p].signal = "none" /\ x \in Runner
      BY <2>1, <2>5 DEF Alive
    <3>2. session[x].current = p /\ (x = cached \/ TurnActive(x) \/ session[x].idle)
      BY <3>1 DEF NoStrayProcess
    <3>3. session'[x].current = session[x].current
      BY <2>4, <3>1
    <3>. HIDE DEF x
    <3>4. CASE x = r
      <4>1. TurnActive(r)
        BY <1>4, <3>1, <3>2, <3>4 DEF IsRunning
      <4>. QED BY <1>1, <3>1, <3>2, <3>3, <3>4, <4>1 DEF TurnActive, x
    <3>5. CASE x # r
      <4>1. session'[x].idle = session[x].idle
        BY <2>4, <3>1, <3>5
      <4>. QED BY <1>1, <3>1, <3>2, <3>3, <4>1 DEF TurnActive, x
    <3>. QED BY <3>4, <3>5
  <2>. QED BY <1>1, <1>2, <2>6, <2>7, <2>8, StoppingHolds, StoppingKeepsResults
<1>. QED BY <1>3, <1>4

-----------------------------------------------------------------------------
(* The ends of turns and streams                                           *)

\* What a turn that ended tells is kept, and the turn that ends tells its own.
LEMMA EndIsOwn ==
    ASSUME ClaudeTypes, TurnEndsWithItsOwnResult, run.turn \in Turn, NEW t \in Turn \cup {0},
           NEW how \in {"open", "result", "error", "interrupted", "spawn error", "broken off"},
           how = "result" => t = run.turn,
           ended' = [ended EXCEPT ![run.turn] = [how |-> how, turn |-> t]]
    PROVE  ended' \in [Turn -> End] /\ TurnEndsWithItsOwnResult'
<1>1. ended \in [Turn -> End]
  BY DEF ClaudeTypes
<1>2. [how |-> how, turn |-> t] \in End
  BY DEF End
<1>. QED BY <1>1, <1>2 DEF TurnEndsWithItsOwnResult

LEMMA RunIsOver ==
    ASSUME ClaudeTypes, run' = [run EXCEPT !.pc = "none"]
    PROVE  run' \in RunRecord /\ run'.pc = "none"
  BY Typed DEF RunRecord

\* A turn ends whose runner was left without its process.
LEMMA TurnEndsKeeps ==
    ASSUME ClaudeInv, run.pc \in {"starting", "consuming"}, StopsRunner(run.runner),
           session'[run.runner].current = Nobody,
           run' = [run EXCEPT !.pc = "none"], shown' = {}, UNCHANGED <<reader, stops, cached, aux>>,
           NEW how \in {"error", "interrupted", "spawn error", "broken off"},
           ended' = [ended EXCEPT ![run.turn] = [how |-> how, turn |-> run.turn]]
    PROVE  ClaudeInv'
<1>1. run \in RunRecord /\ run.runner \in Runner /\ run.turn \in Turn
  BY Typed DEF ClaudeInv, ClaudeTypes
<1>2. ended' \in [Turn -> End] /\ TurnEndsWithItsOwnResult'
  BY <1>1, EndIsOwn DEF ClaudeInv
<1>3. run' \in RunRecord /\ run'.pc = "none"
  BY RunIsOver DEF ClaudeInv
<1>4. AddsStop("idle")
  BY DEF AddsStop
<1>5. \A x \in Runner : x # run.runner /\ (x = cached \/ TurnActive(x)) => x = cached' \/ TurnActive(x)'
  BY DEF TurnActive
<1>6. stopped' \subseteq Turn /\ asked' = asked /\ cached' \in Runner
  BY DEF ClaudeInv, ClaudeTypes, aux
<1>. QED BY <1>1, <1>2, <1>3, <1>4, <1>5, <1>6, StopKeeps

LEMMA SpawnFailsKeeps ==
    ASSUME ClaudeInv, SpawnFails
    PROVE  ClaudeInv'
<1>. DEFINE r == run.runner
            T == [session[r] EXCEPT !.streamEnded = FALSE, !.current = Nobody, !.autoApprove = FALSE,
                                    !.pending = {}, !.idle = TRUE]
<1>1. run.pc = "starting" /\ ~ IsRunning(r) /\ UNCHANGED <<procs, reader, stops, pidFile, cached, aux>>
  BY DEF SpawnFails
<1>2. /\ ended' = [ended EXCEPT ![run.turn] = [how |-> "spawn error", turn |-> run.turn]]
      /\ run' = [run EXCEPT !.pc = "none"] /\ shown' = {}
      /\ session' = [[session EXCEPT ![run.runner].streamEnded = FALSE, ![run.runner].current = Nobody,
                                     ![run.runner].autoApprove = FALSE, ![run.runner].pending = {}]
                       EXCEPT ![run.runner].idle = TRUE]
  BY DEF SpawnFails, TurnOver
<1>3. session \in [Runner -> SessionState] /\ r \in Runner /\ session[r] \in SessionState
  BY Typed DEF ClaudeInv
<1>4. /\ T \in SessionState /\ T.generation = session[r].generation /\ T.queue = session[r].queue
      /\ T.sawInit = session[r].sawInit /\ T.current = Nobody
  BY <1>3 DEF SessionState
<1>5. session' = [session EXCEPT ![r] = T]
  BY <1>2, <1>3
<1>. HIDE DEF T
<1>6. /\ session' \in [Runner -> SessionState] /\ session'[r] = T
      /\ \A x \in Runner : x # r => session'[x] = session[x]
  BY <1>3, <1>4, <1>5
<1>. HIDE DEF r
<1>7. pidFile' \in Proc \cup {Nobody}
  BY <1>1 DEF ClaudeInv, ClaudeTypes
<1>8. StopsRunner(r)
  BY <1>1, <1>3, <1>4, <1>6, <1>7, LetsGo DEF ClaudeInv
<1>. QED BY <1>1, <1>2, <1>4, <1>6, <1>8, TurnEndsKeeps DEF r

LEMMA RunSeesEndKeeps ==
    ASSUME ClaudeInv, RunSeesEnd
    PROVE  ClaudeInv'
<1>. DEFINE r == run.runner
            T == [session[r] EXCEPT !.idle = TRUE]
            how == IF session[r].stoppedByUser THEN "interrupted" ELSE "error"
<1>1. run.pc = "consuming" /\ session[r].streamEnded /\ UNCHANGED <<procs, reader, stops, pidFile, cached, aux>>
  BY DEF RunSeesEnd
<1>2. /\ ended' = [ended EXCEPT ![run.turn] = [how |-> how, turn |-> run.turn]]
      /\ run' = [run EXCEPT !.pc = "none"] /\ shown' = {}
      /\ session' = [session EXCEPT ![r].idle = TRUE]
  BY DEF RunSeesEnd, TurnOver
<1>3. session \in [Runner -> SessionState] /\ r \in Runner /\ session[r] \in SessionState
  BY Typed DEF ClaudeInv
<1>4. session[r].current = Nobody /\ ~ IsRunning(r)
  BY <1>1, <1>3 DEF ClaudeInv, SessionHoldsProcess, IsRunning, Alive
<1>5. /\ T \in SessionState /\ T.generation = session[r].generation /\ T.queue = session[r].queue
      /\ T.sawInit = session[r].sawInit /\ T.current = Nobody
  BY <1>3, <1>4 DEF SessionState
<1>6. session' = [session EXCEPT ![r] = T]
  BY <1>2, <1>3
<1>7. how \in {"error", "interrupted", "spawn error", "broken off"}
  OBVIOUS
<1>. HIDE DEF T, how
<1>8. /\ session' \in [Runner -> SessionState] /\ session'[r] = T
      /\ \A x \in Runner : x # r => session'[x] = session[x]
  BY <1>3, <1>5, <1>6
<1>. HIDE DEF r
<1>9. pidFile' \in Proc \cup {Nobody}
  BY <1>1 DEF ClaudeInv, ClaudeTypes
<1>10. StopsRunner(r)
  BY <1>1, <1>3, <1>4, <1>5, <1>8, <1>9, LetsGo DEF ClaudeInv
<1>. QED BY <1>1, <1>2, <1>5, <1>7, <1>8, <1>10, TurnEndsKeeps DEF r

LEMMA RunBreaksOffKeeps ==
    ASSUME ClaudeInv, RunBreaksOff
    PROVE  ClaudeInv'
<1>. DEFINE r == run.runner
            byUser == session[r].stoppedByUser \/ IsRunning(r)
<1>1. /\ run.pc = "consuming"
      /\ ended' = [ended EXCEPT ![run.turn] = [how |-> "broken off", turn |-> run.turn]]
      /\ run' = [run EXCEPT !.pc = "none"] /\ shown' = {}
      /\ procs' = IF IsRunning(r) THEN Signalled(r, "kill") ELSE procs
      /\ session' = [session EXCEPT ![r].stoppedByUser = @ \/ IsRunning(r), ![r].current = Nobody, ![r].idle = TRUE]
      /\ pidFile' = IF IsRunning(r) THEN Nobody ELSE pidFile
      /\ UNCHANGED <<reader, stops, cached, aux>>
  BY DEF RunBreaksOff
<1>2. session \in [Runner -> SessionState] /\ r \in Runner /\ session[r] \in SessionState
  BY Typed DEF ClaudeInv
<1>3. session' = [session EXCEPT ![r].stoppedByUser = byUser, ![r].current = Nobody, ![r].idle = TRUE]
  BY <1>1, <1>2
<1>4. byUser \in BOOLEAN
  BY <1>2 DEF SessionState
<1>. HIDE DEF byUser, r
<1>5. StopsRunner(r) /\ session'[r].current = Nobody
  <2>1. CASE IsRunning(r)
    BY <1>1, <1>2, <1>3, <1>4, <2>1, KillStopping DEF ClaudeInv
  <2>2. CASE ~ IsRunning(r)
    <3>1. /\ session' \in [Runner -> SessionState]
          /\ \A x \in Runner : x # r => session'[x] = session[x]
          /\ session'[r].current = Nobody
          /\ session'[r].generation = session[r].generation /\ session'[r].queue = session[r].queue
          /\ session'[r].sawInit = session[r].sawInit
      BY <1>2, <1>3, <1>4, SessionFields DEF ClaudeInv
    <3>2. procs' = procs /\ pidFile' \in Proc \cup {Nobody}
      BY <1>1, <2>2 DEF ClaudeInv, ClaudeTypes
    <3>. QED BY <1>2, <2>2, <3>1, <3>2, LetsGo DEF ClaudeInv
  <2>. QED BY <2>1, <2>2
<1>. QED BY <1>1, <1>5, TurnEndsKeeps DEF r

LEMMA ReaderEndsKeeps ==
    ASSUME ClaudeInv, NEW p \in Proc, ReaderEnds(p)
    PROVE  ClaudeInv'
<1>. USE DEF ClaudeInv
<1>. DEFINE r == procs[p].runner
            T == [session[r] EXCEPT !.streamEnded = TRUE, !.current = Nobody]
<1>1. /\ reader' = [reader EXCEPT ![p].at = "over"] /\ procs[p].life = "dead"
      /\ IF p = session[r].generation
         THEN /\ session' = [session EXCEPT ![r].streamEnded = TRUE, ![r].current = Nobody]
              /\ pidFile' = Nobody
         ELSE UNCHANGED <<session, pidFile>>
      /\ UNCHANGED <<procs, stops, cached, run, shown, ended, aux>>
  BY DEF ReaderEnds
<1>2. /\ reader' \in [Proc -> ReaderState]
      /\ \A x \in Proc : reader'[x].at = "translating" => reader'[x].ev \in PlanAsk
  <2>1. reader \in [Proc -> ReaderState] /\ reader[p] \in ReaderState
    BY DEF ClaudeTypes
  <2>2. [reader[p] EXCEPT !.at = "over"] \in ReaderState /\ [reader[p] EXCEPT !.at = "over"].at = "over"
    BY <2>1 DEF ReaderState
  <2>. QED BY <1>1, <2>1, <2>2 DEF ClaudeTypes
<1>3. /\ cached' \in Runner /\ run' \in RunRecord /\ (run'.pc # "none" => run'.turn \in Turn)
      /\ shown' \subseteq 1 .. MaxAsks /\ stopped' \subseteq Turn /\ asked' = asked
      /\ ended' \in [Turn -> End] /\ TurnEndsWithItsOwnResult'
  BY <1>1 DEF ClaudeTypes, TurnEndsWithItsOwnResult, aux
<1>4. r \in Runner
  BY <1>1 DEF SessionHoldsProcess
<1>5. CASE p = session[r].generation
  <2>1. session \in [Runner -> SessionState] /\ session[r] \in SessionState
    BY <1>4, Typed
  <2>2. ~ IsRunning(r)
    BY <1>1, <1>5, <1>4 DEF SessionHoldsProcess, IsRunning, Alive
  <2>3. /\ T \in SessionState /\ T.generation = session[r].generation /\ T.queue = session[r].queue
        /\ T.sawInit = session[r].sawInit /\ T.current = Nobody
    BY <2>1 DEF SessionState
  <2>4. session' = [session EXCEPT ![r] = T]
    BY <1>1, <1>5, <2>1
  <2>. HIDE DEF T
  <2>5. /\ session' \in [Runner -> SessionState] /\ session'[r] = T
        /\ \A x \in Runner : x # r => session'[x] = session[x]
    BY <1>4, <2>1, <2>3, <2>4
  <2>. HIDE DEF r
  <2>6. StopsRunner(r)
    BY <1>1, <1>4, <1>5, <2>2, <2>3, <2>5, LetsGo DEF r
  <2>7. AddsStop("idle") /\ (\A x \in Runner : x = cached \/ TurnActive(x) => x = cached' \/ TurnActive(x)')
    BY <1>1 DEF AddsStop, TurnActive
  <2>8. StopsAwait' /\ stops' \subseteq StopRecord
    BY <1>1, <1>4, <2>6, <2>7, StopAwaitsMore
  <2>9. NoStrayProcess'
    BY <1>4, <2>6, <2>7, StopLosesNone
  <2>10. ClaudeTypes'
    BY <1>1, <1>2, <1>3, <2>6, <2>8 DEF ClaudeTypes, StopsRunner
  <2>. QED BY <1>1, <1>3, <2>6, <2>8, <2>9, <2>10, StoppingHolds, StoppingKeepsResults DEF StopsRunner
<1>6. CASE p # session[r].generation
  <2>1. UNCHANGED <<session, pidFile>>
    BY <1>1, <1>6
  <2>2. ClaudeTypes'
    BY <1>1, <1>2, <1>3, <2>1 DEF ClaudeTypes
  <2>3. SessionHoldsProcess' /\ StopsAwait' /\ NoStrayProcess' /\ ResultsHaveTheirTurn'
    BY <1>1, <2>1 DEF SessionHoldsProcess, StopsAwait, NoStrayProcess, ResultsHaveTheirTurn, Alive, IsRunning, TurnActive
  <2>. QED BY <1>3, <2>2, <2>3
<1>. QED BY <1>5, <1>6

-----------------------------------------------------------------------------
(* Steps that talk                                                         *)

(* A step that spawns and stops nobody.                                    *)
Talking ==
    /\ procs' \in [Proc -> ProcState] /\ session' \in [Runner -> SessionState]
    /\ \A p \in Proc :
        /\ procs'[p].runner = procs[p].runner /\ procs'[p].life = procs[p].life
        /\ procs'[p].signal = procs[p].signal
        /\ procs[p].life = "new" => procs'[p].out = procs[p].out
    /\ \A r \in Runner :
        /\ session'[r].current = session[r].current /\ session'[r].generation = session[r].generation
        /\ session'[r].streamEnded = session[r].streamEnded
    /\ UNCHANGED <<stops, cached>>

LEMMA TalkKeeps ==
    ASSUME ClaudeInv, Talking,
           \A r \in Runner : TurnActive(r) \/ session[r].idle => TurnActive(r)' \/ session'[r].idle,
           run.pc = "recycling" => run'.pc = "recycling"
    PROVE  SessionHoldsProcess' /\ StopsAwait' /\ NoStrayProcess'
<1>. USE DEF ClaudeInv
<1>1. \A p \in Proc : Alive(p)' <=> Alive(p)
  BY DEF Talking, Alive
<1>2. SessionHoldsProcess'
  <2>1. \A r \in Runner : session[r].generation # Nobody => session[r].generation \in Proc
    BY Typed DEF SessionState
  <2>2. (\A p \in Proc : IF procs[p].life = "new" THEN procs[p].out = <<>> ELSE procs[p].runner \in Runner)'
    BY DEF Talking, SessionHoldsProcess
  <2>3. (\A p, q \in Proc : Alive(p) /\ Alive(q) /\ procs[p].runner = procs[q].runner => p = q)'
    BY <1>1 DEF Talking, SessionHoldsProcess
  <2>4. (\A p \in Proc : Alive(p) => (procs[p].signal # "kill" <=> session[procs[p].runner].current = p))'
    BY <1>1 DEF Talking, SessionHoldsProcess, Alive
  <2>5. ASSUME NEW r \in Runner
        PROVE  /\ session'[r].current \in {Nobody, session'[r].generation}
               /\ session'[r].streamEnded => session'[r].current = Nobody
               /\ session'[r].generation # Nobody =>
                     /\ procs'[session'[r].generation].life # "new"
                     /\ procs'[session'[r].generation].runner = r
    BY <2>1 DEF Talking, SessionHoldsProcess
  <2>. QED BY <2>2, <2>3, <2>4, <2>5 DEF SessionHoldsProcess
<1>3. StopsAwait'
  <2>1. \A s \in stops : s.proc \in Proc
    BY DEF ClaudeTypes, StopRecord
  <2>. QED BY <2>1 DEF Talking, StopsAwait, Alive
<1>4. NoStrayProcess'
  <2>. SUFFICES ASSUME NEW p \in Proc, Alive(p)', procs'[p].signal = "none"
                PROVE  /\ session'[procs'[p].runner].current = p
                       /\ \/ procs'[p].runner = cached'
                          \/ run'.pc # "none" /\ run'.runner = procs'[p].runner
                          \/ session'[procs'[p].runner].idle
    BY DEF NoStrayProcess, TurnActive
  <2>. DEFINE x == procs[p].runner
  <2>1. Alive(p) /\ procs'[p].runner = x /\ procs[p].signal = "none" /\ x \in Runner
    BY <1>1 DEF Talking, SessionHoldsProcess, Alive
  <2>2. session[x].current = p /\ (x = cached \/ TurnActive(x) \/ session[x].idle)
    BY <2>1 DEF NoStrayProcess
  <2>3. \A r \in Runner : TurnActive(r) \/ session[r].idle => (run'.pc # "none" /\ run'.runner = r) \/ session'[r].idle
    BY DEF TurnActive
  <2>. HIDE DEF x
  <2>. QED BY <2>1, <2>2, <2>3 DEF Talking
<1>. QED BY <1>2, <1>3, <1>4

\* What one process says and takes.
LEMMA ProcessTalks ==
    ASSUME ClaudeInv, NEW p \in Proc, Alive(p), NEW Q \in ProcState, procs' = [procs EXCEPT ![p] = Q],
           Q.runner = procs[p].runner, Q.life = procs[p].life, Q.signal = procs[p].signal,
           procs[p].spoke => Q.spoke, ~ Q.spoke => Q.out = <<>> /\ Q.turn = 0,
           \A r \in Runner : (session[r].sawInit => procs[p].spoke) =>
               /\ Carries(procs[p], session[r], run.turn) => Carries(Q, session[r], run.turn),
           ~ Clean(procs[p]), asked' \in 0 .. MaxAsks,
           UNCHANGED <<reader, session, stops, pidFile, cached, run, shown, ended, stopped>>
    PROVE  ClaudeInv'
<1>. USE DEF ClaudeInv
<1>1. procs \in [Proc -> ProcState] /\ session \in [Runner -> SessionState]
  BY Typed
<1>2. procs' \in [Proc -> ProcState] /\ procs'[p] = Q /\ \A x \in Proc : x # p => procs'[x] = procs[x]
  BY <1>1
<1>3. Talking
  BY <1>1, <1>2 DEF Talking, Alive
<1>4. SessionHoldsProcess' /\ StopsAwait' /\ NoStrayProcess'
  <2>1. \A r \in Runner : TurnActive(r) \/ session[r].idle => TurnActive(r)' \/ session'[r].idle
    BY DEF TurnActive
  <2>. QED BY <1>3, <2>1, TalkKeeps
<1>5. ClaudeTypes'
  BY <1>2 DEF ClaudeTypes
<1>6. ResultsHaveTheirTurn'
  <2>1. (\A x \in Proc : Alive(x) /\ ~ procs[x].spoke => procs[x].out = <<>> /\ procs[x].turn = 0)'
    BY <1>2 DEF ResultsHaveTheirTurn, Alive
  <2>2. ASSUME NEW r \in Runner
        PROVE  LET g == session'[r].generation IN
               /\ g # Nobody /\ procs'[g].life = "alive" /\ session'[r].sawInit => procs'[g].spoke
               /\ run'.pc = "consuming" /\ run'.runner = r =>
                     g # Nobody /\ Carries(procs'[g], session'[r], run'.turn)
               /\ ~ (run'.pc = "consuming" /\ run'.runner = r) /\ IsRunning(r)' =>
                     Clean(procs'[session'[r].current])
    <3>. DEFINE g == session[r].generation
    <3>1. session' = session /\ run' = run /\ (g # Nobody => g \in Proc)
      BY <1>1 DEF SessionState
    <3>2. /\ g # Nobody /\ procs[g].life = "alive" /\ session[r].sawInit => procs[g].spoke
          /\ run.pc = "consuming" /\ run.runner = r => g # Nobody /\ Carries(procs[g], session[r], run.turn)
      BY DEF ResultsHaveTheirTurn
    <3>3. g # Nobody /\ procs'[g].life = "alive" /\ session[r].sawInit => procs'[g].spoke
      BY <1>2, <3>1, <3>2
    <3>4. run.pc = "consuming" /\ run.runner = r => g # Nobody /\ Carries(procs'[g], session[r], run.turn)
      <4>1. CASE g = p
        BY <1>2, <3>2, <4>1 DEF Alive
      <4>2. CASE g # p
        BY <1>2, <3>1, <3>2, <4>2
      <4>. QED BY <4>1, <4>2
    <3>5. ASSUME ~ (run.pc = "consuming" /\ run.runner = r), IsRunning(r)'
          PROVE  Clean(procs'[session[r].current])
      <4>1. IsRunning(r) /\ session[r].current \in Proc
        BY <1>1, <1>2, <3>5 DEF IsRunning, Alive, SessionState
      <4>2. Clean(procs[session[r].current])
        BY <3>5, <4>1 DEF ResultsHaveTheirTurn
      <4>. QED BY <1>2, <4>1, <4>2
    <3>. HIDE DEF g
    <3>. QED BY <3>1, <3>3, <3>4, <3>5 DEF g
  <2>. QED BY <2>1, <2>2 DEF ResultsHaveTheirTurn
<1>. QED BY <1>4, <1>5, <1>6 DEF TurnEndsWithItsOwnResult

LEMMA CarriesAlike ==
    ASSUME NEW P, NEW Q, NEW S, NEW t, Q.out = P.out, Q.inbox = P.inbox, Q.turn = P.turn, Carries(P, S, t)
    PROVE  Carries(Q, S, t)
  BY DEF Carries

LEMMA AppendsOne ==
    ASSUME NEW S, NEW s \in Seq(S), NEW e \in S
    PROVE  LET z == Append(s, e) IN
           /\ z \in Seq(S) /\ Len(s) \in Nat /\ DOMAIN s = 1 .. Len(s) /\ DOMAIN z = 1 .. Len(s) + 1
           /\ Len(z) = Len(s) + 1 /\ z[Len(s) + 1] = e /\ \A i \in 1 .. Len(s) : z[i] = s[i]
  BY AppendProperties

LEMMA TakesOne ==
    ASSUME NEW S, NEW s \in Seq(S), s # <<>>
    PROVE  LET z == Tail(s) IN
           /\ z \in Seq(S) /\ Len(s) \in Nat \ {0} /\ DOMAIN s = 1 .. Len(s) /\ DOMAIN z = 1 .. Len(s) - 1
           /\ Len(z) = Len(s) - 1 /\ Head(s) = s[1] /\ Head(s) \in S
           /\ \A i \in 1 .. Len(s) - 1 : z[i] = s[i + 1]
<1>1. Len(s) \in Nat \ {0} /\ DOMAIN s = 1 .. Len(s)
  BY EmptySeq, LenProperties
<1>. QED BY <1>1, HeadTailProperties

LEMMA Hello ==
    ASSUME NEW S, NEW a \in S, NEW b \in S
    PROVE  <<>> \o <<>> \o <<b>> = <<b>> /\ <<>> \o <<a>> \o <<b>> = <<a, b>>
<1>1. <<>> \in Seq(S) /\ <<a>> \in Seq(S) /\ <<b>> \in Seq(S) /\ <<a, b>> \in Seq(S)
  BY EmptySeq
<1>2. <<>> \o <<>> = <<>> /\ <<>> \o <<a>> = <<a>> /\ <<>> \o <<b>> = <<b>>
  BY <1>1, ConcatEmptySeq
<1>3. <<a>> \o <<b>> = <<a, b>>
  <2>1. /\ <<a>> \o <<b>> \in Seq(S) /\ Len(<<a>> \o <<b>>) = 2
        /\ (<<a>> \o <<b>>)[1] = a /\ (<<a>> \o <<b>>)[2] = b
    BY <1>1, ConcatProperties
  <2>2. \A i \in 1 .. 2 : (<<a>> \o <<b>>)[i] = <<a, b>>[i]
    BY <2>1
  <2>. QED BY <1>1, <2>1, <2>2, SeqEqual
<1>. QED BY <1>2, <1>3

LEMMA ClaudeReadsKeeps ==
    ASSUME ClaudeInv, NEW p \in Proc, ClaudeReads(p)
    PROVE  ClaudeInv'
<1>. DEFINE P == procs[p]
            out == IF P.spoke THEN P.out
                   ELSE P.out \o (IF P.resumes THEN <<Event("result", 0)>> ELSE <<>>) \o <<Event("init", 0)>>
            Q == [P EXCEPT !.turn = Head(P.inbox), !.inbox = Tail(P.inbox), !.spoke = TRUE, !.resumes = FALSE, !.out = out]
<1>1. /\ Alive(p) /\ P.turn = 0 /\ P.inbox # <<>>
      /\ procs' = [procs EXCEPT
           ![p].turn = Head(procs[p].inbox), ![p].inbox = Tail(@), ![p].spoke = TRUE, ![p].resumes = FALSE,
           ![p].out = IF procs[p].spoke THEN @
                      ELSE @ \o (IF procs[p].resumes THEN <<Event("result", 0)>> ELSE <<>>) \o <<Event("init", 0)>>]
      /\ UNCHANGED <<reader, session, stops, pidFile, cached, run, shown, ended, aux>>
  BY DEF ClaudeReads
<1>2. procs \in [Proc -> ProcState] /\ P \in ProcState /\ P.inbox \in Seq(Turn) /\ P.out \in Seq(Said)
      /\ P.resumes \in BOOLEAN /\ P.spoke \in BOOLEAN
  BY Typed DEF ClaudeInv, ProcState
<1>3. procs' = [procs EXCEPT ![p] = Q]
  BY <1>1, <1>2 DEF ProcState
<1>4. Tail(P.inbox) \in Seq(Turn) /\ Head(P.inbox) \in Turn /\ Head(P.inbox) = P.inbox[1]
  BY <1>1, <1>2, TakesOne
<1>5. P.spoke \/ P.out = <<>>
  BY <1>1 DEF ClaudeInv, ResultsHaveTheirTurn
<1>6. /\ out \in Seq(Said)
      /\ \/ out = P.out
         \/ ~ P.spoke /\ P.out = <<>> /\ out = <<Event("init", 0)>>
         \/ ~ P.spoke /\ P.out = <<>> /\ out = <<Event("result", 0), Event("init", 0)>>
  <2>1. Event("init", 0) \in Said /\ Event("result", 0) \in Said
    BY SaidHas
  <2>2. /\ <<>> \o <<>> \o <<Event("init", 0)>> = <<Event("init", 0)>>
        /\ <<>> \o <<Event("result", 0)>> \o <<Event("init", 0)>> = <<Event("result", 0), Event("init", 0)>>
    BY <2>1, Hello
  <2>3. <<Event("init", 0)>> \in Seq(Said) /\ <<Event("result", 0), Event("init", 0)>> \in Seq(Said)
    BY <2>1
  <2>4. CASE P.spoke
    BY <1>2, <2>4
  <2>5. CASE ~ P.spoke
    <3>1. P.out = <<>> /\ out = <<>> \o (IF P.resumes THEN <<Event("result", 0)>> ELSE <<>>) \o <<Event("init", 0)>>
      BY <1>5, <2>5
    <3>2. CASE P.resumes
      BY <1>2, <2>2, <2>3, <2>5, <3>1, <3>2
    <3>3. CASE ~ P.resumes
      BY <1>2, <2>2, <2>3, <2>5, <3>1, <3>3
    <3>. QED BY <3>2, <3>3
  <2>. QED BY <1>2, <2>4, <2>5
<1>. HIDE DEF out
<1>7. /\ Q \in ProcState /\ Q.runner = P.runner /\ Q.life = P.life /\ Q.signal = P.signal /\ Q.spoke
      /\ Q.inbox = Tail(P.inbox) /\ Q.turn = Head(P.inbox) /\ Q.out = out
  BY <1>2, <1>4, <1>6 DEF ProcState
<1>. HIDE DEF Q
<1>8. ASSUME NEW r \in Runner, session[r].sawInit => P.spoke, Carries(P, session[r], run.turn)
      PROVE  Carries(Q, session[r], run.turn)
  <2>. DEFINE t == run.turn
  <2>1. P.inbox = <<t>> /\ NoResultOf(P.out, t) /\ NoResult(session[r].queue)
    BY <1>1, <1>8 DEF Carries
  <2>2. Q.inbox = <<>> /\ Q.turn = t /\ t # 0
    BY <1>4, <1>7, <2>1, NumbersApart
  <2>3. CASE out = P.out
    BY <1>7, <1>8, <2>1, <2>2, <2>3 DEF Carries
  <2>4. CASE ~ P.spoke /\ out = <<Event("init", 0)>>
    <3>1. DOMAIN Q.out = {1} /\ Q.out[1].type = "init"
      BY <1>7, <2>4 DEF Event
    <3>. QED BY <1>8, <2>1, <2>2, <3>1 DEF Carries, NoResult, NoResultOf
  <2>5. CASE ~ P.spoke /\ out = <<Event("result", 0), Event("init", 0)>>
    <3>1. /\ DOMAIN Q.out = {1, 2} /\ Len(Q.out) = 2 /\ Q.out[1].turn = 0
          /\ Q.out[2].type = "init"
      BY <1>7, <2>5 DEF Event
    <3>2. ~ session[r].sawInit
      BY <1>8, <2>5
    <3>. HIDE DEF t
    <3>. QED BY <1>8, <2>1, <2>2, <3>1, <3>2 DEF Carries, NoResult, NoResultOf, t
  <2>. QED BY <1>6, <2>3, <2>4, <2>5
<1>9. asked' \in 0 .. MaxAsks /\ stopped' = stopped
  BY <1>1 DEF ClaudeInv, ClaudeTypes, aux
<1>10. ~ Clean(P)
  BY <1>1 DEF Clean
<1>. QED BY <1>1, <1>3, <1>7, <1>8, <1>9, <1>10, ProcessTalks

LEMMA ClaudeAsksKeeps ==
    ASSUME ClaudeInv, NEW p \in Proc, NEW type \in {"ask", "plan"}, ClaudeAsks(p, type)
    PROVE  ClaudeInv'
<1>. DEFINE P == procs[p]
            ev == Ask(type, P.turn, asked')
            Q == [P EXCEPT !.waits = asked', !.out = Append(P.out, ev)]
<1>1. /\ Alive(p) /\ P.turn # 0 /\ asked < MaxAsks /\ asked' = asked + 1
      /\ procs' = [procs EXCEPT ![p].waits = asked', ![p].out = Append(@, Ask(type, procs[p].turn, asked'))]
      /\ UNCHANGED <<reader, session, stops, pidFile, cached, run, shown, ended, stopped>>
  BY DEF ClaudeAsks
<1>2. procs \in [Proc -> ProcState] /\ P \in ProcState /\ P.turn \in Turn /\ P.out \in Seq(Said)
  BY <1>1, Typed DEF ClaudeInv, ProcState
<1>3. asked' \in 1 .. MaxAsks /\ asked' \in 0 .. MaxAsks
  BY <1>1, ClaudeSessionAssumption DEF ClaudeInv, ClaudeTypes
<1>4. ev \in Said /\ ev.type \in {"ask", "plan"}
  BY <1>2, <1>3, SaidHas DEF Ask
<1>5. procs' = [procs EXCEPT ![p] = Q]
  BY <1>1, <1>2 DEF ProcState
<1>. HIDE DEF ev
<1>6. /\ Append(P.out, ev) \in Seq(Said) /\ Len(P.out) \in Nat /\ DOMAIN P.out = 1 .. Len(P.out)
      /\ DOMAIN Append(P.out, ev) = 1 .. Len(P.out) + 1 /\ Len(Append(P.out, ev)) = Len(P.out) + 1
      /\ Append(P.out, ev)[Len(P.out) + 1] = ev
      /\ \A i \in 1 .. Len(P.out) : Append(P.out, ev)[i] = P.out[i]
  BY <1>2, <1>4, AppendsOne
<1>7. /\ Q \in ProcState /\ Q.runner = P.runner /\ Q.life = P.life /\ Q.signal = P.signal /\ Q.spoke = P.spoke
      /\ Q.inbox = P.inbox /\ Q.turn = P.turn /\ Q.out = Append(P.out, ev)
  BY <1>2, <1>3, <1>6 DEF ProcState
<1>8. P.spoke
  BY <1>1 DEF ClaudeInv, ResultsHaveTheirTurn
<1>. HIDE DEF Q, P
<1>9. ASSUME NEW r \in Runner, Carries(P, session[r], run.turn)
      PROVE  Carries(Q, session[r], run.turn)
  <2>1. NoResult(P.out) => NoResult(Q.out)
    BY <1>4, <1>6, <1>7 DEF NoResult
  <2>2. \A t : NoResultOf(P.out, t) => NoResultOf(Q.out, t)
    BY <1>4, <1>6, <1>7 DEF NoResultOf
  <2>3. \A i \in DOMAIN Q.out : Q.out[i].type = "result" => i \in DOMAIN P.out /\ P.out[i] = Q.out[i]
    BY <1>4, <1>6, <1>7
  <2>4. Len(P.out) >= 2 => Len(Q.out) >= 2 /\ Q.out[2] = P.out[2]
    BY <1>6, <1>7
  <2>. QED BY <1>7, <1>9, <2>1, <2>2, <2>3, <2>4 DEF Carries
<1>10. ~ Clean(P)
  BY <1>1 DEF Clean, P
<1>. QED BY <1>1, <1>3, <1>5, <1>7, <1>8, <1>9, <1>10, ProcessTalks DEF P

LEMMA ClaudeFinishesKeeps ==
    ASSUME ClaudeInv, NEW p \in Proc, ClaudeFinishes(p)
    PROVE  ClaudeInv'
<1>. DEFINE P == procs[p]
            ev == Event("result", P.turn)
            Q == [P EXCEPT !.turn = 0, !.out = Append(P.out, ev)]
<1>1. /\ Alive(p) /\ P.turn # 0
      /\ procs' = [procs EXCEPT ![p].turn = 0, ![p].out = Append(@, Event("result", procs[p].turn))]
      /\ UNCHANGED <<reader, session, stops, pidFile, cached, run, shown, ended, aux>>
  BY DEF ClaudeFinishes
<1>2. procs \in [Proc -> ProcState] /\ P \in ProcState /\ P.turn \in Turn /\ P.out \in Seq(Said)
  BY <1>1, Typed DEF ClaudeInv, ProcState
<1>3. asked' \in 0 .. MaxAsks /\ stopped' = stopped
  BY <1>1 DEF ClaudeInv, ClaudeTypes, aux
<1>4. ev \in Said /\ ev.type = "result" /\ ev.turn = P.turn
  BY <1>2, SaidHas DEF Event
<1>5. procs' = [procs EXCEPT ![p] = Q]
  BY <1>1, <1>2 DEF ProcState
<1>. HIDE DEF ev
<1>6. /\ Append(P.out, ev) \in Seq(Said) /\ Len(P.out) \in Nat /\ DOMAIN P.out = 1 .. Len(P.out)
      /\ DOMAIN Append(P.out, ev) = 1 .. Len(P.out) + 1 /\ Len(Append(P.out, ev)) = Len(P.out) + 1
      /\ Append(P.out, ev)[Len(P.out) + 1] = ev
      /\ \A i \in 1 .. Len(P.out) : Append(P.out, ev)[i] = P.out[i]
  BY <1>2, <1>4, AppendsOne
<1>7. /\ Q \in ProcState /\ Q.runner = P.runner /\ Q.life = P.life /\ Q.signal = P.signal /\ Q.spoke = P.spoke
      /\ Q.inbox = P.inbox /\ Q.turn = 0 /\ Q.out = Append(P.out, ev)
  BY <1>2, <1>3, <1>6 DEF ProcState
<1>8. P.spoke
  BY <1>1 DEF ClaudeInv, ResultsHaveTheirTurn
<1>. HIDE DEF Q, P
<1>9. ASSUME NEW r \in Runner, Carries(P, session[r], run.turn)
      PROVE  Carries(Q, session[r], run.turn)
  <2>1. P.turn = run.turn /\ NoResultOf(P.out, run.turn) /\ NoResult(session[r].queue) /\ P.inbox = <<>>
    BY <1>1, <1>9 DEF Carries, P
  <2>2. \A i \in DOMAIN Q.out : \/ i \in DOMAIN P.out /\ P.out[i] = Q.out[i]
                                \/ i = Len(P.out) + 1 /\ Q.out[i] = ev
    BY <1>6, <1>7
  <2>3. Len(P.out) >= 2 => Len(Q.out) >= 2 /\ Q.out[2] = P.out[2]
    BY <1>6, <1>7
  <2>4. \A i, j \in DOMAIN Q.out :
          Q.out[i].type = "result" /\ Q.out[i].turn = run.turn /\ Q.out[j].type = "result" /\ Q.out[j].turn = run.turn
            => i = j
    BY <2>1, <2>2 DEF NoResultOf
  <2>5. \A i \in DOMAIN Q.out : Q.out[i].type = "result" /\ Q.out[i].turn # run.turn =>
          i = 1 /\ Len(Q.out) >= 2 /\ Q.out[2].type = "init" /\ ~ session[r].sawInit
    BY <1>4, <1>9, <2>1, <2>2, <2>3 DEF Carries
  <2>. QED BY <1>7, <2>1, <2>4, <2>5 DEF Carries, NoResult
<1>10. ~ Clean(P)
  BY <1>1 DEF Clean, P
<1>. QED BY <1>1, <1>3, <1>5, <1>7, <1>8, <1>9, <1>10, ProcessTalks DEF P

(* A step of a reader, of a turn or of an answer, with the session of r:   *)
(* what process g said moves on to the queue or out of it.                 *)
LEMMA ExchangeKeeps ==
    ASSUME ClaudeInv, Talking, NEW r \in Runner,
           UNCHANGED <<pidFile, run, asked, stopped, ended>>, shown' \subseteq 1 .. MaxAsks,
           reader' \in [Proc -> ReaderState],
           \A p \in Proc : reader'[p].at = "translating" => reader'[p].ev \in PlanAsk,
           \A x \in Runner : x # r => session'[x] = session[x],
           session'[r].idle = session[r].idle,
           \A p \in Proc :
              /\ procs'[p].spoke = procs[p].spoke /\ procs'[p].inbox = procs[p].inbox /\ procs'[p].turn = procs[p].turn
              /\ procs[p].out = <<>> => procs'[p].out = <<>>
              /\ NoResult(procs[p].out) => NoResult(procs'[p].out)
              /\ procs'[p].out = procs[p].out \/ procs[p].runner = r,
           session[r].generation # Nobody =>
              LET g == session[r].generation IN
              /\ procs[g].life = "alive" /\ session'[r].sawInit => session[r].sawInit \/ procs[g].spoke
              /\ Carries(procs[g], session[r], run.turn) => Carries(procs'[g], session'[r], run.turn)
    PROVE  ClaudeInv'
<1>. USE DEF ClaudeInv
<1>1. SessionHoldsProcess' /\ StopsAwait' /\ NoStrayProcess'
  <2>1. \A x \in Runner : TurnActive(x) \/ session[x].idle => TurnActive(x)' \/ session'[x].idle
    BY DEF TurnActive
  <2>. QED BY <2>1, TalkKeeps
<1>2. ClaudeTypes'
  BY DEF ClaudeTypes, Talking
<1>3. (\A p \in Proc : Alive(p) /\ ~ procs[p].spoke => procs[p].out = <<>> /\ procs[p].turn = 0)'
  BY DEF ResultsHaveTheirTurn, Alive, Talking
<1>4. ASSUME NEW x \in Runner
      PROVE  LET g == session'[x].generation IN
             /\ g # Nobody /\ procs'[g].life = "alive" /\ session'[x].sawInit => procs'[g].spoke
             /\ run'.pc = "consuming" /\ run'.runner = x =>
                   g # Nobody /\ Carries(procs'[g], session'[x], run'.turn)
             /\ ~ (run'.pc = "consuming" /\ run'.runner = x) /\ IsRunning(x)' =>
                   Clean(procs'[session'[x].current])
  <2>. DEFINE g == session[x].generation
  <2>1. session'[x].generation = g /\ session'[x].current = session[x].current /\ run' = run
    BY DEF Talking
  <2>2. g # Nobody => g \in Proc /\ procs[g].runner = x /\ procs'[g].life = procs[g].life
                      /\ procs'[g].spoke = procs[g].spoke
    BY Typed DEF SessionState, Talking, SessionHoldsProcess
  <2>3. /\ g # Nobody /\ procs[g].life = "alive" /\ session[x].sawInit => procs[g].spoke
        /\ run.pc = "consuming" /\ run.runner = x => g # Nobody /\ Carries(procs[g], session[x], run.turn)
    BY DEF ResultsHaveTheirTurn
  <2>4. g # Nobody /\ procs'[g].life = "alive" /\ session'[x].sawInit => procs'[g].spoke
    <3>1. CASE x = r
      BY <2>2, <2>3, <3>1
    <3>2. CASE x # r
      BY <2>2, <2>3, <3>2
    <3>. QED BY <3>1, <3>2
  <2>5. ASSUME run.pc = "consuming", run.runner = x PROVE g # Nobody /\ Carries(procs'[g], session'[x], run.turn)
    <3>1. CASE x = r
      BY <2>3, <2>5, <3>1
    <3>2. CASE x # r
      <4>1. g # Nobody /\ Carries(procs[g], session[x], run.turn)
        BY <2>3, <2>5
      <4>2. /\ procs'[g].out = procs[g].out /\ procs'[g].inbox = procs[g].inbox
            /\ procs'[g].turn = procs[g].turn /\ session'[x] = session[x]
        BY <2>2, <3>2, <4>1
      <4>. QED BY <4>1, <4>2, CarriesAlike
    <3>. QED BY <3>1, <3>2
  <2>6. ASSUME ~ (run.pc = "consuming" /\ run.runner = x), IsRunning(x)' PROVE Clean(procs'[session[x].current])
    <3>1. session[x].current \in Proc /\ IsRunning(x)
      BY <2>1, <2>6, Typed DEF IsRunning, Alive, SessionState, Talking
    <3>2. Clean(procs[session[x].current])
      BY <2>6, <3>1 DEF ResultsHaveTheirTurn
    <3>. QED BY <3>1, <3>2 DEF Clean
  <2>. HIDE DEF g
  <2>. QED BY <2>1, <2>4, <2>5, <2>6 DEF g
<1>. QED BY <1>1, <1>2, <1>3, <1>4 DEF ResultsHaveTheirTurn, TurnEndsWithItsOwnResult

\* What is taken from the front of what a process said.
LEMMA TakesNoResult ==
    ASSUME NEW s \in Seq(Said), s # <<>>
    PROVE  /\ NoResult(s) => NoResult(Tail(s))
           /\ \A t : NoResultOf(s, t) => NoResultOf(Tail(s), t)
  BY TakesOne DEF NoResult, NoResultOf

\* A queue that gained no result.
LEMMA CarriesWithQueue ==
    ASSUME NEW P, NEW S, NEW T, NEW t, Carries(P, S, t), T.sawInit = S.sawInit,
           \A i \in DOMAIN T.queue : T.queue[i].type = "result" =>
              \E j \in DOMAIN S.queue : S.queue[j] = T.queue[i]
    PROVE  Carries(P, T, t)
<1>1. NoResult(S.queue) => NoResult(T.queue)
  BY DEF NoResult
<1>2. \A i \in DOMAIN T.queue : T.queue[i].type = "result" => T.queue[i].turn = t /\ T.sawInit /\ NoResult(P.out)
  BY DEF Carries
<1>. QED BY <1>1, <1>2 DEF Carries

LEMMA ReaderTranslatedKeeps ==
    ASSUME ClaudeInv, NEW p \in Proc, ReaderTranslated(p)
    PROVE  ClaudeInv'
<1>. USE DEF ClaudeInv
<1>. DEFINE r == procs[p].runner
            ev == reader[p].ev
            T == [session[r] EXCEPT !.queue = Append(session[r].queue, ev)]
<1>1. /\ reader[p].at = "translating" /\ reader' = [reader EXCEPT ![p].at = "reading"]
      /\ session' = [session EXCEPT ![r].queue = Append(@, reader[p].ev)]
      /\ UNCHANGED <<procs, stops, pidFile, cached, run, shown, ended, aux>>
  BY DEF ReaderTranslated, Queued
<1>2. /\ reader' \in [Proc -> ReaderState]
      /\ \A x \in Proc : reader'[x].at = "translating" => reader'[x].ev \in PlanAsk
  <2>1. reader \in [Proc -> ReaderState] /\ reader[p] \in ReaderState
    BY DEF ClaudeTypes
  <2>2. [reader[p] EXCEPT !.at = "reading"] \in ReaderState /\ [reader[p] EXCEPT !.at = "reading"].at = "reading"
    BY <2>1 DEF ReaderState
  <2>. QED BY <1>1, <2>1, <2>2 DEF ClaudeTypes
<1>3. ev \in ToTell /\ ev.type = "plan"
  BY <1>1 DEF ClaudeTypes, PlanAsk, ToTell, Said, Ask, Event
<1>4. session \in [Runner -> SessionState]
  BY Typed
<1>5. CASE r \in Runner
  <2>1. session[r] \in SessionState /\ session[r].queue \in Seq(ToTell)
    BY <1>5, Typed DEF SessionState
  <2>2. session' = [session EXCEPT ![r] = T]
    BY <1>1, <1>4, <1>5
  <2>3. /\ Append(session[r].queue, ev) \in Seq(ToTell)
        /\ \A i \in DOMAIN Append(session[r].queue, ev) :
              Append(session[r].queue, ev)[i].type = "result" =>
                 i \in DOMAIN session[r].queue /\ Append(session[r].queue, ev)[i] = session[r].queue[i]
    BY <1>3, <2>1, AppendsOne
  <2>4. /\ T \in SessionState /\ T.current = session[r].current /\ T.generation = session[r].generation
        /\ T.streamEnded = session[r].streamEnded /\ T.idle = session[r].idle /\ T.sawInit = session[r].sawInit
        /\ T.queue = Append(session[r].queue, ev)
    BY <2>1, <2>3 DEF SessionState
  <2>. HIDE DEF T, ev
  <2>5. /\ session' \in [Runner -> SessionState] /\ session'[r] = T
        /\ \A x \in Runner : x # r => session'[x] = session[x]
    BY <1>4, <1>5, <2>2, <2>4
  <2>6. ASSUME NEW g \in Proc, Carries(procs[g], session[r], run.turn)
        PROVE  Carries(procs[g], session'[r], run.turn)
    <3>1. \A i \in DOMAIN T.queue : T.queue[i].type = "result" =>
             \E j \in DOMAIN session[r].queue : session[r].queue[j] = T.queue[i]
      BY <2>3, <2>4
    <3>2. Carries(procs[g], T, run.turn)
      BY <2>4, <2>6, <3>1, CarriesWithQueue
    <3>. QED BY <2>5, <3>2
  <2>7. Talking
    BY <1>1, <2>4, <2>5, Typed DEF Talking
  <2>8. session[r].generation # Nobody => session[r].generation \in Proc
    BY <2>1 DEF SessionState
  <2>9. shown' \subseteq 1 .. MaxAsks /\ asked' = asked /\ stopped' = stopped
    BY <1>1 DEF ClaudeTypes, aux
  <2>. HIDE DEF r
  <2>. QED BY <1>1, <1>2, <1>5, <2>4, <2>5, <2>6, <2>7, <2>8, <2>9, ExchangeKeeps
<1>6. CASE r \notin Runner
  <2>1. session' = session
    BY <1>1, <1>4, <1>6
  <2>2. Talking /\ 1 \in Runner
    BY <1>1, <2>1, Typed, NumbersApart DEF Talking
  <2>3. shown' \subseteq 1 .. MaxAsks /\ asked' = asked /\ stopped' = stopped
    BY <1>1 DEF ClaudeTypes, aux
  <2>. QED BY <1>1, <1>2, <2>1, <2>2, <2>3, ExchangeKeeps
<1>. QED BY <1>5, <1>6

(* The next event leaves what the process said: an init opens the queue,   *)
(* a result passes into it after the init only.                            *)
LEMMA TakesCarries ==
    ASSUME NEW P, NEW Q, NEW S, NEW T, NEW t, Carries(P, S, t),
           P.out \in Seq(Said), P.out # <<>>, S.queue \in Seq(ToTell), S.sawInit \in BOOLEAN,
           Q.out = Tail(P.out), Q.inbox = P.inbox, Q.turn = P.turn,
           \/ Head(P.out).type = "init" /\ T.queue = S.queue /\ T.sawInit = TRUE
           \/ /\ Head(P.out).type # "result" \/ ~ S.sawInit
              /\ T.sawInit = S.sawInit /\ T.queue = S.queue
           \/ /\ Head(P.out).type # "init" /\ S.sawInit
              /\ T.sawInit = S.sawInit /\ T.queue = Append(S.queue, Head(P.out))
    PROVE  Carries(Q, T, t)
<1>. DEFINE ev == Head(P.out)
<1>1. /\ Q.out \in Seq(Said) /\ Len(P.out) \in Nat \ {0} /\ DOMAIN P.out = 1 .. Len(P.out)
      /\ DOMAIN Q.out = 1 .. Len(P.out) - 1
      /\ ev = P.out[1] /\ ev \in Said /\ \A i \in 1 .. Len(P.out) - 1 : Q.out[i] = P.out[i + 1]
  BY TakesOne
<1>. HIDE DEF ev
<1>2. /\ NoResult(P.out) => NoResult(Q.out)
      /\ NoResultOf(P.out, t) => NoResultOf(Q.out, t)
  BY TakesNoResult
<1>3. \A i, j \in DOMAIN Q.out :
         Q.out[i].type = "result" /\ Q.out[i].turn = t /\ Q.out[j].type = "result" /\ Q.out[j].turn = t => i = j
  <2>. SUFFICES ASSUME NEW i \in DOMAIN Q.out, NEW j \in DOMAIN Q.out,
                       Q.out[i].type = "result", Q.out[i].turn = t, Q.out[j].type = "result", Q.out[j].turn = t
                PROVE  i = j
    OBVIOUS
  <2>1. i + 1 \in DOMAIN P.out /\ j + 1 \in DOMAIN P.out /\ Q.out[i] = P.out[i + 1] /\ Q.out[j] = P.out[j + 1]
    BY <1>1
  <2>2. i + 1 = j + 1
    BY <2>1 DEF Carries
  <2>. QED BY <1>1, <2>2
<1>4. \A i \in DOMAIN Q.out : Q.out[i].type = "result" => Q.out[i].turn = t
  <2>. SUFFICES ASSUME NEW i \in DOMAIN Q.out, Q.out[i].type = "result", Q.out[i].turn # t
                PROVE  FALSE
    OBVIOUS
  <2>1. i + 1 \in DOMAIN P.out /\ Q.out[i] = P.out[i + 1] /\ i + 1 # 1
    BY <1>1
  <2>. QED BY <2>1 DEF Carries
<1>5. CASE T.queue = S.queue /\ (T.sawInit = TRUE \/ T.sawInit = S.sawInit)
  BY <1>2, <1>3, <1>4, <1>5 DEF Carries
<1>6. CASE ev.type # "init" /\ S.sawInit /\ T.sawInit = S.sawInit /\ T.queue = Append(S.queue, ev)
  <2>1. ev \in ToTell
    BY <1>1, <1>6, WhatIsSaid
  <2>2. /\ Len(S.queue) \in Nat /\ DOMAIN S.queue = 1 .. Len(S.queue) /\ DOMAIN T.queue = 1 .. Len(S.queue) + 1
        /\ T.queue[Len(S.queue) + 1] = ev /\ \A i \in 1 .. Len(S.queue) : T.queue[i] = S.queue[i]
    BY <1>6, <2>1, AppendsOne
  <2>3. CASE ev.type = "result"
    <3>1. ev.turn = t /\ 1 \in DOMAIN P.out
      BY <1>1, <1>6, <2>3 DEF Carries
    <3>2. ~ NoResultOf(P.out, t) /\ ~ NoResult(P.out)
      BY <1>1, <2>3, <3>1 DEF NoResultOf, NoResult
    <3>3. Q.inbox = <<>> /\ Q.turn = 0 /\ NoResult(S.queue)
      BY <3>2 DEF Carries, NoResult
    <3>4. NoResult(Q.out)
      <4>. SUFFICES ASSUME NEW i \in DOMAIN Q.out, Q.out[i].type = "result" PROVE FALSE
        BY DEF NoResult
      <4>1. i + 1 \in DOMAIN P.out /\ Q.out[i] = P.out[i + 1] /\ i + 1 # 1 /\ Q.out[i].turn = t
        BY <1>1, <1>4
      <4>. QED BY <1>1, <2>3, <3>1, <4>1 DEF Carries
    <3>5. \A i \in DOMAIN T.queue : T.queue[i].type = "result" => T.queue[i].turn = t
      BY <2>2, <3>1, <3>3 DEF NoResult
    <3>. QED BY <1>3, <1>4, <1>6, <3>3, <3>4, <3>5 DEF Carries
  <2>4. CASE ev.type # "result"
    <3>1. NoResult(S.queue) => NoResult(T.queue)
      BY <2>2, <2>4 DEF NoResult
    <3>2. \A i \in DOMAIN T.queue : T.queue[i].type = "result" =>
             T.queue[i].turn = t /\ T.sawInit /\ NoResult(Q.out)
      BY <1>2, <1>6, <2>2, <2>4 DEF Carries
    <3>. QED BY <1>2, <1>3, <1>4, <3>1, <3>2 DEF Carries
  <2>. QED BY <2>3, <2>4
<1>. QED BY <1>5, <1>6 DEF ev

\* One line leaves what p said; a request that was granted before is answered.
LEMMA LineTaken ==
    ASSUME ClaudeTypes, NEW p \in Proc, procs[p].out # <<>>, NEW c,
           LET taken == [procs EXCEPT ![p].out = Tail(@)]
           IN  procs' = taken \/ procs' = [taken EXCEPT ![c].waits = Nothing]
    PROVE  /\ procs' \in [Proc -> ProcState]
           /\ procs'[p].out = Tail(procs[p].out)
           /\ \A x \in Proc : x # p => procs'[x].out = procs[x].out
           /\ \A x \in Proc :
                /\ procs'[x].runner = procs[x].runner /\ procs'[x].life = procs[x].life
                /\ procs'[x].signal = procs[x].signal /\ procs'[x].spoke = procs[x].spoke
                /\ procs'[x].inbox = procs[x].inbox /\ procs'[x].turn = procs[x].turn
<1>. DEFINE P == procs[p]
            Q == [P EXCEPT !.out = Tail(P.out)]
            taken == [procs EXCEPT ![p].out = Tail(@)]
<1>1. procs \in [Proc -> ProcState] /\ P \in ProcState /\ P.out \in Seq(Said) /\ \A x \in Proc : procs[x] \in ProcState
  BY Typed DEF ProcState
<1>2. Tail(P.out) \in Seq(Said)
  BY <1>1, TakesOne
<1>3. /\ Q \in ProcState /\ Q.out = Tail(P.out) /\ Q.runner = P.runner /\ Q.life = P.life
      /\ Q.signal = P.signal /\ Q.spoke = P.spoke /\ Q.inbox = P.inbox /\ Q.turn = P.turn
  BY <1>1, <1>2 DEF ProcState
<1>4. taken = [procs EXCEPT ![p] = Q]
  BY <1>1
<1>. HIDE DEF Q
<1>5. taken \in [Proc -> ProcState] /\ taken[p] = Q /\ \A x \in Proc : x # p => taken[x] = procs[x]
  BY <1>1, <1>3, <1>4
<1>. HIDE DEF taken
<1>6. CASE procs' = taken
  BY <1>3, <1>5, <1>6
<1>7. CASE procs' = [taken EXCEPT ![c].waits = Nothing]
  <2>1. CASE c \notin Proc
    <3>1. procs' = taken
      BY <1>5, <1>7, <2>1
    <3>. QED BY <1>6, <3>1
  <2>2. CASE c \in Proc
    <3>. DEFINE R == [taken[c] EXCEPT !.waits = Nothing]
    <3>1. /\ R \in ProcState /\ R.out = taken[c].out /\ R.runner = taken[c].runner /\ R.life = taken[c].life
          /\ R.signal = taken[c].signal /\ R.spoke = taken[c].spoke /\ R.inbox = taken[c].inbox
          /\ R.turn = taken[c].turn
      <4>1. taken[c] \in ProcState /\ Nothing \in 0 .. MaxAsks
        BY <1>5, <2>2, NumbersApart
      <4>. QED BY <4>1 DEF ProcState
    <3>2. procs' = [taken EXCEPT ![c] = R]
      BY <1>7
    <3>. HIDE DEF R
    <3>3. procs' \in [Proc -> ProcState] /\ procs'[c] = R /\ \A x \in Proc : x # c => procs'[x] = taken[x]
      BY <1>5, <2>2, <3>1, <3>2
    <3>4. \A x \in Proc :
             /\ procs'[x].out = taken[x].out /\ procs'[x].runner = taken[x].runner /\ procs'[x].life = taken[x].life
             /\ procs'[x].signal = taken[x].signal /\ procs'[x].spoke = taken[x].spoke
             /\ procs'[x].inbox = taken[x].inbox /\ procs'[x].turn = taken[x].turn
      BY <3>1, <3>3
    <3>. QED BY <1>3, <1>5, <3>3, <3>4
  <2>. QED BY <2>1, <2>2
<1>. QED BY <1>6, <1>7 DEF taken

LEMMA ReaderTakesKeeps ==
    ASSUME ClaudeInv, NEW p \in Proc, ReaderTakes(p)
    PROVE  ClaudeInv'
<1>. USE DEF ClaudeInv
<1>. DEFINE P == procs[p]
            r == P.runner
            S == session[r]
            ev == Head(P.out)
            mute == p # S.generation
            asks == ev.type \in {"ask", "plan"} /\ S.sawInit /\ ~ S.autoApprove
            auto == ev.type \in {"ask", "plan"} /\ S.sawInit /\ S.autoApprove
            T == IF mute THEN S
                 ELSE IF ev.type = "init" THEN [S EXCEPT !.sawInit = TRUE]
                 ELSE IF asks THEN [S EXCEPT !.pending = S.pending \cup {ev.id},
                                             !.queue = IF ev.type = "plan" THEN S.queue ELSE Append(S.queue, ev)]
                 ELSE IF auto \/ ~ S.sawInit THEN S
                 ELSE [S EXCEPT !.queue = Append(S.queue, ev)]
<1>1. P.out # <<>> /\ UNCHANGED <<stops, pidFile, cached, run, shown, asked, stopped, ended>>
  BY DEF ReaderTakes
<1>2. P \in ProcState /\ P.out \in Seq(Said) /\ ev \in Said /\ r \in Runner
  BY <1>1, Typed, TakesOne DEF ProcState, SessionHoldsProcess
<1>3. /\ session \in [Runner -> SessionState] /\ S \in SessionState /\ S.queue \in Seq(ToTell)
      /\ S.sawInit \in BOOLEAN /\ S.pending \subseteq 1 .. MaxAsks /\ S.generation \in Proc \cup {Nobody}
  BY <1>2, Typed DEF SessionState
<1>4. LET taken == [procs EXCEPT ![p].out = Tail(@)]
      IN  procs' = taken \/ procs' = [taken EXCEPT ![S.current].waits = Nothing]
  BY DEF ReaderTakes
<1>5. /\ procs' \in [Proc -> ProcState]
      /\ procs'[p].out = Tail(P.out)
      /\ \A x \in Proc : x # p => procs'[x].out = procs[x].out
      /\ \A x \in Proc :
           /\ procs'[x].runner = procs[x].runner /\ procs'[x].life = procs[x].life
           /\ procs'[x].signal = procs[x].signal /\ procs'[x].spoke = procs[x].spoke
           /\ procs'[x].inbox = procs[x].inbox /\ procs'[x].turn = procs[x].turn
  BY <1>1, <1>4, LineTaken
<1>6. session' = [session EXCEPT ![r] = T]
  <2>1. session' = IF mute THEN session
                   ELSE IF ev.type = "init" THEN [session EXCEPT ![r].sawInit = TRUE]
                   ELSE IF asks THEN [session EXCEPT ![r].pending = @ \cup {ev.id},
                                                     ![r].queue = IF ev.type = "plan" THEN @ ELSE Append(@, ev)]
                   ELSE IF auto \/ ~ S.sawInit THEN session
                   ELSE [session EXCEPT ![r].queue = Append(@, ev)]
    BY DEF ReaderTakes, Queued
  <2>. QED BY <1>2, <1>3, <2>1
<1>7. /\ reader' \in [Proc -> ReaderState]
      /\ \A x \in Proc : reader'[x].at = "translating" => reader'[x].ev \in PlanAsk
  <2>1. reader \in [Proc -> ReaderState] /\ reader[p] \in ReaderState
    BY DEF ClaudeTypes
  <2>2. \/ reader' = reader
        \/ reader' = [reader EXCEPT ![p].at = "over"]
        \/ ev.type = "plan" /\ reader' = [reader EXCEPT ![p] = [at |-> "translating", ev |-> ev]]
    BY DEF ReaderTakes
  <2>3. [reader[p] EXCEPT !.at = "over"] \in ReaderState /\ [reader[p] EXCEPT !.at = "over"].at = "over"
    BY <2>1 DEF ReaderState
  <2>4. /\ ev.type = "plan" => ev \in PlanAsk
        /\ [at |-> "translating", ev |-> ev] \in ReaderState
    BY <1>2, WhatIsSaid DEF ReaderState
  <2>5. CASE reader' = reader
    BY <2>5 DEF ClaudeTypes
  <2>6. CASE reader' = [reader EXCEPT ![p].at = "over"]
    BY <2>1, <2>3, <2>6 DEF ClaudeTypes
  <2>7. CASE ev.type = "plan" /\ reader' = [reader EXCEPT ![p] = [at |-> "translating", ev |-> ev]]
    <3>. HIDE DEF ev
    <3>. QED BY <2>1, <2>4, <2>7 DEF ClaudeTypes
  <2>. QED BY <2>2, <2>5, <2>6, <2>7
<1>8. /\ ev.type # "init" => ev \in ToTell
      /\ ev.type \in {"ask", "plan"} => ev.id \in 1 .. MaxAsks
      /\ ev.type \in {"init", "result", "ask", "plan"}
  BY <1>2, WhatIsSaid
<1>9. ev.type # "init" => Append(S.queue, ev) \in Seq(ToTell)
  BY <1>3, <1>8, AppendsOne
<1>10. /\ T \in SessionState /\ T.current = S.current /\ T.generation = S.generation
       /\ T.streamEnded = S.streamEnded /\ T.idle = S.idle
       /\ mute => T = S
       /\ ~ mute =>
            \/ ev.type = "init" /\ T.queue = S.queue /\ T.sawInit = TRUE
            \/ (ev.type # "result" \/ ~ S.sawInit) /\ T.sawInit = S.sawInit /\ T.queue = S.queue
            \/ ev.type # "init" /\ S.sawInit /\ T.sawInit = S.sawInit /\ T.queue = Append(S.queue, ev)
  <2>. HIDE DEF ev
  <2>1. CASE mute
    BY <1>3, <2>1
  <2>2. CASE ~ mute /\ ev.type = "init"
    BY <1>3, <2>2 DEF SessionState
  <2>3. CASE ~ mute /\ asks
    BY <1>3, <1>8, <1>9, <2>3 DEF SessionState
  <2>4. CASE ~ mute /\ ev.type # "init" /\ ~ asks
    BY <1>3, <1>8, <1>9, <2>4 DEF SessionState
  <2>. QED BY <2>1, <2>2, <2>3, <2>4
<1>11. P.out = <<>> \/ (P.life = "alive" => P.spoke)
  BY NumbersApart DEF ResultsHaveTheirTurn, Alive
<1>12. NoResult(P.out) => NoResult(Tail(P.out))
  BY <1>1, <1>2, TakesNoResult
<1>. HIDE DEF T, ev, S
<1>13. /\ session' \in [Runner -> SessionState] /\ session'[r] = T
       /\ \A x \in Runner : x # r => session'[x] = session[x]
  BY <1>2, <1>3, <1>6, <1>10
<1>14. Talking
  <2>1. r \in Runner /\ \A x \in Proc : procs[x].life = "new" => x # p
    BY <1>1, <1>2 DEF SessionHoldsProcess
  <2>2. \A x \in Runner : /\ session'[x].current = session[x].current
                          /\ session'[x].generation = session[x].generation
                          /\ session'[x].streamEnded = session[x].streamEnded
    BY <1>10, <1>13 DEF S
  <2>. QED BY <1>1, <1>5, <1>13, <2>1, <2>2 DEF Talking
<1>15. ASSUME NEW g \in Proc, g = session[r].generation
       PROVE  /\ procs[g].life = "alive" /\ session'[r].sawInit => session[r].sawInit \/ procs[g].spoke
              /\ Carries(procs[g], session[r], run.turn) => Carries(procs'[g], session'[r], run.turn)
  <2>1. CASE g # p
    <3>1. T = S /\ procs'[g].out = procs[g].out /\ procs'[g].inbox = procs[g].inbox /\ procs'[g].turn = procs[g].turn
      BY <1>5, <1>10, <1>15, <2>1 DEF S
    <3>. QED BY <1>13, <3>1, CarriesAlike DEF S
  <2>2. CASE g = p
    <3>1. ~ mute
      BY <1>15, <2>2 DEF S
    <3>2. ASSUME Carries(P, S, run.turn) PROVE Carries(procs'[p], T, run.turn)
      <4>1. /\ procs'[p].out = Tail(P.out) /\ procs'[p].inbox = P.inbox /\ procs'[p].turn = P.turn
        BY <1>5
      <4>2. \/ Head(P.out).type = "init" /\ T.queue = S.queue /\ T.sawInit = TRUE
            \/ (Head(P.out).type # "result" \/ ~ S.sawInit) /\ T.sawInit = S.sawInit /\ T.queue = S.queue
            \/ /\ Head(P.out).type # "init" /\ S.sawInit
               /\ T.sawInit = S.sawInit /\ T.queue = Append(S.queue, Head(P.out))
        BY <1>10, <3>1 DEF ev
      <4>. HIDE DEF P
      <4>. QED BY <1>1, <1>2, <1>3, <3>2, <4>1, <4>2, TakesCarries
    <3>. QED BY <1>1, <1>11, <1>13, <2>2, <3>2 DEF S
  <2>. QED BY <2>1, <2>2
<1>16. session[r].generation # Nobody => session[r].generation \in Proc
  BY <1>3 DEF S
<1>17. shown' \subseteq 1 .. MaxAsks /\ session'[r].idle = session[r].idle
  BY <1>1, <1>10, <1>13 DEF ClaudeTypes, S
<1>18. \A x \in Proc :
          /\ procs[x].out = <<>> => procs'[x].out = <<>>
          /\ NoResult(procs[x].out) => NoResult(procs'[x].out)
          /\ procs'[x].out = procs[x].out \/ procs[x].runner = r
  BY <1>1, <1>5, <1>12
<1>. HIDE DEF r
<1>. QED BY <1>1, <1>2, <1>5, <1>7, <1>13, <1>14, <1>15, <1>16, <1>17, <1>18, ExchangeKeeps

LEMMA RespondKeeps ==
    ASSUME ClaudeInv, NEW q, NEW all \in BOOLEAN, Respond(q, all)
    PROVE  ClaudeInv'
<1>. USE DEF ClaudeInv
<1>. DEFINE r == run.runner
            S == session[r]
            p == S.current
            pending == IF IsRunning(r) THEN S.pending \ {q} ELSE S.pending
            T == [S EXCEPT !.autoApprove = S.autoApprove \/ all, !.pending = pending]
            Q == [procs[p] EXCEPT !.waits = Nothing]
<1>1. /\ shown' = shown \ {q}
      /\ session' = [session EXCEPT ![r].autoApprove = @ \/ all,
                                    ![r].pending = IF IsRunning(r) THEN @ \ {q} ELSE @]
      /\ \/ procs' = procs
         \/ IsRunning(r) /\ procs' = [procs EXCEPT ![p].waits = Nothing]
      /\ UNCHANGED <<reader, stops, pidFile, cached, run, asked, stopped, ended>>
  BY DEF Respond
<1>2. session \in [Runner -> SessionState] /\ r \in Runner /\ S \in SessionState /\ procs \in [Proc -> ProcState]
  BY Typed
<1>3. S.autoApprove \in BOOLEAN /\ S.pending \subseteq 1 .. MaxAsks
  BY <1>2 DEF SessionState
<1>4. pending \subseteq 1 .. MaxAsks /\ (S.autoApprove \/ all) \in BOOLEAN
  BY <1>3
<1>5. session' = [session EXCEPT ![r] = T]
  BY <1>1, <1>2
<1>. HIDE DEF pending
<1>6. /\ T \in SessionState /\ T.current = S.current /\ T.generation = S.generation /\ T.idle = S.idle
      /\ T.streamEnded = S.streamEnded /\ T.queue = S.queue /\ T.sawInit = S.sawInit
  BY <1>2, <1>4 DEF SessionState
<1>. HIDE DEF T
<1>7. /\ session' \in [Runner -> SessionState] /\ session'[r] = T
      /\ \A x \in Runner : x # r => session'[x] = session[x]
  BY <1>2, <1>5, <1>6
<1>8. /\ procs' \in [Proc -> ProcState]
      /\ \A x \in Proc :
           /\ procs'[x].out = procs[x].out /\ procs'[x].runner = procs[x].runner /\ procs'[x].life = procs[x].life
           /\ procs'[x].signal = procs[x].signal /\ procs'[x].spoke = procs[x].spoke
           /\ procs'[x].inbox = procs[x].inbox /\ procs'[x].turn = procs[x].turn
  <2>1. CASE procs' = procs
    BY <1>2, <2>1
  <2>2. CASE IsRunning(r) /\ procs' = [procs EXCEPT ![p].waits = Nothing]
    <3>1. p \in Proc /\ procs[p] \in ProcState
      BY <1>2, <2>2, CurrentProcess
    <3>2. /\ Q \in ProcState /\ Q.out = procs[p].out /\ Q.runner = procs[p].runner /\ Q.life = procs[p].life
          /\ Q.signal = procs[p].signal /\ Q.spoke = procs[p].spoke /\ Q.inbox = procs[p].inbox
          /\ Q.turn = procs[p].turn
      BY <3>1, NumbersApart DEF ProcState
    <3>3. procs' = [procs EXCEPT ![p] = Q]
      BY <2>2
    <3>. HIDE DEF Q, p
    <3>4. procs' \in [Proc -> ProcState] /\ procs'[p] = Q /\ \A x \in Proc : x # p => procs'[x] = procs[x]
      BY <1>2, <3>1, <3>2, <3>3
    <3>. QED BY <3>2, <3>4
  <2>. QED BY <1>1, <2>1, <2>2
<1>9. Talking
  BY <1>1, <1>6, <1>7, <1>8 DEF Talking
<1>10. ASSUME NEW g \in Proc, Carries(procs[g], session[r], run.turn)
       PROVE  Carries(procs'[g], session'[r], run.turn)
  <2>1. \A i \in DOMAIN T.queue : T.queue[i].type = "result" => \E j \in DOMAIN S.queue : S.queue[j] = T.queue[i]
    BY <1>6
  <2>2. Carries(procs[g], T, run.turn)
    BY <1>6, <1>10, <2>1, CarriesWithQueue
  <2>. QED BY <1>7, <1>8, <2>2, CarriesAlike
<1>11. session[r].generation # Nobody => session[r].generation \in Proc
  BY <1>2 DEF SessionState
<1>12. /\ shown' \subseteq 1 .. MaxAsks /\ reader' \in [Proc -> ReaderState]
       /\ \A x \in Proc : reader'[x].at = "translating" => reader'[x].ev \in PlanAsk
  BY <1>1 DEF ClaudeTypes
<1>. HIDE DEF r
<1>. QED BY <1>1, <1>2, <1>6, <1>7, <1>8, <1>9, <1>10, <1>11, <1>12, ExchangeKeeps

\* The result that is first in the queue is of the turn, and is the last of it.
LEMMA ResultIsOfTheTurn ==
    ASSUME ClaudeTypes, ResultsHaveTheirTurn, run.pc = "consuming",
           session[run.runner].queue # <<>>, Head(session[run.runner].queue).type = "result"
    PROVE  LET g == session[run.runner].generation IN
           /\ Head(session[run.runner].queue).turn = run.turn
           /\ g \in Proc /\ Clean(procs[g])
<1>. DEFINE S == session[run.runner]
            g == S.generation
<1>1. S \in SessionState /\ S.queue \in Seq(ToTell) /\ g \in Proc \cup {Nobody} /\ run.runner \in Runner
  BY Typed DEF SessionState
<1>2. 1 \in DOMAIN S.queue /\ Head(S.queue) = S.queue[1]
  BY <1>1, TakesOne
<1>3. g # Nobody /\ Carries(procs[g], S, run.turn)
  BY <1>1 DEF ResultsHaveTheirTurn
<1>. HIDE DEF g, S
<1>4. S.queue[1].turn = run.turn /\ NoResult(procs[g].out) /\ ~ NoResult(S.queue)
  <2>1. S.queue[1].type = "result"
    BY <1>2 DEF S
  <2>. QED BY <1>2, <1>3, <2>1 DEF Carries, NoResult
<1>5. procs[g].inbox = <<>> /\ procs[g].turn = 0
  BY <1>3, <1>4 DEF Carries
<1>. QED BY <1>1, <1>2, <1>3, <1>4, <1>5 DEF Clean, S, g

LEMMA RunTakesKeeps ==
    ASSUME ClaudeInv, RunTakes
    PROVE  ClaudeInv'
<1>. USE DEF ClaudeInv
<1>. DEFINE r == run.runner
            S == session[r]
            ev == Head(S.queue)
            R == [S EXCEPT !.queue = Tail(S.queue)]
            T == [S EXCEPT !.queue = Tail(S.queue), !.idle = TRUE]
            rest == [session EXCEPT ![r].queue = Tail(@)]
<1>1. /\ run.pc = "consuming" /\ S.queue # <<>>
      /\ IF ev.type = "result" THEN TurnOver("result", ev.turn, rest)
         ELSE /\ session' = rest
              /\ shown' = IF run.turn \in stopped THEN shown ELSE shown \cup {ev.id}
              /\ UNCHANGED <<run, ended>>
      /\ UNCHANGED <<procs, reader, stops, pidFile, cached, aux>>
  BY DEF RunTakes
<1>2. session \in [Runner -> SessionState] /\ r \in Runner /\ S \in SessionState /\ S.queue \in Seq(ToTell)
  BY Typed DEF SessionState
<1>3. /\ Tail(S.queue) \in Seq(ToTell) /\ ev \in ToTell
      /\ \A i \in DOMAIN Tail(S.queue) : \E j \in DOMAIN S.queue : S.queue[j] = Tail(S.queue)[i]
  <2>1. /\ Tail(S.queue) \in Seq(ToTell) /\ ev \in ToTell /\ Len(S.queue) \in Nat \ {0}
        /\ DOMAIN S.queue = 1 .. Len(S.queue) /\ DOMAIN Tail(S.queue) = 1 .. Len(S.queue) - 1
        /\ \A i \in 1 .. Len(S.queue) - 1 : Tail(S.queue)[i] = S.queue[i + 1]
    BY <1>1, <1>2, TakesOne
  <2>2. ASSUME NEW i \in DOMAIN Tail(S.queue) PROVE i + 1 \in DOMAIN S.queue /\ S.queue[i + 1] = Tail(S.queue)[i]
    BY <2>1
  <2>. QED BY <2>1, <2>2
<1>4. /\ reader' \in [Proc -> ReaderState] /\ pidFile' \in Proc \cup {Nobody} /\ cached' \in Runner
      /\ \A x \in Proc : reader'[x].at = "translating" => reader'[x].ev \in PlanAsk
      /\ stops' \subseteq StopRecord /\ stopped' \subseteq Turn /\ asked' \in 0 .. MaxAsks
  BY <1>1 DEF ClaudeTypes, aux
<1>5. CASE ev.type # "result"
  <2>1. session' = [session EXCEPT ![r] = R]
    BY <1>1, <1>2, <1>5
  <2>2. /\ R \in SessionState /\ R.current = S.current /\ R.generation = S.generation /\ R.idle = S.idle
        /\ R.streamEnded = S.streamEnded /\ R.queue = Tail(S.queue) /\ R.sawInit = S.sawInit
    BY <1>2, <1>3 DEF SessionState
  <2>3. shown' \subseteq 1 .. MaxAsks
    <3>1. ev.type \in {"ask", "plan"}
      BY <1>3, <1>5, WhatIsSaid DEF ToTell
    <3>2. ev.id \in 1 .. MaxAsks
      BY <1>3, <3>1, WhatIsSaid DEF ToTell
    <3>. QED BY <1>1, <1>5, <3>2 DEF ClaudeTypes
  <2>. HIDE DEF R
  <2>4. /\ session' \in [Runner -> SessionState] /\ session'[r] = R
        /\ \A x \in Runner : x # r => session'[x] = session[x]
    BY <1>2, <2>1, <2>2
  <2>5. Talking
    BY <1>1, <2>2, <2>4, Typed DEF Talking
  <2>6. ASSUME NEW g \in Proc, Carries(procs[g], session[r], run.turn)
        PROVE  Carries(procs'[g], session'[r], run.turn)
    <3>1. \A i \in DOMAIN R.queue : R.queue[i].type = "result" => \E j \in DOMAIN S.queue : S.queue[j] = R.queue[i]
      BY <1>3, <2>2
    <3>2. Carries(procs[g], R, run.turn)
      <4>1. Carries(procs[g], S, run.turn) /\ R.sawInit = S.sawInit
        BY <2>2, <2>6
      <4>. HIDE DEF S
      <4>. QED BY <3>1, <4>1, CarriesWithQueue
    <3>. QED BY <1>1, <2>4, <3>2
  <2>7. session[r].generation # Nobody => session[r].generation \in Proc
    BY <1>2 DEF SessionState
  <2>8. UNCHANGED <<pidFile, run, asked, stopped, ended>>
    BY <1>1, <1>5 DEF aux
  <2>. HIDE DEF r
  <2>. QED BY <1>1, <1>2, <1>4, <2>2, <2>3, <2>4, <2>5, <2>6, <2>7, <2>8, ExchangeKeeps
<1>6. CASE ev.type = "result"
  <2>1. /\ ev.turn = run.turn
        /\ S.generation \in Proc /\ Clean(procs[S.generation])
    BY <1>1, <1>6, ResultIsOfTheTurn
  <2>2. /\ ended' = [ended EXCEPT ![run.turn] = [how |-> "result", turn |-> ev.turn]]
        /\ run' = [run EXCEPT !.pc = "none"] /\ shown' = {}
        /\ session' = [rest EXCEPT ![r].idle = TRUE]
    BY <1>1, <1>6 DEF TurnOver
  <2>3. run.turn \in Turn
    BY <1>1 DEF ClaudeTypes
  <2>4. ended' \in [Turn -> End] /\ TurnEndsWithItsOwnResult'
    BY <2>1, <2>2, <2>3, EndIsOwn
  <2>5. run' \in RunRecord /\ run'.pc = "none"
    BY <2>2, RunIsOver
  <2>6. session' = [session EXCEPT ![r] = T]
    BY <1>2, <2>2
  <2>7. /\ T \in SessionState /\ T.current = S.current /\ T.generation = S.generation /\ T.idle
        /\ T.streamEnded = S.streamEnded /\ T.sawInit = S.sawInit
    BY <1>2, <1>3 DEF SessionState
  <2>. HIDE DEF T
  <2>8. /\ session' \in [Runner -> SessionState] /\ session'[r] = T
        /\ \A x \in Runner : x # r => session'[x] = session[x]
    BY <1>2, <2>6, <2>7
  <2>9. Talking
    BY <1>1, <2>7, <2>8, Typed DEF Talking
  <2>10. SessionHoldsProcess' /\ StopsAwait' /\ NoStrayProcess'
    <3>1. \A x \in Runner : TurnActive(x) \/ session[x].idle => TurnActive(x)' \/ session'[x].idle
      BY <2>7, <2>8 DEF TurnActive
    <3>. QED BY <1>1, <2>9, <3>1, TalkKeeps
  <2>11. ClaudeTypes'
    BY <1>4, <2>2, <2>4, <2>5, <2>9 DEF ClaudeTypes, Talking
  <2>12. ASSUME NEW x \in Runner
         PROVE  LET g == session'[x].generation IN
                /\ g # Nobody /\ procs'[g].life = "alive" /\ session'[x].sawInit => procs'[g].spoke
                /\ IsRunning(x)' => Clean(procs'[session'[x].current])
    <3>1. /\ session'[x].generation = session[x].generation /\ session'[x].sawInit = session[x].sawInit
          /\ session'[x].current = session[x].current /\ procs' = procs
      BY <1>1, <2>7, <2>8
    <3>2. ASSUME IsRunning(x)' PROVE Clean(procs[session[x].current])
      <4>1. IsRunning(x)
        BY <3>1, <3>2 DEF IsRunning, Alive
      <4>2. CASE x # r
        BY <4>1, <4>2 DEF ResultsHaveTheirTurn
      <4>3. CASE x = r
        <5>1. session[x].current = session[x].generation
          BY <4>1, CurrentProcess
        <5>. QED BY <2>1, <4>3, <5>1
      <4>. QED BY <4>2, <4>3
    <3>. QED BY <3>1, <3>2 DEF ResultsHaveTheirTurn
  <2>13. ResultsHaveTheirTurn'
    <3>1. (\A x \in Proc : Alive(x) /\ ~ procs[x].spoke => procs[x].out = <<>> /\ procs[x].turn = 0)'
      BY <1>1 DEF ResultsHaveTheirTurn, Alive
    <3>. QED BY <2>5, <2>12, <3>1 DEF ResultsHaveTheirTurn
  <2>. QED BY <2>4, <2>10, <2>11, <2>13
<1>. QED BY <1>5, <1>6

-----------------------------------------------------------------------------
(* The start of a turn                                                     *)

LEMMA OrphanFields ==
    ASSUME ClaudeTypes, NEW orphan \in Proc \cup {Nobody},
           procs' = IF orphan # Nobody /\ Alive(orphan) /\ procs[orphan].signal = "none"
                    THEN [procs EXCEPT ![orphan].signal = "term"] ELSE procs
    PROVE  /\ procs' \in [Proc -> ProcState]
           /\ \A p \in Proc :
                /\ procs'[p].runner = procs[p].runner /\ procs'[p].out = procs[p].out
                /\ procs'[p].life = procs[p].life /\ procs'[p].spoke = procs[p].spoke
                /\ procs'[p].inbox = procs[p].inbox /\ procs'[p].turn = procs[p].turn
                /\ (procs'[p].signal = procs[p].signal \/ (procs[p].signal = "none" /\ procs'[p].signal = "term"))
<1>1. CASE orphan # Nobody /\ Alive(orphan) /\ procs[orphan].signal = "none"
  <2>1. orphan \in Proc /\ procs' = [procs EXCEPT ![orphan].signal = "term"] /\ procs[orphan].signal = "none"
    BY <1>1
  <2>2. /\ procs' \in [Proc -> ProcState] /\ procs'[orphan].signal = "term"
        /\ \A p \in Proc : /\ procs'[p].runner = procs[p].runner /\ procs'[p].out = procs[p].out
                           /\ procs'[p].life = procs[p].life /\ procs'[p].spoke = procs[p].spoke
                           /\ procs'[p].inbox = procs[p].inbox /\ procs'[p].turn = procs[p].turn
                           /\ p # orphan => procs'[p].signal = procs[p].signal
    BY <2>1, SignalledFields
  <2>. QED BY <2>1, <2>2
<1>2. CASE ~ (orphan # Nobody /\ Alive(orphan) /\ procs[orphan].signal = "none")
  <2>1. procs' = procs
    BY <1>2
  <2>. QED BY <2>1, Typed
<1>. QED BY <1>1, <1>2

LEMMA OrphanSignalled ==
    ASSUME ClaudeInv, run.pc = "none", run'.pc = "starting", NEW orphan \in Proc \cup {Nobody},
           procs' = IF orphan # Nobody /\ Alive(orphan) /\ procs[orphan].signal = "none"
                    THEN [procs EXCEPT ![orphan].signal = "term"] ELSE procs,
           session' = [session EXCEPT ![cached].created = TRUE],
           stops' = stops, cached' = cached, ClaudeTypes', UNCHANGED ended
    PROVE  ClaudeInv'
<1>. USE DEF ClaudeInv
<1>. DEFINE T == [session[cached] EXCEPT !.created = TRUE]
<1>1. cached \in Runner /\ session \in [Runner -> SessionState] /\ session[cached] \in SessionState
  BY Typed DEF ClaudeTypes
<1>2. /\ T.current = session[cached].current /\ T.generation = session[cached].generation
      /\ T.idle = session[cached].idle /\ T.queue = session[cached].queue
      /\ T.sawInit = session[cached].sawInit /\ T.streamEnded = session[cached].streamEnded
  BY <1>1 DEF SessionState
<1>3. session' = [session EXCEPT ![cached] = T]
  BY <1>1
<1>. HIDE DEF T
<1>4. \A x \in Runner :
        /\ session'[x].current = session[x].current /\ session'[x].generation = session[x].generation
        /\ session'[x].idle = session[x].idle /\ session'[x].queue = session[x].queue
        /\ session'[x].sawInit = session[x].sawInit /\ session'[x].streamEnded = session[x].streamEnded
  BY <1>1, <1>2, <1>3
<1>5. \A p \in Proc :
        /\ procs'[p].runner = procs[p].runner /\ procs'[p].out = procs[p].out
        /\ procs'[p].life = procs[p].life /\ procs'[p].spoke = procs[p].spoke
        /\ procs'[p].inbox = procs[p].inbox /\ procs'[p].turn = procs[p].turn
        /\ (procs'[p].signal = procs[p].signal \/ (procs[p].signal = "none" /\ procs'[p].signal = "term"))
  BY OrphanFields
<1>6. \A p \in Proc : procs'[p].life = "alive" => Alive(p) /\ procs[p].runner \in Runner
  BY <1>5, NumbersApart DEF Alive, SessionHoldsProcess
<1>7. Stopping
  <2>1. ASSUME NEW p \in Proc, procs'[p].life = "alive"
        PROVE  IF procs'[p].signal = "kill" THEN session'[procs[p].runner].current # p
               ELSE session'[procs[p].runner].current = session[procs[p].runner].current
    <3>1. Alive(p) /\ procs[p].runner \in Runner
      BY <1>6, <2>1
    <3>2. procs'[p].signal = "kill" => procs[p].signal = "kill"
      BY <1>5
    <3>3. procs[p].signal = "kill" => session[procs[p].runner].current # p
      BY <3>1 DEF SessionHoldsProcess
    <3>. QED BY <1>4, <3>1, <3>2, <3>3
  <2>. QED BY <1>4, <1>5, <2>1 DEF Stopping
<1>8. SessionHoldsProcess'
  BY <1>7, StoppingHolds
<1>9. ResultsHaveTheirTurn'
  BY <1>7, StoppingKeepsResults
<1>10. StopsAwait'
  <2>1. \A s \in stops : s.proc \in Proc
    BY DEF ClaudeTypes, StopRecord
  <2>. QED BY <1>5, <2>1 DEF StopsAwait, Alive
<1>11. NoStrayProcess'
  <2>. SUFFICES ASSUME NEW p \in Proc, Alive(p)', procs'[p].signal = "none"
                PROVE  /\ session'[procs'[p].runner].current = p
                       /\ \/ procs'[p].runner = cached'
                          \/ session'[procs'[p].runner].idle
    BY DEF NoStrayProcess
  <2>. DEFINE x == procs[p].runner
  <2>1. Alive(p) /\ procs'[p].runner = x /\ procs[p].signal = "none" /\ x \in Runner
    BY <1>5, <1>6 DEF Alive
  <2>2. session[x].current = p /\ (x = cached \/ session[x].idle)
    BY <2>1 DEF NoStrayProcess, TurnActive
  <2>. HIDE DEF x
  <2>. QED BY <1>4, <2>1, <2>2
<1>. QED BY <1>8, <1>9, <1>10, <1>11 DEF TurnEndsWithItsOwnResult

LEMMA RunStartsKeeps ==
    ASSUME ClaudeInv, NEW otherSession \in BOOLEAN, RunStarts(otherSession)
    PROVE  ClaudeInv'
<1>. DEFINE orphan == IF session[cached].created THEN Nobody ELSE pidFile
            pc == IF IsRunning(cached) /\ otherSession THEN "recycling" ELSE "starting"
<1>1. /\ run.pc = "none" /\ run.turn < MaxTurns
      /\ UNCHANGED <<reader, cached, shown, ended, aux>>
      /\ run' = [run EXCEPT !.pc = pc, !.turn = @ + 1, !.runner = cached, !.watched = FALSE]
  BY DEF RunStarts
<1>2. /\ run \in RunRecord /\ cached \in Runner /\ run.turn + 1 \in Turn
      /\ pidFile \in Proc \cup {Nobody}
  BY <1>1, Typed, ClaudeSessionAssumption DEF ClaudeInv, ClaudeTypes, RunRecord, Turn
<1>3. pc \in {"recycling", "starting"}
  OBVIOUS
<1>4. run' \in RunRecord /\ run'.pc = pc /\ run'.turn \in Turn /\ run'.runner = cached
  <2>. HIDE DEF pc
  <2>. QED BY <1>1, <1>2, <1>3 DEF RunRecord
<1>5. /\ stopped' \subseteq Turn /\ ended' \in [Turn -> End] /\ TurnEndsWithItsOwnResult' /\ cached' \in Runner
      /\ asked' = asked /\ shown' \subseteq 1 .. MaxAsks
  BY <1>1 DEF ClaudeInv, ClaudeTypes, TurnEndsWithItsOwnResult, aux
<1>6. CASE IsRunning(cached) /\ otherSession
  <2>1. BeginsGracefulStop(cached, "recycle")
    BY <1>6 DEF RunStarts
  <2>2. StopsRunner(cached) /\ AddsStop("recycle")
    BY <1>2, <1>6, <2>1, BeginsStopping DEF ClaudeInv
  <2>3. \A x \in Runner : x # cached /\ (x = cached \/ TurnActive(x)) => x = cached' \/ TurnActive(x)'
    BY <1>1 DEF TurnActive
  <2>4. run'.pc = "recycling"
    BY <1>4, <1>6
  <2>. HIDE DEF pc
  <2>. QED BY <1>1, <1>2, <1>4, <1>5, <2>2, <2>3, <2>4, StopKeeps
<1>7. CASE ~ (IsRunning(cached) /\ otherSession)
  <2>1. /\ session' = [session EXCEPT ![cached].created = TRUE]
        /\ procs' = IF orphan # Nobody /\ Alive(orphan) /\ procs[orphan].signal = "none"
                    THEN [procs EXCEPT ![orphan].signal = "term"] ELSE procs
        /\ pidFile' = IF session[cached].created THEN pidFile ELSE Nobody
        /\ stops' = stops
    BY <1>7 DEF RunStarts
  <2>2. orphan \in Proc \cup {Nobody} /\ pidFile' \in Proc \cup {Nobody}
    BY <1>2, <2>1
  <2>3. run'.pc = "starting"
    BY <1>4, <1>7
  <2>. HIDE DEF orphan, pc
  <2>4. procs' \in [Proc -> ProcState] /\ session' \in [Runner -> SessionState]
    <3>1. session \in [Runner -> SessionState] /\ [session[cached] EXCEPT !.created = TRUE] \in SessionState
      <4>1. session \in [Runner -> SessionState] /\ session[cached] \in SessionState
        BY <1>2, Typed DEF ClaudeInv
      <4>. QED BY <4>1 DEF SessionState
    <3>2. session' = [session EXCEPT ![cached] = [session[cached] EXCEPT !.created = TRUE]]
      BY <2>1, <3>1
    <3>3. procs' \in [Proc -> ProcState]
      BY <2>1, <2>2, OrphanFields DEF ClaudeInv
    <3>. QED BY <1>2, <3>1, <3>2, <3>3
  <2>5. ClaudeTypes'
    BY <1>1, <1>4, <1>5, <2>1, <2>2, <2>4 DEF ClaudeTypes, ClaudeInv
  <2>. QED BY <1>1, <2>1, <2>2, <2>3, <2>5, OrphanSignalled
<1>. QED BY <1>6, <1>7

LEMMA LeastHas ==
    ASSUME NEW T, T \subseteq Nat, T # {}
    PROVE  \E n \in T : \A m \in T : n <= m
<1>. DEFINE R == OpToRel(<, Nat)
<1>1. IsWellFoundedOn(R, Nat)
  BY NatLessThanWellFounded, Zenon
<1>2. \A m, n \in Nat : m < n => <<m, n>> \in R
  BY DEF OpToRel
<1>. HIDE DEF R
<1>3. PICK n \in T : \A m \in T : ~ (<<m, n>> \in R)
  BY <1>1, WFMin
<1>4. \A m \in T : ~ (m < n)
  BY <1>2, <1>3
<1>. QED BY <1>4

LEMMA SentCarries ==
    ASSUME NEW P, NEW S, NEW t, P.inbox = <<t>>, P.turn = 0, NoResult(P.out), S.queue = <<>>
    PROVE  Carries(P, S, t)
<1>1. DOMAIN S.queue = {}
  OBVIOUS
<1>. QED BY <1>1 DEF Carries, NoResult, NoResultOf

(* The message goes to the process that runs, which was in no turn.        *)
LEMMA SendsToCurrent ==
    ASSUME ClaudeInv, NEW resumes \in BOOLEAN, RunSends(resumes), IsRunning(run.runner)
    PROVE  ClaudeInv'
<1>. USE DEF ClaudeInv
<1>. DEFINE r == run.runner
            S == session[r]
            c == S.current
            P == procs[c]
            Q == [P EXCEPT !.inbox = Append(P.inbox, run.turn)]
            T == [S EXCEPT !.queue = <<>>, !.stoppedByUser = FALSE, !.idle = FALSE]
<1>0. /\ run.pc = "starting" /\ run' = [run EXCEPT !.pc = "consuming"]
      /\ procs' = [procs EXCEPT ![c].inbox = Append(@, run.turn)]
      /\ session' = [session EXCEPT ![r].queue = <<>>, ![r].stoppedByUser = FALSE, ![r].idle = FALSE]
      /\ UNCHANGED <<reader, pidFile, stops, cached, shown, ended, aux>>
  BY DEF RunSends
<1>1. /\ session \in [Runner -> SessionState] /\ r \in Runner /\ S \in SessionState
      /\ procs \in [Proc -> ProcState] /\ run \in RunRecord /\ run.turn \in Turn
  BY <1>0, Typed DEF ClaudeTypes
<1>2. c \in Proc /\ P \in ProcState /\ P.runner = r /\ S.generation = c /\ P.inbox \in Seq(Turn) /\ Alive(c)
  BY <1>1, CurrentProcess DEF ProcState
<1>3. P.inbox = <<>> /\ P.turn = 0 /\ NoResult(P.out)
  BY <1>0, <1>1 DEF ResultsHaveTheirTurn, Clean
<1>4. Append(P.inbox, run.turn) \in Seq(Turn) /\ Append(P.inbox, run.turn) = <<run.turn>>
  <2>1. Append(<<>>, run.turn) = <<run.turn>>
    OBVIOUS
  <2>. QED BY <1>1, <1>2, <1>3, <2>1
<1>5. /\ Q \in ProcState /\ Q.runner = P.runner /\ Q.life = P.life /\ Q.signal = P.signal /\ Q.spoke = P.spoke
      /\ Q.out = P.out /\ Q.turn = P.turn /\ Q.inbox = <<run.turn>>
  BY <1>2, <1>4 DEF ProcState
<1>6. procs' = [procs EXCEPT ![c] = Q]
  BY <1>0, <1>1
<1>7. /\ T \in SessionState /\ T.current = S.current /\ T.generation = S.generation
      /\ T.streamEnded = S.streamEnded /\ T.sawInit = S.sawInit /\ T.queue = <<>>
  <2>1. <<>> \in Seq(ToTell)
    BY EmptySeq
  <2>. QED BY <1>1, <2>1 DEF SessionState
<1>8. session' = [session EXCEPT ![r] = T]
  BY <1>0, <1>1
<1>. HIDE DEF Q, T
<1>9. procs' \in [Proc -> ProcState] /\ procs'[c] = Q /\ \A x \in Proc : x # c => procs'[x] = procs[x]
  BY <1>1, <1>2, <1>5, <1>6
<1>10. /\ session' \in [Runner -> SessionState] /\ session'[r] = T
       /\ \A x \in Runner : x # r => session'[x] = session[x]
  BY <1>1, <1>7, <1>8
<1>11. run' \in RunRecord /\ run'.pc = "consuming" /\ run'.runner = r /\ run'.turn = run.turn
  BY <1>0, <1>1 DEF RunRecord
<1>12. Talking
  BY <1>0, <1>5, <1>7, <1>9, <1>10 DEF Talking
<1>13. SessionHoldsProcess' /\ StopsAwait' /\ NoStrayProcess'
  <2>1. \A x \in Runner : TurnActive(x) \/ session[x].idle => TurnActive(x)' \/ session'[x].idle
    BY <1>10, <1>11 DEF TurnActive
  <2>. QED BY <1>0, <1>12, <2>1, TalkKeeps
<1>14. ClaudeTypes'
  BY <1>0, <1>1, <1>9, <1>10, <1>11 DEF ClaudeTypes, aux
<1>15. (\A x \in Proc : Alive(x) /\ ~ procs[x].spoke => procs[x].out = <<>> /\ procs[x].turn = 0)'
  BY <1>5, <1>9 DEF ResultsHaveTheirTurn, Alive
<1>16. Carries(Q, T, run.turn)
  <2>1. NoResult(Q.out)
    BY <1>3, <1>5
  <2>. QED BY <1>3, <1>5, <1>7, <2>1, SentCarries
<1>17. ASSUME NEW x \in Runner
       PROVE  LET g == session'[x].generation IN
              /\ g # Nobody /\ procs'[g].life = "alive" /\ session'[x].sawInit => procs'[g].spoke
              /\ x = r => g # Nobody /\ Carries(procs'[g], session'[x], run'.turn)
              /\ x # r /\ IsRunning(x)' => Clean(procs'[session'[x].current])
  <2>. DEFINE g == session[x].generation
  <2>1. session'[x].generation = g /\ session'[x].current = session[x].current /\ session'[x].sawInit = session[x].sawInit
    BY <1>7, <1>10
  <2>2. g # Nobody => g \in Proc
    BY Typed DEF SessionState
  <2>3. g # Nobody /\ procs'[g].life = "alive" /\ session'[x].sawInit => procs'[g].spoke
    BY <1>5, <1>9, <2>1, <2>2 DEF ResultsHaveTheirTurn
  <2>4. x = r => g # Nobody /\ Carries(procs'[g], session'[x], run'.turn)
    BY <1>2, <1>9, <1>10, <1>11, <1>16, NumbersApart
  <2>5. ASSUME x # r, IsRunning(x)' PROVE Clean(procs'[session[x].current])
    <3>1. session[x].current \in Proc /\ procs'[session[x].current].life = "alive"
      BY <1>9, <2>1, <2>5, Typed DEF IsRunning, Alive, SessionState
    <3>2. IsRunning(x)
      BY <1>5, <1>9, <3>1, NumbersApart DEF IsRunning, Alive
    <3>3. session[x].current # c
      BY <1>2, <2>5, <3>2, CurrentProcess
    <3>4. Clean(procs[session[x].current])
      BY <1>0, <3>2 DEF ResultsHaveTheirTurn
    <3>. QED BY <1>9, <3>1, <3>3, <3>4
  <2>. HIDE DEF g
  <2>. QED BY <2>1, <2>3, <2>4, <2>5 DEF g
<1>18. ResultsHaveTheirTurn'
  <2>. HIDE DEF r
  <2>. QED BY <1>11, <1>15, <1>17 DEF ResultsHaveTheirTurn
<1>. QED BY <1>0, <1>13, <1>14, <1>18 DEF TurnEndsWithItsOwnResult

(* A process is spawned for the message; no other one of the runner is     *)
(* alive, for it would have been killed and is gone by now.                *)
LEMMA SendsToSpawned ==
    ASSUME ClaudeInv, run.pc = "starting", ~ IsRunning(run.runner), run' = [run EXCEPT !.pc = "consuming"],
           \A n \in Proc : Alive(n) => procs[n].signal # "kill",
           NEW p \in Proc, procs[p].life = "new", NEW resumes \in BOOLEAN,
           procs' = [procs EXCEPT ![p] = [NewProc EXCEPT !.runner = run.runner, !.life = "alive",
                                                         !.resumes = resumes, !.inbox = <<run.turn>>]],
           session' = [session EXCEPT ![run.runner] = SpawnedSession(@, p)],
           reader' = [reader EXCEPT ![p].at = "reading"], pidFile' = p,
           UNCHANGED <<stops, cached, shown, ended, aux>>
    PROVE  ClaudeInv'
<1>. USE DEF ClaudeInv
<1>. DEFINE r == run.runner
            Q == [NewProc EXCEPT !.runner = run.runner, !.life = "alive", !.resumes = resumes, !.inbox = <<run.turn>>]
            T == SpawnedSession(session[r], p)
<1>1. /\ session \in [Runner -> SessionState] /\ r \in Runner /\ session[r] \in SessionState
      /\ procs \in [Proc -> ProcState] /\ run \in RunRecord /\ run.turn \in Turn
  BY Typed DEF ClaudeTypes
<1>2. /\ Q \in ProcState /\ Q.runner = r /\ Q.life = "alive" /\ Q.signal = "none" /\ ~ Q.spoke
      /\ Q.out = <<>> /\ Q.turn = 0 /\ Q.inbox = <<run.turn>>
  <2>1. <<run.turn>> \in Seq(Turn) /\ <<>> \in Seq(Said) /\ 0 \in 0 .. MaxAsks
    BY <1>1, EmptySeq, NumbersApart
  <2>. QED BY <1>1, <2>1 DEF NewProc, ProcState
<1>3. /\ T \in SessionState /\ T.current = p /\ T.generation = p /\ ~ T.streamEnded /\ ~ T.sawInit /\ T.queue = <<>>
  <2>1. <<>> \in Seq(ToTell) /\ {} \in SUBSET (1 .. MaxAsks)
    BY EmptySeq
  <2>. QED BY <1>1, <2>1 DEF SpawnedSession, SessionState
<1>4. session' = [session EXCEPT ![r] = T] /\ procs' = [procs EXCEPT ![p] = Q]
  BY <1>1
<1>. HIDE DEF Q, T
<1>5. procs' \in [Proc -> ProcState] /\ procs'[p] = Q /\ \A x \in Proc : x # p => procs'[x] = procs[x]
  BY <1>1, <1>2, <1>4
<1>6. /\ session' \in [Runner -> SessionState] /\ session'[r] = T
      /\ \A x \in Runner : x # r => session'[x] = session[x]
  BY <1>1, <1>3, <1>4
<1>7. run' \in RunRecord /\ run'.pc = "consuming" /\ run'.runner = r /\ run'.turn = run.turn
  BY <1>1 DEF RunRecord
<1>8. /\ reader' \in [Proc -> ReaderState]
      /\ \A x \in Proc : reader'[x].at = "translating" => reader'[x].ev \in PlanAsk
  <2>1. reader \in [Proc -> ReaderState] /\ reader[p] \in ReaderState
    BY DEF ClaudeTypes
  <2>2. [reader[p] EXCEPT !.at = "reading"] \in ReaderState /\ [reader[p] EXCEPT !.at = "reading"].at = "reading"
    BY <2>1 DEF ReaderState
  <2>. QED BY <2>1, <2>2 DEF ClaudeTypes
<1>9. ClaudeTypes'
  BY <1>1, <1>5, <1>6, <1>7, <1>8 DEF ClaudeTypes, aux
<1>10. \A x \in Proc : procs[x].life = "alive" =>
          /\ x # p /\ procs'[x] = procs[x] /\ procs[x].runner \in Runner /\ procs[x].runner # r
          /\ session'[procs[x].runner] = session[procs[x].runner]
          /\ session[procs[x].runner].current = x
  <2>. SUFFICES ASSUME NEW x \in Proc, procs[x].life = "alive"
                PROVE  /\ x # p /\ procs[x].runner \in Runner /\ procs[x].runner # r
                       /\ session[procs[x].runner].current = x
    BY <1>5, <1>6
  <2>1. Alive(x) /\ x # p
    BY NumbersApart DEF Alive
  <2>2. session[procs[x].runner].current = x /\ procs[x].runner \in Runner
    BY <2>1 DEF SessionHoldsProcess
  <2>3. procs[x].runner # r
    BY <2>1, <2>2 DEF IsRunning
  <2>. QED BY <2>1, <2>2, <2>3
<1>11. \A x \in Runner : session[x].generation # Nobody =>
          /\ session[x].generation \in Proc /\ session[x].generation # p
          /\ procs'[session[x].generation] = procs[session[x].generation]
  <2>1. \A x \in Runner : session[x].generation # Nobody => session[x].generation \in Proc
    BY <1>1 DEF SessionState
  <2>. QED BY <1>5, <2>1 DEF SessionHoldsProcess
<1>12. SessionHoldsProcess'
  <2>1. (\A x \in Proc : IF procs[x].life = "new" THEN procs[x].out = <<>> ELSE procs[x].runner \in Runner)'
    BY <1>1, <1>2, <1>5 DEF SessionHoldsProcess
  <2>2. (\A x, y \in Proc : Alive(x) /\ Alive(y) /\ procs[x].runner = procs[y].runner => x = y)'
    BY <1>2, <1>5, <1>10 DEF SessionHoldsProcess, Alive
  <2>3. (\A x \in Proc : Alive(x) => (procs[x].signal # "kill" <=> session[procs[x].runner].current = x))'
    <3>. SUFFICES ASSUME NEW x \in Proc, procs'[x].life = "alive"
                  PROVE  procs'[x].signal # "kill" <=> session'[procs'[x].runner].current = x
      BY DEF Alive
    <3>1. CASE x = p
      BY <1>2, <1>3, <1>5, <1>6, <3>1
    <3>2. CASE x # p
      BY <1>5, <1>10, <3>2, NumbersApart DEF Alive
    <3>. QED BY <3>1, <3>2
  <2>4. ASSUME NEW x \in Runner
        PROVE  /\ session'[x].current \in {Nobody, session'[x].generation}
               /\ session'[x].streamEnded => session'[x].current = Nobody
               /\ session'[x].generation # Nobody =>
                     /\ procs'[session'[x].generation].life # "new"
                     /\ procs'[session'[x].generation].runner = x
    <3>1. CASE x = r
      BY <1>2, <1>3, <1>5, <1>6, <3>1
    <3>2. CASE x # r
      BY <1>6, <1>11, <3>2 DEF SessionHoldsProcess
    <3>. QED BY <3>1, <3>2
  <2>. QED BY <2>1, <2>2, <2>3, <2>4 DEF SessionHoldsProcess
<1>13. StopsAwait'
  <2>1. \A s \in stops : s.proc \in Proc
    BY DEF ClaudeTypes, StopRecord
  <2>. QED BY <1>10, <2>1 DEF StopsAwait, Alive
<1>14. NoStrayProcess'
  <2>. SUFFICES ASSUME NEW x \in Proc, procs'[x].life = "alive", procs'[x].signal = "none"
                PROVE  /\ session'[procs'[x].runner].current = x
                       /\ \/ procs'[x].runner = cached'
                          \/ run'.pc # "none" /\ run'.runner = procs'[x].runner
                          \/ session'[procs'[x].runner].idle
    BY DEF NoStrayProcess, TurnActive, Alive
  <2>1. CASE x = p
    BY <1>2, <1>3, <1>5, <1>6, <1>7, <2>1
  <2>2. CASE x # p
    <3>1. procs[x].life = "alive" /\ Alive(x) /\ procs[x].signal = "none"
      BY <1>5, <2>2, NumbersApart DEF Alive
    <3>2. procs[x].runner = cached \/ TurnActive(procs[x].runner) \/ session[procs[x].runner].idle
      BY <3>1 DEF NoStrayProcess
    <3>3. ~ TurnActive(procs[x].runner)
      BY <1>10, <3>1 DEF TurnActive
    <3>. QED BY <1>10, <3>1, <3>2, <3>3
  <2>. QED BY <2>1, <2>2
<1>15. (\A x \in Proc : Alive(x) /\ ~ procs[x].spoke => procs[x].out = <<>> /\ procs[x].turn = 0)'
  BY <1>2, <1>5 DEF ResultsHaveTheirTurn, Alive
<1>16. Carries(Q, T, run.turn)
  BY <1>2, <1>3 DEF Carries, NoResult, NoResultOf
<1>17. ASSUME NEW x \in Runner
       PROVE  LET g == session'[x].generation IN
              /\ g # Nobody /\ procs'[g].life = "alive" /\ session'[x].sawInit => procs'[g].spoke
              /\ x = r => g # Nobody /\ Carries(procs'[g], session'[x], run'.turn)
              /\ x # r /\ IsRunning(x)' => Clean(procs'[session'[x].current])
  <2>1. CASE x = r
    BY <1>3, <1>5, <1>6, <1>7, <1>16, <2>1, NumbersApart
  <2>2. CASE x # r
    <3>1. session'[x] = session[x]
      BY <1>6, <2>2
    <3>2. session[x].generation # Nobody /\ procs'[session[x].generation].life = "alive" /\ session[x].sawInit
            => procs'[session[x].generation].spoke
      BY <1>11 DEF ResultsHaveTheirTurn
    <3>3. ASSUME IsRunning(x)' PROVE Clean(procs'[session[x].current])
      <4>1. session[x].current # Nobody /\ procs'[session[x].current].life = "alive"
        BY <3>1, <3>3 DEF IsRunning, Alive
      <4>2. procs'[session[x].current] = procs[session[x].current]
        BY <1>11, <4>1 DEF SessionHoldsProcess
      <4>3. IsRunning(x)
        BY <4>1, <4>2 DEF IsRunning, Alive
      <4>. QED BY <4>2, <4>3 DEF ResultsHaveTheirTurn
    <3>. QED BY <2>2, <3>1, <3>2, <3>3
  <2>. QED BY <2>1, <2>2
<1>18. ResultsHaveTheirTurn'
  <2>. HIDE DEF r
  <2>. QED BY <1>7, <1>15, <1>17 DEF ResultsHaveTheirTurn
<1>. QED BY <1>9, <1>12, <1>13, <1>14, <1>18 DEF TurnEndsWithItsOwnResult

LEMMA RunSendsKeeps ==
    ASSUME ClaudeInv, NEW resumes \in BOOLEAN, RunSends(resumes)
    PROVE  ClaudeInv'
<1>. DEFINE r == run.runner
            fresh == {n \in Proc : procs[n].life = "new"}
            p == CHOOSE n \in Proc : procs[n].life = "new" /\ \A m \in Proc : procs[m].life = "new" => n <= m
<1>1. run.pc = "starting" /\ run' = [run EXCEPT !.pc = "consuming"] /\ UNCHANGED <<stops, cached, shown, ended, aux>>
  BY DEF RunSends
<1>2. CASE IsRunning(r)
  BY <1>2, SendsToCurrent
<1>3. CASE ~ IsRunning(r)
  <2>1. /\ \E n \in Proc : procs[n].life = "new"
        /\ \A n \in Proc : Alive(n) => procs[n].signal # "kill"
        /\ procs' = [procs EXCEPT ![p] = [NewProc EXCEPT !.runner = r, !.life = "alive",
                                                         !.resumes = resumes, !.inbox = <<run.turn>>]]
        /\ session' = [session EXCEPT ![r] = SpawnedSession(@, p)]
        /\ reader' = [reader EXCEPT ![p].at = "reading"]
        /\ pidFile' = p
    BY <1>3 DEF RunSends
  <2>2. fresh \subseteq Nat /\ fresh # {}
    BY <2>1, NumbersApart
  <2>3. \E n \in fresh : \A m \in fresh : n <= m
    BY <2>2, LeastHas
  <2>4. p \in Proc /\ procs[p].life = "new"
    BY <2>3
  <2>. HIDE DEF p
  <2>. QED BY <1>1, <1>3, <2>1, <2>4, SendsToSpawned
<1>. QED BY <1>2, <1>3

-----------------------------------------------------------------------------
LEMMA ClaudeInvUnchanged == ClaudeInv /\ UNCHANGED vars => ClaudeInv'
<1>. SUFFICES ASSUME ClaudeInv, UNCHANGED vars PROVE ClaudeInv'
  OBVIOUS
<1>1. ClaudeTypes'
  BY DEF ClaudeInv, ClaudeTypes, vars
<1>2. SessionHoldsProcess' /\ StopsAwait' /\ NoStrayProcess'
  BY DEF ClaudeInv, SessionHoldsProcess, StopsAwait, NoStrayProcess, Alive, TurnActive, vars
<1>3. ResultsHaveTheirTurn' /\ TurnEndsWithItsOwnResult'
  BY DEF ClaudeInv, ResultsHaveTheirTurn, TurnEndsWithItsOwnResult, Alive, IsRunning, vars
<1>. QED BY <1>1, <1>2, <1>3 DEF ClaudeInv

LEMMA ClaudeInvNext == ClaudeInv /\ [Next]_vars => ClaudeInv'
<1>. SUFFICES ASSUME ClaudeInv, [Next]_vars PROVE ClaudeInv'
  OBVIOUS
<1>1. CASE Process
  BY <1>1, ClaudeReadsKeeps, ClaudeFinishesKeeps, ClaudeExitsKeeps, ClaudeAsksKeeps DEF Process
<1>2. CASE Reads
  BY <1>2, ReaderTakesKeeps, ReaderTranslatedKeeps, ReaderEndsKeeps DEF Reads
<1>3. CASE Runs
  BY <1>3, RunTakesKeeps, RunSeesEndKeeps, SpawnFailsKeeps, RunSendsKeeps, RunStartsKeeps DEF Runs
<1>4. CASE Answers
  BY <1>4, CancelKeeps, RespondKeeps DEF Answers
<1>5. CASE UserStops \/ Dispose \/ WatchdogFires \/ RunBreaksOff
  BY <1>5, UserStopsKeeps, DisposeKeeps, WatchdogKeeps, RunBreaksOffKeeps
<1>6. CASE \E s \in stops : GraceIsOver(s)
  BY <1>6, GraceIsOverKeeps
<1>7. CASE \E r \in Runner : IdleTimerFires(r)
  BY <1>7, IdleTimerKeeps
<1>8. CASE UNCHANGED vars
  BY <1>8, ClaudeInvUnchanged
<1>. QED BY <1>1, <1>2, <1>3, <1>4, <1>5, <1>6, <1>7, <1>8 DEF Next

LEMMA ClaudeInvAlways == Spec => []ClaudeInv
  BY ClaudeInvInit, ClaudeInvNext, PTL DEF Spec

(* The variables keep their types, a request whose plan is read is one for *)
(* a plan, and a turn that is under way is one of the turns.               *)
THEOREM ClaudeTypesCorrect == Spec => []ClaudeTypes
<1>1. ClaudeInv => ClaudeTypes
  BY DEF ClaudeInv
<1>. QED BY <1>1, ClaudeInvAlways, PTL

(* A turn of claude that ends with a result ends with the result of its    *)
(* own message: what a resumed session replays is dropped before its init, *)
(* and what an earlier turn left is in no queue of the turn                *)
(* (startStreamReader and consumeTurn of runner/claude/session.ts).        *)
THEOREM ResultOfItsTurn == Spec => []TurnEndsWithItsOwnResult
<1>1. ClaudeInv => TurnEndsWithItsOwnResult
  BY DEF ClaudeInv
<1>. QED BY <1>1, ClaudeInvAlways, PTL

(* A process that nobody signalled is the one its session would stop, and  *)
(* the session is in the slot, in a turn or has its idle timer armed       *)
(* (stop and armIdleTimer of runner/claude/session.ts, and the eviction of *)
(* the runner's slot).                                                     *)
THEOREM NoProcessIsLost == Spec => []NoStrayProcess
<1>1. ClaudeInv => NoStrayProcess
  BY DEF ClaudeInv
<1>. QED BY <1>1, ClaudeInvAlways, PTL

(* A runner never has two processes that run; the one it has is the one    *)
(* its session holds until it is killed, and a session whose stream is     *)
(* over holds none (doStartProcess, stop and startStreamReader of          *)
(* runner/claude/session.ts).                                              *)
THEOREM OneProcessOfARunner == Spec => []SessionHoldsProcess
<1>1. ClaudeInv => SessionHoldsProcess
  BY DEF ClaudeInv
<1>. QED BY <1>1, ClaudeInvAlways, PTL
=============================================================================
