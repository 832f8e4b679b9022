--------------------------- MODULE AgentTurnProofs ---------------------------
(***************************************************************************)
(* Proofs about AgentTurn, for every agent and any number of processes and *)
(* setups: how a turn ended is true of that turn, and no process is left   *)
(* behind unknown.  Both rest on what belongs to which attempt: requests,  *)
(* hooks, the agent's work and the results in the queue.                   *)
(*                                                                         *)
(* The last part is about ApprovalCoordinator, for every set of requests   *)
(* and every number of questions, clicks and asks: a request of an agent   *)
(* is answered at most once for each time it is asked, and one that is     *)
(* pending is timed and shown.                                             *)
(***************************************************************************)
EXTENDS AgentTurn, ApprovalCoordinator, SequenceTheorems, FiniteSetTheorems, TLAPS

USE AgentAssumption DEF None, Conns

-----------------------------------------------------------------------------
(* Records of connections                                                  *)

ConnFields == {"proc", "closed", "ready", "hooks", "pending", "asked", "work"}

\* A connection all of whose marks are of attempts up to n.
RecOk(k, n) ==
    /\ DOMAIN k = ConnFields
    /\ k.hooks \in 0 .. n /\ k.work \subseteq 0 .. n
    /\ \A r \in k.pending : r.at \in 0 .. n
    /\ k.closed => k.pending = {} /\ k.work = {}
    /\ k.proc = "none" => k = Unborn

\* What the connection c holds of the turn u, in which requests to connect are
\* left aside: marks of earlier turns, and of the setup in hand.
Connecting == {"acquire", "connect"}
RecOfTurn(k, c, u, agent) ==
    /\ \/ k.hooks < u.turnFirst
       \/ k.hooks = u.at /\ c = u.client /\ u.phase \notin Connecting
    /\ \A a \in k.work :
          \/ a < u.turnFirst
          \/ a = u.at /\ c = u.client /\ u.phase \notin Connecting \cup {"session"}
    /\ \A r \in k.pending : r.at = u.at =>
          IF r.what = "connect" THEN u.phase # "acquire"
          ELSE c = u.client /\ u.phase \notin Connecting
    /\ \A r \in k.pending : r.what = "prompt" /\ agent \in Acp =>
          r.at < u.turnFirst \/ (r.at = u.at /\ u.sent)

\* The connection l is k after something ended or was answered.
Fades(k, l) ==
    /\ DOMAIN l = ConnFields
    /\ l.hooks \in {k.hooks, None}
    /\ l.work \subseteq k.work /\ l.pending \subseteq k.pending
    /\ k.closed => l.closed
    /\ l.closed => l.pending = {} /\ l.work = {}
    /\ l.proc = "up" => k.proc = "up"
    /\ l.proc = "none" <=> k.proc = "none"
    /\ k.proc = "none" => l = k

LEMMA UnbornOk ==
    ASSUME NEW n \in Nat
    PROVE  /\ RecOk(Unborn, n) /\ Unborn.proc = "none" /\ ~Unborn.closed
           /\ Unborn.hooks = None /\ Unborn.pending = {} /\ Unborn.work = {}
BY DEF RecOk, Unborn, ConnFields

LEMMA FadesOk ==
    ASSUME NEW n \in Nat, NEW k, NEW l, RecOk(k, n), Fades(k, l)
    PROVE  RecOk(l, n)
BY DEF RecOk, Fades

LEMMA FadesItself ==
    ASSUME NEW n \in Nat, NEW k, RecOk(k, n)
    PROVE  Fades(k, k)
BY DEF RecOk, Fades

LEMMA FadesOn ==
    ASSUME NEW j, NEW k, NEW l, Fades(j, k), Fades(k, l)
    PROVE  Fades(j, l)
BY DEF Fades

\* The same turn as far as connections go.
SameSetup(u, v) ==
    /\ v.at = u.at /\ v.turnFirst = u.turnFirst /\ v.phase = u.phase
    /\ v.client = u.client /\ v.sent = u.sent

LEMMA FadesOfTurn ==
    ASSUME NEW k, NEW l, NEW c, NEW u, NEW v, NEW agent, Fades(k, l), u.turnFirst \in Nat \ {0},
           RecOfTurn(k, c, u, agent), SameSetup(u, v)
    PROVE  RecOfTurn(l, c, v, agent)
BY DEF RecOfTurn, Fades, SameSetup

\* What ends or answers makes a connection fade.
LEMMA EndsFade ==
    ASSUME NEW n \in Nat, NEW k, RecOk(k, n), k.proc # "none"
    PROVE  /\ Fades(k, Disposed(k)) /\ Disposed(k).closed
           /\ Fades(k, Broken(k)) /\ Broken(k).closed
           /\ Fades(k, Exited(k)) /\ Exited(k).closed
           /\ Fades(k, [k EXCEPT !.hooks = None]) /\ [k EXCEPT !.hooks = None].hooks = None
           /\ Fades(k, [k EXCEPT !.proc = "killed"])
<1>. USE DEF RecOk, Fades, ConnFields
<1>1. Fades(k, Disposed(k)) /\ Disposed(k).closed
  BY DEF Disposed
<1>2. Fades(k, Broken(k)) /\ Broken(k).closed
  BY DEF Broken
<1>3. Fades(k, Exited(k)) /\ Exited(k).closed
  BY DEF Exited
<1>4. Fades(k, [k EXCEPT !.hooks = None]) /\ [k EXCEPT !.hooks = None].hooks = None
  OBVIOUS
<1>5. Fades(k, [k EXCEPT !.proc = "killed"])
  OBVIOUS
<1>. QED BY <1>1, <1>2, <1>3, <1>4, <1>5

LEMMA AnswersFade ==
    ASSUME NEW n \in Nat, NEW k, RecOk(k, n), k.proc # "none", NEW r, NEW ok, NEW W \in SUBSET k.work
    PROVE  /\ Fades(k, TimedOut(k, r))
           /\ Fades(k, [k EXCEPT !.work = W])
           /\ Fades(k, [Answered(k, r, ok) EXCEPT !.work = W])
           /\ Answered(k, r, ok).work = k.work
<1>. USE DEF RecOk, Fades, ConnFields
<1>1. Fades(k, TimedOut(k, r))
  BY DEF TimedOut
<1>2. Fades(k, [k EXCEPT !.work = W])
  OBVIOUS
<1>3. Fades(k, [Answered(k, r, ok) EXCEPT !.work = W])
  <2>. DEFINE l == Answered(k, r, ok)
  <2>1. /\ DOMAIN l = ConnFields /\ l.proc = k.proc /\ l.closed = k.closed /\ l.hooks = k.hooks
        /\ l.pending = k.pending \ {r}
    BY DEF Answered
  <2>. HIDE DEF l
  <2>2. /\ DOMAIN [l EXCEPT !.work = W] = ConnFields /\ [l EXCEPT !.work = W].work = W
        /\ [l EXCEPT !.work = W].proc = l.proc /\ [l EXCEPT !.work = W].closed = l.closed
        /\ [l EXCEPT !.work = W].hooks = l.hooks /\ [l EXCEPT !.work = W].pending = l.pending
    BY <2>1
  <2>. QED BY <2>1, <2>2 DEF l
<1>4. Answered(k, r, ok).work = k.work
  BY DEF Answered
<1>. QED BY <1>1, <1>2, <1>3, <1>4

\* A request of the setup in hand.
LEMMA AskedOk ==
    ASSUME NEW n \in Nat, NEW k, RecOk(k, n), k.proc # "none", NEW a \in 0 .. n, NEW what
    PROVE  LET l == Asked(k, [at |-> a, what |-> what])
           IN  /\ RecOk(l, n) /\ l.closed = k.closed /\ l.proc = k.proc
               /\ l.hooks = k.hooks /\ l.work = k.work
               /\ l.pending \subseteq k.pending \cup {[at |-> a, what |-> what]}
<1>. DEFINE r == [at |-> a, what |-> what]
<1>1. r.at = a
  OBVIOUS
<1>. HIDE DEF r
<1>2. CASE k.closed
  BY <1>2 DEF Asked
<1>3. CASE ~k.closed
  <2>1. Asked(k, r) = [k EXCEPT !.pending = k.pending \cup {r}, !.asked = k.asked \cup {r}]
    BY <1>3 DEF Asked
  <2>2. /\ DOMAIN Asked(k, r) = ConnFields /\ Asked(k, r).closed = k.closed
        /\ Asked(k, r).proc = k.proc /\ Asked(k, r).hooks = k.hooks /\ Asked(k, r).work = k.work
        /\ Asked(k, r).pending = k.pending \cup {r}
    BY <2>1 DEF RecOk, ConnFields
  <2>3. RecOk(Asked(k, r), n)
    BY <1>1, <1>3, <2>2 DEF RecOk
  <2>. QED BY <2>2, <2>3 DEF r
<1>. QED BY <1>2, <1>3 DEF r

-----------------------------------------------------------------------------
(* The inductive invariant                                                 *)

RunFields ==
    {"first", "running", "phase", "waits", "then", "at", "turnFirst", "stop", "force", "client",
     "session", "turnId", "sent", "settled", "evicted", "cancelled"}

Born(c) == conn[c].proc # "none"

Shapes ==
    /\ DOMAIN conn = Conns /\ conn = [c \in Conns |-> conn[c]]
    /\ DOMAIN run = RunFields
    /\ DOMAIN slot = {"client", "creating", "timer"}
    /\ attempt \in Nat
    /\ \A c \in Conns : RecOk(conn[c], attempt)
    /\ \A c, d \in Conns : c < d /\ Born(d) => Born(c)

Counts ==
    /\ run.at \in 0 .. attempt /\ run.turnFirst \in 0 .. run.at
    /\ run.force \in 0 .. attempt
    /\ stops \subseteq 1 .. attempt
    /\ run.phase = "idle" <=> ~run.running
    /\ run.running => run.at = attempt /\ run.turnFirst # 0

RecordsOfTurn ==
    run.running => \A c \in Conns : RecOfTurn(conn[c], c, run, kind)

\* While a connection is made it is the last one, it alone is asked to connect,
\* and the slot holds no other.
IsLast(c) == c \in Conns /\ Born(c) /\ \A d \in Conns : d > c => ~Born(d)
OneIsMade ==
    run.phase = "connect" =>
        /\ IsLast(Made)
        /\ \A c \in Conns : \A r \in conn[c].pending :
              r.at = run.at /\ r.what = "connect" => c = Made
        /\ slot.client = None /\ slot.creating \in {None, Made}
        /\ run.waits = "lost" => ~Open(Made)

\* A setup learns of a lost connection when its own is closed.
LostIsClosed ==
    run.phase \in {"session", "prompt"} /\ run.waits = "lost" => conn[run.client].closed

Slots ==
    /\ slot.client \in {None} \cup Conns /\ run.client \in {None} \cup Conns
    /\ slot.client # None => Born(slot.client) /\ slot.creating = None
    /\ run.client # None => Born(run.client)
    /\ slot.creating # None => run.phase = "connect"
    /\ run.phase \notin Connecting \cup {"idle"} => run.client # None
    /\ StrayOnlyIfGivenUp

SetUp == {"set", "consume", "cancel", "timeout"}
Phases == {"idle", "session", "settings", "prompt"} \cup Connecting \cup SetUp
Setups ==
    /\ run.phase \in Phases /\ run.then \in {"consume", "timeout"}
    /\ run.phase \in SetUp \cup {"settings", "prompt"} => run.session
    /\ run.phase \in SetUp => /\ run.turnId
                              /\ kind \in Acp => run.sent
                              /\ kind = "pi" => run.settled
    /\ kind = "codex" /\ run.turnId => run.phase \in SetUp
    /\ run.sent => run.phase \in SetUp
    /\ run.phase = "prompt" => kind \notin Acp
    /\ run.phase = "settings" => kind \in Acp
    /\ kind \in {"codex", "opencode", "kimi", "pi"}

\* The attempts a result in the queue may be of: not an earlier setup of the turn.
Results == {a \in Nat : run.running => a < run.turnFirst \/ a >= run.at}
Queued == queue \in Seq(Results)

\* The stop that ends a turn is the turn's own, and has told the agent.
Stopped ==
    run.running =>
        /\ run.force = run.at => run.stop
        /\ run.at \in stops => run.stop /\ run.cancelled
        /\ run.phase \in {"consume", "cancel"} /\ run.stop /\ kind # "kimi" =>
              run.cancelled \/ conn[run.client].closed

AgentInv ==
    /\ Shapes /\ Counts /\ RecordsOfTurn /\ OneIsMade /\ LostIsClosed /\ Slots
    /\ Setups /\ Queued /\ Stopped /\ EndIsTrue

LEMMA AgentInvInit == TurnInit => AgentInv
<1>. SUFFICES ASSUME TurnInit PROVE AgentInv
  OBVIOUS
<1>. USE DEF TurnInit, ConnInit
<1>1. /\ run.at = 0 /\ run.turnFirst = 0 /\ run.force = 0 /\ run.phase = "idle" /\ ~run.running
      /\ run.then = "consume" /\ ~run.sent /\ run.client = None /\ ~run.turnId /\ DOMAIN run = RunFields
  BY DEF FreshRunner, RunFields
<1>2. slot.client = None /\ slot.creating = None /\ DOMAIN slot = {"client", "creating", "timer"}
  BY DEF NoSlot
<1>3. \A c \in Conns : conn[c] = Unborn
  OBVIOUS
<1>4. Shapes
  BY <1>1, <1>2, <1>3, UnbornOk DEF Shapes, Born
<1>5. Counts /\ RecordsOfTurn /\ OneIsMade /\ LostIsClosed
  BY <1>1 DEF Counts, RecordsOfTurn, OneIsMade, LostIsClosed
<1>6. Slots
  BY <1>1, <1>2, <1>3, UnbornOk DEF Slots, Connecting, StrayOnlyIfGivenUp, Open
<1>7. Setups
  BY <1>1 DEF Setups, SetUp, Phases
<1>8. Queued
  BY EmptySeq DEF Queued
<1>9. Stopped /\ EndIsTrue
  BY <1>1 DEF Stopped, EndIsTrue, RetryStartsClean, InterruptReachesAgent, NoEnd
<1>. QED BY <1>4, <1>5, <1>6, <1>7, <1>8, <1>9 DEF AgentInv

-----------------------------------------------------------------------------
(* Steps of others                                                         *)

LEMMA LastOfAll ==
    ASSUME NEW n, NEW g, \A c \in Conns : RecOk(g[c], n),
           NEW c \in Conns, g[c].proc # "none", \A d \in Conns : d > c => g[d].proc = "none"
    PROVE  c = CHOOSE b \in Conns : g[b] # Unborn /\ \A d \in Conns : d > b => g[d] = Unborn
<1>. DEFINE m == CHOOSE b \in Conns : g[b] # Unborn /\ \A d \in Conns : d > b => g[d] = Unborn
<1>1. \A d \in Conns : g[d] # Unborn <=> g[d].proc # "none"
  BY UnbornOk DEF RecOk
<1>2. g[c] # Unborn /\ \A d \in Conns : d > c => g[d] = Unborn
  BY <1>1
<1>3. m \in Conns /\ g[m] # Unborn /\ \A d \in Conns : d > m => g[d] = Unborn
  BY <1>2
<1>. HIDE DEF m
<1>4. ~(m > c) /\ ~(c > m)
  BY <1>2, <1>3
<1>. QED BY <1>3, <1>4 DEF m

LEMMA LastIsMadeThen ==
    ASSUME Shapes', NEW c, IsLast(c)'
    PROVE  Made' = c
<1>1. /\ \A d \in Conns : RecOk(conn'[d], attempt')
      /\ c \in Conns /\ conn'[c].proc # "none"
      /\ \A d \in Conns : d > c => conn'[d].proc = "none"
  BY DEF Shapes, IsLast, Born
<1>. HIDE DEF Conns
<1>2. c = CHOOSE b \in Conns : /\ conn'[b] # Unborn
                               /\ \A d \in Conns : d > b => conn'[d] = Unborn
  BY <1>1, LastOfAll, Zenon
<1>. QED BY <1>2, Zenon DEF Made

\* All connections fade or stay.
AllFade ==
    /\ DOMAIN conn' = Conns /\ conn' = [c \in Conns |-> conn'[c]]
    /\ \A c \in Conns : Fades(conn[c], conn'[c])

\* No connection is born, opens or is asked to connect.
Steady ==
    \A c \in Conns : /\ Born(c)' <=> Born(c)
                     /\ Open(c)' => Open(c)
                     /\ conn[c].closed => conn'[c].closed
                     /\ \A r \in conn'[c].pending : r.what = "connect" => r \in conn[c].pending

LEMMA LastStays == Steady => \A c : IsLast(c)' <=> IsLast(c)
BY DEF Steady, IsLast

LEMMA ConnsFade ==
    ASSUME Shapes, DOMAIN run' = RunFields, DOMAIN slot' = {"client", "creating", "timer"},
           AllFade, attempt' = attempt
    PROVE  Shapes' /\ Steady
<1>1. Steady
  BY DEF AllFade, Fades, Born, Open, Steady
<1>2. \A c \in Conns : RecOk(conn'[c], attempt)
  BY FadesOk DEF AllFade, Shapes
<1>3. Shapes'
  BY <1>1, <1>2 DEF Shapes, AllFade, Steady
<1>. QED BY <1>1, <1>3

\* The generator stays where it is.
SameTurn ==
    /\ DOMAIN run' = RunFields
    /\ SameSetup(run, run') /\ run'.then = run.then
    /\ run'.running <=> run.running
    /\ run'.session <=> run.session
    /\ run'.turnId <=> run.turnId
    /\ run.settled => run'.settled

LEMMA RecordsFade ==
    ASSUME Counts, RecordsOfTurn, SameTurn, AllFade, kind' = kind
    PROVE  RecordsOfTurn'
<1>. SUFFICES ASSUME run.running, NEW c \in Conns PROVE RecOfTurn(conn'[c], c, run', kind)
  BY DEF RecordsOfTurn, SameTurn
<1>1. RecOfTurn(conn[c], c, run, kind) /\ Fades(conn[c], conn'[c])
  BY DEF RecordsOfTurn, AllFade
<1>2. run.turnFirst \in Nat \ {0}
  BY DEF Counts
<1>. QED BY <1>1, <1>2, FadesOfTurn DEF SameTurn

\* Who the generator waits for, if that matters.
Awaited(c) ==
    /\ run.phase = "connect" => c = Made
    /\ run.phase \in {"session", "prompt"} => c = run.client

LEMMA OthersStep ==
    ASSUME AgentInv, SameTurn, Shapes', Steady, RecordsOfTurn',
           attempt' = attempt, kind' = kind, last' = last,
           \/ run'.force \in {run.force} \cup stops
           \/ run'.force = run.at /\ run'.stop,
           run.stop => run'.stop, run.cancelled => run'.cancelled,
           \/ stops' \subseteq stops
           \/ run.running /\ stops' = stops \cup {run.at} /\ run'.stop /\ run'.cancelled,
           \/ run'.stop <=> run.stop
           \/ run.phase \in {"consume", "cancel"} /\ kind # "kimi" =>
                 run'.cancelled \/ conn'[run.client].closed,
           \/ run'.waits = "lost" => run.waits = "lost"
           \/ \E c \in Conns : Awaited(c) /\ conn'[c].closed,
           slot'.client \in {None, slot.client}, slot'.creating \in {None, slot.creating},
           disowned \subseteq disowned',
           \A c \in Conns : c \in {slot.client, slot.creating} =>
               c \in {slot'.client, slot'.creating} \/ ~Open(c)' \/ c \in disowned',
           queue' \in Seq(Results)
    PROVE  AgentInv'
<1>. USE DEF AgentInv
<1>0. /\ run'.at = run.at /\ run'.turnFirst = run.turnFirst /\ run'.phase = run.phase
      /\ run'.client = run.client /\ run'.sent = run.sent
  BY DEF SameTurn, SameSetup
<1>f. /\ \A c \in Conns : /\ Born(c)' <=> Born(c)
                          /\ Open(c)' => Open(c)
                          /\ conn[c].closed => conn'[c].closed
      /\ \A c : IsLast(c)' <=> IsLast(c)
  BY LastStays DEF Steady
<1>2. Counts'
  <2>1. run'.force \in 0 .. attempt
    <3>1. run.force \in 0 .. attempt /\ run.at \in 0 .. attempt /\ stops \subseteq 0 .. attempt
      BY DEF Counts, Shapes
    <3>. QED BY <3>1
  <2>2. stops' \subseteq 1 .. attempt
    BY DEF Counts, Shapes
  <2>. QED BY <1>0, <2>1, <2>2 DEF Counts, SameTurn
<1>m. run.phase = "connect" => Made' = Made /\ Made \in Conns
  <2>. SUFFICES ASSUME run.phase = "connect" PROVE Made' = Made /\ Made \in Conns
    OBVIOUS
  <2>1. IsLast(Made)
    BY DEF OneIsMade
  <2>2. PICK m : m = Made
    OBVIOUS
  <2>3. IsLast(m)'
    BY <1>f, <2>1, <2>2
  <2>. QED BY <2>1, <2>2, <2>3, LastIsMadeThen DEF IsLast
<1>4. OneIsMade'
  <2>. SUFFICES ASSUME run.phase = "connect"
                PROVE  /\ IsLast(Made)'
                       /\ \A c \in Conns : \A r \in conn'[c].pending :
                            r.at = run.at /\ r.what = "connect" => c = Made
                       /\ slot'.client = None /\ slot'.creating \in {None, Made}
                       /\ run'.waits = "lost" => ~Open(Made)'
    BY <1>0, <1>m DEF OneIsMade
  <2>1. IsLast(Made)'
    <3>1. \A c : c = Made => IsLast(c)'
      BY <1>f DEF OneIsMade
    <3>. QED BY <3>1, <1>m DEF IsLast
  <2>2. \A c \in Conns : \A r \in conn'[c].pending : r.at = run.at /\ r.what = "connect" => c = Made
    BY DEF OneIsMade, Steady
  <2>3. slot'.client = None /\ slot'.creating \in {None, Made}
    BY DEF OneIsMade
  <2>4. run'.waits = "lost" => ~Open(Made)'
    BY <1>f, <1>m DEF OneIsMade, Awaited, Open
  <2>. QED BY <2>1, <2>2, <2>3, <2>4
<1>5. LostIsClosed'
  <2>. SUFFICES ASSUME run.phase \in {"session", "prompt"}, run'.waits = "lost"
                PROVE  conn'[run.client].closed
    BY <1>0 DEF LostIsClosed
  <2>1. run.client \in Conns
    BY DEF Slots, Connecting
  <2>. QED BY <1>f, <2>1 DEF LostIsClosed, Awaited
<1>6. Slots'
  <2>1. StrayOnlyIfGivenUp'
    BY <1>f DEF Slots, StrayOnlyIfGivenUp
  <2>. QED BY <1>0, <1>f, <2>1 DEF Slots
<1>7. Setups'
  BY <1>0 DEF Setups, SameTurn
<1>8. Queued'
  <2>1. Results' = Results
    BY <1>0 DEF Results, SameTurn
  <2>. QED BY <2>1 DEF Queued
<1>9. Stopped'
  <2>. SUFFICES ASSUME run.running
                PROVE  /\ run'.force = run.at => run'.stop
                       /\ run.at \in stops' => run'.stop /\ run'.cancelled
                       /\ run.phase \in {"consume", "cancel"} /\ run'.stop /\ kind # "kimi" =>
                             run'.cancelled \/ conn'[run.client].closed
    BY <1>0 DEF Stopped, SameTurn
  <2>1. run.phase \in {"consume", "cancel"} => run.client \in Conns
    BY DEF Slots, Connecting
  <2>. QED BY <1>f, <2>1 DEF Stopped
<1>10. EndIsTrue'
  BY DEF EndIsTrue, RetryStartsClean, InterruptReachesAgent
<1>. QED BY <1>2, <1>4, <1>5, <1>6, <1>7, <1>8, <1>9, <1>10

\* What settled requests of the connection c wake.
LEMMA WokenTurn ==
    ASSUME AgentInv, NEW o \in {"ok", "error", "lost"}, NEW c \in Conns,
           NEW reqs \in SUBSET conn[c].pending,
           run' \in {Woken(reqs, o), [Woken(reqs, o) EXCEPT !.evicted = TRUE]}
    PROVE  /\ SameTurn
           /\ run'.force \in {run.force} \cup stops
           /\ run'.stop = run.stop /\ run'.cancelled = run.cancelled
           /\ run'.waits = "lost" => run.waits = "lost" \/ (o = "lost" /\ Awaited(c))
<1>. DEFINE awaited == [at |-> run.at, what |-> run.phase]
            stopped == {a \in stops : Own(a) /\ [at |-> a, what |-> "cancel"] \in reqs}
            prompted == \E r \in reqs : r.what = "prompt" /\ kind \in Acp /\ Own(r.at)
            w == IF run.waits = "waiting" /\ awaited \in reqs THEN o ELSE run.waits
            s == run.settled \/ prompted
            f == IF stopped # {} THEN CHOOSE a \in stopped : TRUE ELSE run.force
<1>. USE DEF AgentInv
<1>. DEFINE x == [run EXCEPT !.waits = w, !.settled = s, !.force = f]
<1>1. run' \in {x, [x EXCEPT !.evicted = TRUE]}
  BY DEF Woken
<1>2. f \in {run.force} \cup stops
  OBVIOUS
<1>3. run.settled => s
  OBVIOUS
<1>4. w = "lost" => run.waits = "lost" \/ (o = "lost" /\ awaited \in conn[c].pending)
  OBVIOUS
<1>5. awaited.at = run.at /\ awaited.what = run.phase
  OBVIOUS
<1>. HIDE DEF w, s, f, awaited
<1>x. /\ DOMAIN x = RunFields /\ x.waits = w /\ x.settled = s /\ x.force = f
      /\ \A y \in RunFields \ {"waits", "settled", "force"} : x[y] = run[y]
  BY DEF Shapes, RunFields
<1>. HIDE DEF x
<1>6. /\ DOMAIN run' = RunFields /\ run'.waits = w /\ run'.settled = s /\ run'.force = f
      /\ \A y \in RunFields \ {"waits", "settled", "force", "evicted"} : run'[y] = run[y]
  BY <1>1, <1>x DEF RunFields
<1>7. /\ run'.at = run.at /\ run'.turnFirst = run.turnFirst /\ run'.phase = run.phase
      /\ run'.client = run.client /\ run'.sent = run.sent /\ run'.then = run.then
      /\ run'.running = run.running /\ run'.session = run.session /\ run'.turnId = run.turnId
      /\ run'.stop = run.stop /\ run'.cancelled = run.cancelled
  BY <1>6 DEF RunFields
<1>8. awaited \in conn[c].pending => Awaited(c)
  <2>. SUFFICES ASSUME awaited \in conn[c].pending, run.phase \in {"connect", "session", "prompt"}
                PROVE  Awaited(c)
    BY DEF Awaited
  <2>1. run.running
    BY DEF Counts
  <2>2. RecOfTurn(conn[c], c, run, kind)
    BY <2>1 DEF RecordsOfTurn
  <2>3. run.phase \in {"session", "prompt"} => c = run.client
    BY <1>5, <2>2 DEF RecOfTurn
  <2>4. run.phase = "connect" => c = Made
    BY <1>5 DEF OneIsMade
  <2>. QED BY <2>3, <2>4 DEF Awaited
<1>. QED BY <1>2, <1>3, <1>4, <1>6, <1>7, <1>8 DEF SameTurn, SameSetup

\* What the responses of prompts put into the queue may be there.
LEMMA PromptsAreResults ==
    ASSUME AgentInv, NEW c \in Conns, NEW reqs \in SUBSET conn[c].pending
    PROVE  PromptResults(reqs) \in Seq(Results)
<1>. DEFINE S == {r.at : r \in {q \in reqs : q.what = "prompt" /\ kind \in Acp /\ Own(q.at)}}
<1>. USE DEF AgentInv
<1>1. S \subseteq Results /\ S \subseteq 0 .. attempt
  <2>1. \A r \in conn[c].pending : r.at \in 0 .. attempt /\ attempt \in Nat
    BY DEF Shapes, RecOk
  <2>2. ASSUME NEW r \in reqs, r.what = "prompt", kind \in Acp PROVE r.at \in Results
    <3>1. r.at \in Nat /\ run.turnFirst \in Nat /\ run.at \in Nat
      BY <2>1 DEF Counts
    <3>2. run.running => r.at < run.turnFirst \/ r.at = run.at
      BY <2>2 DEF RecordsOfTurn, RecOfTurn
    <3>. QED BY <3>1, <3>2 DEF Results
  <2>. QED BY <2>1, <2>2
<1>2. IsFiniteSet(S)
  <2>1. IsFiniteSet(0 .. attempt)
    <3>1. 0 \in Int /\ attempt \in Int
      BY DEF Shapes
    <3>. QED BY <3>1, FS_Interval
  <2>. QED BY <1>1, <2>1, FS_Subset
<1>. DEFINE n == Cardinality(S)
<1>3. n \in Nat /\ \E f \in [1 .. n -> S] : IsInjective(f)
  BY <1>2, FS_CardinalityType DEF ExistsBijection, Bijection, Injection
<1>4. SetToSeq(S) \in [1 .. n -> S]
  BY <1>3 DEF SetToSeq
<1>5. SetToSeq(S) \in Seq(Results)
  <2>. HIDE DEF S, n
  <2>1. SetToSeq(S) \in [1 .. n -> Results]
    BY <1>1, <1>4
  <2>. QED BY <1>3, <2>1, SeqDef
<1>. QED BY <1>5, EmptySeq DEF PromptResults

LEMMA OneFades ==
    ASSUME Shapes, NEW c \in Conns, NEW l, conn' = [conn EXCEPT ![c] = l], Fades(conn[c], l)
    PROVE  AllFade /\ conn'[c] = l
<1>1. \A d \in Conns : conn'[d] = IF d = c THEN l ELSE conn[d]
  BY DEF Shapes
<1>2. \A d \in Conns : Fades(conn[d], conn[d])
  BY FadesItself DEF Shapes
<1>3. DOMAIN conn' = Conns
  BY DEF Shapes
<1>4. conn' = [d \in Conns |-> conn'[d]]
  BY <1>3 DEF Shapes
<1>. QED BY <1>1, <1>2, <1>3, <1>4 DEF AllFade

\* A connection closes by itself.
LEMMA CloseStep ==
    ASSUME AgentInv, NEW c \in Conns, HearsClose(c), NEW l, conn' = [conn EXCEPT ![c] = l],
           Fades(conn[c], l), l.closed, UNCHANGED <<kind, disowned, attempt, last>>
    PROVE  AgentInv'
<1>. DEFINE lost == conn[c].pending
            news == ~conn[c].closed
            hook == conn[c].hooks
            failTurn == IF news /\ hook # None /\ Own(hook) THEN <<hook>> ELSE <<>>
<1>. USE DEF AgentInv
<1>1. AllFade /\ conn'[c].closed
  BY OneFades
<1>2. /\ run' = Woken(lost, "lost") /\ stops' = StillStopping(lost)
      /\ queue' = queue \o failTurn \o PromptResults(lost)
      /\ slot' = IF news THEN SlotAfterClose(c) ELSE slot
  BY DEF HearsClose
<1>3. /\ SameTurn /\ run'.force \in {run.force} \cup stops
      /\ run'.stop = run.stop /\ run'.cancelled = run.cancelled
      /\ run'.waits = "lost" => run.waits = "lost" \/ Awaited(c)
  BY <1>2, WokenTurn
<1>4. failTurn \in Seq(Results)
  <2>1. hook \in Nat /\ (run.running => hook < run.turnFirst \/ hook = run.at) /\ run.at \in Nat
    BY DEF Shapes, RecOk, RecordsOfTurn, RecOfTurn, Counts
  <2>2. hook \in Results
    BY <2>1 DEF Results
  <2>. QED BY <2>2
<1>5. queue' \in Seq(Results)
  <2>1. PromptResults(lost) \in Seq(Results) /\ queue \in Seq(Results)
    BY PromptsAreResults DEF Queued
  <2>. HIDE DEF failTurn
  <2>2. queue \o failTurn \in Seq(Results)
    BY <1>4, <2>1, ConcatProperties
  <2>. QED BY <1>2, <2>1, <2>2, ConcatProperties
<1>6. stops' \subseteq stops
  BY <1>2 DEF StillStopping
<1>7. /\ DOMAIN slot' = {"client", "creating", "timer"}
      /\ slot'.client \in {None, slot.client} /\ slot'.creating \in {None, slot.creating}
      /\ slot' = slot \/ (slot.client = c /\ slot' = NoSlot)
  BY <1>2 DEF SlotAfterClose, NoSlot, Shapes
<1>8. \A d \in Conns : d \in {slot.client, slot.creating} =>
         d \in {slot'.client, slot'.creating} \/ ~Open(d)' \/ d \in disowned'
  BY <1>1, <1>7 DEF Slots, Open
<1>9. Shapes' /\ Steady /\ RecordsOfTurn'
  BY <1>1, <1>3, <1>7, ConnsFade, RecordsFade DEF SameTurn
<1>. QED BY <1>1, <1>3, <1>5, <1>6, <1>7, <1>8, <1>9, OthersStep

\* The connection of the slot is disposed.
LEMMA DisposeStep ==
    ASSUME AgentInv, HearsDispose
    PROVE  /\ AllFade /\ stops' \subseteq stops /\ queue' \in Seq(Results) /\ slot' = NoSlot
           /\ disowned \subseteq disowned'
           /\ \A d \in Conns : d \in {slot.client, slot.creating} => ~Open(d)' \/ d \in disowned'
           /\ \A c \in Conns : c = slot.client => conn'[c].closed
<1>. DEFINE lost == IF slot.client = None THEN {} ELSE conn[slot.client].pending
<1>. USE DEF AgentInv
<1>1. /\ stops' = StillStopping(lost) /\ queue' = queue \o PromptResults(lost)
      /\ conn' = SlotDisposed /\ slot' = NoSlot
      /\ disowned' = disowned \cup ({slot.creating} \ {None})
  BY DEF HearsDispose
<1>2. \A c \in Conns : conn'[c] = IF c = slot.client THEN Disposed(conn[c]) ELSE conn[c]
  BY <1>1 DEF SlotDisposed
<1>3. \A c \in Conns : Fades(conn[c], conn'[c]) /\ (c = slot.client => conn'[c].closed)
  <2>. SUFFICES ASSUME NEW c \in Conns
                PROVE  Fades(conn[c], conn'[c]) /\ (c = slot.client => conn'[c].closed)
    OBVIOUS
  <2>1. RecOk(conn[c], attempt) /\ attempt \in Nat
    BY DEF Shapes
  <2>2. CASE c # slot.client
    BY <1>2, <2>1, <2>2, FadesItself
  <2>3. CASE c = slot.client
    <3>1. conn[c].proc # "none"
      BY <2>3 DEF Slots, Born
    <3>2. Fades(conn[c], Disposed(conn[c])) /\ Disposed(conn[c]).closed
      BY <2>1, <3>1, EndsFade
    <3>3. conn'[c] = Disposed(conn[c])
      BY <1>2, <2>3
    <3>. QED BY <3>2, <3>3
  <2>. QED BY <2>2, <2>3
<1>4. AllFade
  BY <1>1, <1>3 DEF AllFade, SlotDisposed
<1>5. queue' \in Seq(Results)
  <2>1. \E c \in Conns : lost \subseteq conn[c].pending
    BY DEF Slots
  <2>2. PromptResults(lost) \in Seq(Results) /\ queue \in Seq(Results)
    BY <2>1, PromptsAreResults DEF Queued
  <2>. QED BY <1>1, <2>2, ConcatProperties
<1>6. \A d \in Conns : d \in {slot.client, slot.creating} => ~Open(d)' \/ d \in disowned'
  BY <1>1, <1>3 DEF Open
<1>. QED BY <1>1, <1>3, <1>4, <1>5, <1>6 DEF StillStopping

LEMMA DisposedStep ==
    ASSUME AgentInv, HearsDispose, NEW lost,
           lost = IF slot.client = None THEN {} ELSE conn[slot.client].pending,
           run' \in {Woken(lost, "lost"), [Woken(lost, "lost") EXCEPT !.evicted = TRUE]},
           attempt' = attempt, kind' = kind, last' = last
    PROVE  AgentInv'
<1>. USE DEF AgentInv
<1>1. /\ AllFade /\ stops' \subseteq stops /\ queue' \in Seq(Results) /\ slot' = NoSlot
      /\ disowned \subseteq disowned'
      /\ \A d \in Conns : d \in {slot.client, slot.creating} => ~Open(d)' \/ d \in disowned'
      /\ \A c \in Conns : c = slot.client => conn'[c].closed
  BY DisposeStep
<1>3. \E c \in Conns : lost \subseteq conn[c].pending /\ (lost # {} => c = slot.client)
  BY DEF Slots
<1>4. PICK c \in Conns : lost \subseteq conn[c].pending /\ (lost # {} => c = slot.client)
  BY <1>3
<1>5. /\ SameTurn /\ run'.force \in {run.force} \cup stops
      /\ run'.stop = run.stop /\ run'.cancelled = run.cancelled
      /\ run'.waits = "lost" => run.waits = "lost" \/ Awaited(c)
  BY <1>4, WokenTurn
<1>6. run'.waits = "lost" => run.waits = "lost" \/ lost # {}
  <2>1. lost = {} => run'.waits = run.waits
    BY DEF Woken, Shapes, RunFields
  <2>. QED BY <2>1
<1>7. Shapes' /\ Steady /\ RecordsOfTurn'
  BY <1>1, <1>5, ConnsFade, RecordsFade DEF SameTurn, NoSlot
<1>8. slot'.client = None /\ slot'.creating = None
  BY <1>1 DEF NoSlot
<1>. QED BY <1>1, <1>4, <1>5, <1>6, <1>7, <1>8, OthersStep

\* Whoever else acts, and leaves slot and creations alone.
LEMMA SettleStep ==
    ASSUME AgentInv, NEW c \in Conns, NEW reqs \in SUBSET conn[c].pending, NEW o \in {"ok", "error"},
           NEW l, conn' = [conn EXCEPT ![c] = l], Fades(conn[c], l),
           run' = Woken(reqs, o), stops' = StillStopping(reqs),
           queue' \in {queue, queue \o PromptResults(reqs)},
           UNCHANGED <<kind, slot, disowned, attempt, last>>
    PROVE  AgentInv'
<1>. USE DEF AgentInv
<1>1. AllFade
  BY OneFades
<1>2. /\ SameTurn /\ run'.force \in {run.force} \cup stops
      /\ run'.stop = run.stop /\ run'.cancelled = run.cancelled
      /\ run'.waits = "lost" => run.waits = "lost"
  BY WokenTurn
<1>3. queue' \in Seq(Results)
  <2>1. PromptResults(reqs) \in Seq(Results) /\ queue \in Seq(Results)
    BY PromptsAreResults DEF Queued
  <2>2. queue \o PromptResults(reqs) \in Seq(Results)
    BY <2>1, ConcatProperties
  <2>. QED BY <2>1, <2>2
<1>4. stops' \subseteq stops
  BY DEF StillStopping
<1>5. Shapes' /\ Steady /\ RecordsOfTurn'
  BY <1>1, <1>2, ConnsFade, RecordsFade DEF SameTurn, Shapes
<1>6. slot' = slot /\ disowned' = disowned
  OBVIOUS
<1>. QED BY <1>2, <1>3, <1>4, <1>5, <1>6, OthersStep

LEMMA AgentAnswersStep ==
    ASSUME AgentInv, NEW c \in Conns, NEW r \in conn[c].asked, NEW ok \in BOOLEAN,
           AgentAnswers(c, r, ok)
    PROVE  AgentInv'
<1>. DEFINE over == r.what = "prompt" /\ (kind \in Acp \/ ~ ok)
            k == conn[c]
            W == IF over THEN k.work \ {r.at} ELSE k.work
            l == [Answered(k, r, ok) EXCEPT !.work = W]
            heard == {r} \cap conn[c].pending
<1>1. RecOk(k, attempt) /\ attempt \in Nat /\ k.proc # "none"
  BY DEF AgentInv, Shapes, AgentAnswers, Open
<1>2. W \in SUBSET k.work
  OBVIOUS
<1>3. Fades(k, l) /\ Answered(k, r, ok).work = k.work
  <2>. HIDE DEF W
  <2>. QED BY <1>1, <1>2, AnswersFade
<1>4. conn' = [conn EXCEPT ![c] = l]
  <2>. DEFINE j == Answered(k, r, ok)
  <2>1. conn' = [conn EXCEPT ![c] = [j EXCEPT !.work = IF over THEN @ \ {r.at} ELSE @]]
    BY Zenon DEF AgentAnswers
  <2>2. j.work = k.work
    BY <1>3
  <2>. HIDE DEF j, over
  <2>3. [j EXCEPT !.work = IF over THEN @ \ {r.at} ELSE @]
        = [j EXCEPT !.work = IF over THEN k.work \ {r.at} ELSE k.work]
    BY <2>2
  <2>. QED BY <2>1, <2>3 DEF j, over
<1>5. /\ run' = Woken(heard, IF ok THEN "ok" ELSE "error") /\ stops' = StillStopping(heard)
      /\ queue' = queue \o PromptResults(heard)
      /\ UNCHANGED <<kind, slot, disowned, attempt, last>>
  BY DEF AgentAnswers
<1>. HIDE DEF l
<1>. QED BY <1>3, <1>4, <1>5, SettleStep

LEMMA RequestTimesOutStep ==
    ASSUME AgentInv, NEW c \in Conns, NEW r \in conn[c].pending, RequestTimesOut(c, r)
    PROVE  AgentInv'
<1>1. RecOk(conn[c], attempt) /\ attempt \in Nat
  BY DEF AgentInv, Shapes
<1>2. conn[c].proc # "none"
  BY <1>1, UnbornOk DEF RecOk
<1>3. Fades(conn[c], TimedOut(conn[c], r))
  BY <1>1, <1>2, AnswersFade
<1>4. /\ conn' = [conn EXCEPT ![c] = TimedOut(conn[c], r)]
      /\ run' = Woken({r}, "error") /\ stops' = StillStopping({r}) /\ queue' = queue
      /\ UNCHANGED <<kind, slot, disowned, attempt, last>>
  BY DEF RequestTimesOut
<1>. QED BY <1>3, <1>4, SettleStep

LEMMA ClosesStep ==
    ASSUME AgentInv, NEW c \in Conns, TransportBreaks(c) \/ ProcessExits(c)
    PROVE  AgentInv'
<1>1. RecOk(conn[c], attempt) /\ attempt \in Nat /\ conn[c].proc # "none"
  BY DEF AgentInv, Shapes, TransportBreaks, ProcessExits, Open, Living
<1>2. /\ Fades(conn[c], Broken(conn[c])) /\ Broken(conn[c]).closed
      /\ Fades(conn[c], Exited(conn[c])) /\ Exited(conn[c]).closed
  BY <1>1, EndsFade
<1>3. HearsClose(c) /\ UNCHANGED <<kind, disowned, attempt, last>>
  BY DEF TransportBreaks, ProcessExits
<1>4. \/ conn' = [conn EXCEPT ![c] = Broken(conn[c])]
      \/ conn' = [conn EXCEPT ![c] = Exited(conn[c])]
  BY DEF TransportBreaks, ProcessExits
<1>. QED BY <1>2, <1>3, <1>4, CloseStep

LEMMA QuietStep ==
    ASSUME AgentInv, NEW c \in Conns, NEW l, conn' = [conn EXCEPT ![c] = l], Fades(conn[c], l),
           queue' \in Seq(Results), UNCHANGED <<kind, slot, disowned, run, attempt, stops, last>>
    PROVE  AgentInv'
<1>. USE DEF AgentInv
<1>1. AllFade
  BY OneFades
<1>2. SameTurn
  BY DEF SameTurn, SameSetup, Shapes
<1>3. Shapes' /\ Steady /\ RecordsOfTurn'
  BY <1>1, <1>2, ConnsFade, RecordsFade DEF SameTurn, Shapes
<1>. QED BY <1>2, <1>3, OthersStep

LEMMA GraceStep ==
    ASSUME AgentInv, NEW c \in Conns, GraceElapses(c), UNCHANGED <<run, queue, attempt, stops, last>>
    PROVE  AgentInv'
<1>1. RecOk(conn[c], attempt) /\ attempt \in Nat /\ conn[c].proc # "none"
  BY DEF AgentInv, Shapes, GraceElapses
<1>2. Fades(conn[c], [conn[c] EXCEPT !.proc = "killed"])
  BY <1>1, EndsFade
<1>3. /\ conn' = [conn EXCEPT ![c] = [conn[c] EXCEPT !.proc = "killed"]]
      /\ UNCHANGED <<kind, slot, disowned>>
  BY DEF GraceElapses, AgentInv, Shapes
<1>. QED BY <1>2, <1>3, QuietStep DEF AgentInv, Queued

LEMMA AgentEndsTurnStep ==
    ASSUME AgentInv, NEW c \in Conns, NEW a \in Attempts, AgentEndsTurn(c, a)
    PROVE  AgentInv'
<1>. USE DEF AgentInv
<1>1. RecOk(conn[c], attempt) /\ attempt \in Nat /\ conn[c].proc # "none" /\ a \in conn[c].work
  BY DEF Shapes, AgentEndsTurn, Open
<1>2. Fades(conn[c], [conn[c] EXCEPT !.work = conn[c].work \ {a}])
  BY <1>1, AnswersFade
<1>3. conn' = [conn EXCEPT ![c] = [conn[c] EXCEPT !.work = conn[c].work \ {a}]]
  BY DEF AgentEndsTurn, Shapes
<1>4. a \in Results
  <2>1. a \in Nat /\ (run.running => a < run.turnFirst \/ a = run.at) /\ run.at \in Nat
    BY <1>1 DEF RecOk, RecordsOfTurn, RecOfTurn, Counts
  <2>. QED BY <2>1 DEF Results
<1>5. queue' \in Seq(Results)
  BY <1>4, AppendProperties DEF AgentEndsTurn, Queued
<1>. QED BY <1>2, <1>3, <1>5, QuietStep DEF AgentEndsTurn

LEMMA OneAsked ==
    ASSUME Shapes, NEW c \in Conns, NEW l, conn' = [conn EXCEPT ![c] = l],
           RecOk(l, attempt), l.closed = conn[c].closed, l.proc = conn[c].proc, NEW what,
           l.pending \subseteq conn[c].pending \cup {[at |-> run.at, what |-> what]}, what # "connect",
           DOMAIN run' = RunFields, DOMAIN slot' = {"client", "creating", "timer"}, attempt' = attempt
    PROVE  /\ Shapes' /\ Steady
           /\ \A d \in Conns : conn'[d] = IF d = c THEN l ELSE conn[d]
<1>1. /\ \A d \in Conns : conn'[d] = IF d = c THEN l ELSE conn[d]
      /\ DOMAIN conn' = Conns /\ conn' = [d \in Conns |-> conn'[d]]
  BY DEF Shapes
<1>2. Steady
  <2>1. \A r \in l.pending : r.what = "connect" => r \in conn[c].pending
    OBVIOUS
  <2>. QED BY <1>1, <2>1 DEF Steady, Born, Open
<1>3. Shapes'
  <2>1. \A d \in Conns : RecOk(conn'[d], attempt)
    BY <1>1 DEF Shapes
  <2>. QED BY <1>1, <1>2, <2>1 DEF Shapes, Steady
<1>. QED BY <1>1, <1>2, <1>3

\* The setup goes on from one await to the next.
LEMMA RecordsMove ==
    ASSUME RecordsOfTurn, run.running, kind' = kind, NEW l, NEW what \in {"settings", "prompt", "cancel"},
           \A d \in Conns : conn'[d] = IF d = run.client THEN l ELSE conn[d],
           l.hooks = conn[run.client].hooks, l.work \subseteq conn[run.client].work \cup {run.at},
           l.pending \subseteq conn[run.client].pending \cup {[at |-> run.at, what |-> what]},
           what = "prompt" /\ kind \in Acp => run'.sent,
           run'.at = run.at, run'.turnFirst = run.turnFirst, run'.client = run.client,
           run.sent => run'.sent,
           run.phase \notin Connecting, run'.phase \notin Connecting \cup {"session"}
    PROVE  RecordsOfTurn'
<1>. SUFFICES ASSUME NEW c \in Conns PROVE RecOfTurn(conn'[c], c, run', kind)
  BY DEF RecordsOfTurn
<1>1. RecOfTurn(conn[c], c, run, kind)
  BY DEF RecordsOfTurn
<1>2. RecOfTurn(conn[c], c, run', kind)
  BY <1>1 DEF RecOfTurn, Connecting
<1>3. CASE c # run.client
  BY <1>2, <1>3
<1>4. CASE c = run.client
  <2>. DEFINE r == [at |-> run.at, what |-> what]
  <2>1. r.at = run.at /\ r.what = what
    OBVIOUS
  <2>2. l.pending \subseteq conn[c].pending \cup {r} /\ conn'[c] = l
    BY <1>4
  <2>. HIDE DEF r
  <2>. QED BY <1>2, <1>4, <2>1, <2>2 DEF RecOfTurn
<1>. QED BY <1>3, <1>4

LEMMA StopStep ==
    ASSUME AgentInv, Stop
    PROVE  AgentInv'
<1>. DEFINE now == run.client # None /\ run.session /\ ~ DefersStop
            c == run.client
            posted == now /\ ~ conn[c].closed
            l == Asked(conn[c], [at |-> run.at, what |-> "cancel"])
<1>. USE DEF AgentInv
<1>1. /\ run.running /\ ~run.stop /\ run.phase \notin {"acquire", "set", "timeout"}
      /\ run' = [run EXCEPT !.stop = TRUE, !.force = run.at, !.cancelled = @ \/ posted]
      /\ IF posted /\ kind = "codex"
         THEN /\ stops' = stops \cup {run.at}
              /\ conn' = [conn EXCEPT ![c] = l]
         ELSE UNCHANGED <<conn, stops>>
      /\ UNCHANGED <<kind, slot, disowned, queue, attempt, last>>
  BY DEF Stop
<1>. DEFINE ran == [run EXCEPT !.stop = TRUE, !.force = run.at, !.cancelled = @ \/ posted]
<1>2. /\ SameTurn /\ SameSetup(run, run') /\ run'.force = run.at /\ run'.stop
      /\ run'.waits = run.waits /\ (run.cancelled \/ posted => run'.cancelled)
  <2>. HIDE DEF posted
  <2>1. DOMAIN run' = RunFields
    BY <1>1 DEF Shapes
  <2>2. /\ run'.at = run.at /\ run'.turnFirst = run.turnFirst /\ run'.phase = run.phase
        /\ run'.client = run.client /\ run'.sent = run.sent /\ run'.then = run.then
        /\ run'.running = run.running /\ run'.session = run.session /\ run'.turnId = run.turnId
        /\ run'.settled = run.settled /\ run'.waits = run.waits
        /\ run'.force = run.at /\ run'.stop = TRUE
    BY <1>1 DEF Shapes, RunFields
  <2>3. run'.cancelled = (run.cancelled \/ posted)
    BY <1>1 DEF Shapes, RunFields
  <2>. QED BY <2>1, <2>2, <2>3 DEF SameTurn, SameSetup
<1>3. Shapes' /\ Steady /\ RecordsOfTurn'
  <2>1. CASE conn' = conn
    <3>1. AllFade
      BY <2>1, FadesItself DEF AllFade, Shapes
    <3>. QED BY <1>1, <1>2, <3>1, ConnsFade, RecordsFade DEF SameTurn, Shapes
  <2>2. CASE posted /\ kind = "codex"
    <3>1. /\ run.phase \in SetUp /\ run.phase \notin Connecting /\ c \in Conns
          /\ conn[c].proc # "none" /\ RecOk(conn[c], attempt) /\ attempt \in Nat
          /\ run.at \in 0 .. attempt
      BY <2>2 DEF Setups, DefersStop, Slots, SetUp, Connecting, Born, Shapes, Counts
    <3>2. /\ RecOk(l, attempt) /\ l.closed = conn[c].closed /\ l.proc = conn[c].proc
          /\ l.hooks = conn[c].hooks /\ l.work = conn[c].work
          /\ l.pending \subseteq conn[c].pending \cup {[at |-> run.at, what |-> "cancel"]}
      BY <3>1, AskedOk
    <3>3. conn' = [conn EXCEPT ![c] = l]
      BY <1>1, <2>2
    <3>. HIDE DEF l, c
    <3>4. /\ Shapes' /\ Steady
          /\ \A d \in Conns : conn'[d] = IF d = c THEN l ELSE conn[d]
      BY <1>1, <1>2, <3>1, <3>2, <3>3, OneAsked DEF SameTurn, Shapes
    <3>5. RecordsOfTurn'
      BY <1>1, <1>2, <3>1, <3>2, <3>4, RecordsMove DEF SameTurn, SameSetup, SetUp, c
    <3>. QED BY <3>4, <3>5
  <2>. QED BY <1>1, <2>1, <2>2
<1>4. run.phase \in {"consume", "cancel"} /\ kind # "kimi" =>
         run'.cancelled \/ conn'[run.client].closed
  <2>. SUFFICES ASSUME run.phase \in {"consume", "cancel"}, kind # "kimi"
                PROVE  run'.cancelled \/ conn'[run.client].closed
    OBVIOUS
  <2>1. run.client # None /\ run.client \in Conns /\ run.phase \in SetUp
    BY DEF Slots, SetUp, Connecting
  <2>2. run.session /\ ~DefersStop
    BY <2>1 DEF Setups, DefersStop, Acp
  <2>3. posted \/ conn[run.client].closed
    BY <2>1, <2>2
  <2>. QED BY <1>2, <1>3, <2>1, <2>3 DEF Steady
<1>5. \/ stops' \subseteq stops
      \/ run.running /\ stops' = stops \cup {run.at} /\ run'.stop /\ run'.cancelled
  BY <1>1, <1>2
<1>6. /\ slot' = slot /\ disowned' = disowned /\ queue' \in Seq(Results)
      /\ attempt' = attempt /\ kind' = kind /\ last' = last
  BY <1>1 DEF Queued
<1>. HIDE DEF posted
<1>. QED BY <1>2, <1>3, <1>4, <1>5, <1>6, OthersStep

-----------------------------------------------------------------------------
(* The end of a turn                                                       *)

\* The runner between turns.
Resting ==
    /\ DOMAIN run' = RunFields
    /\ ~run'.running /\ run'.phase = "idle" /\ run'.then = "consume"
    /\ run'.at = 0 /\ run'.turnFirst = 0 /\ run'.force = 0
    /\ ~run'.sent /\ ~run'.turnId /\ run'.client \in {None, run.client}

LEMMA FreshRests ==
    ASSUME NEW next, \/ run' = FreshRunner(next)
                     \/ run' = [FreshRunner(next) EXCEPT !.client = run.client]
    PROVE  Resting
<1>1. CASE run' = FreshRunner(next)
  BY <1>1 DEF FreshRunner, Resting, RunFields
<1>2. CASE run' = [FreshRunner(next) EXCEPT !.client = run.client]
  BY <1>2 DEF FreshRunner, Resting, RunFields
<1>. QED BY <1>1, <1>2

LEMMA TurnOver ==
    ASSUME AgentInv, Resting, AllFade, attempt' = attempt, kind' = kind, stops' \subseteq stops,
           DOMAIN slot' = {"client", "creating", "timer"},
           slot'.client \in {None, slot.client}, slot'.creating = None,
           disowned \subseteq disowned',
           \A c \in Conns : c \in {slot.client, slot.creating} =>
               c = slot'.client \/ ~Open(c)' \/ c \in disowned',
           queue' \in Seq(Results), EndIsTrue'
    PROVE  AgentInv'
<1>. USE DEF AgentInv
<1>1. Shapes' /\ Steady
  BY ConnsFade DEF Resting
<1>2. Counts'
  BY DEF Counts, Resting, Shapes
<1>3. RecordsOfTurn' /\ OneIsMade' /\ LostIsClosed' /\ Stopped'
  BY DEF RecordsOfTurn, OneIsMade, LostIsClosed, Stopped, Resting
<1>4. Slots'
  <2>1. StrayOnlyIfGivenUp'
    BY <1>1 DEF Slots, StrayOnlyIfGivenUp, Steady
  <2>. QED BY <1>1, <2>1 DEF Slots, Steady, Resting
<1>5. Setups'
  BY DEF Setups, SetUp, Phases, Connecting, Resting
<1>6. Queued'
  <2>1. Results \subseteq Results'
    BY DEF Results, Resting
  <2>2. Len(queue') \in Nat /\ queue' \in [1 .. Len(queue') -> Results']
    BY <2>1
  <2>. QED BY <2>2, SeqDef DEF Queued
<1>. QED BY <1>1, <1>2, <1>3, <1>4, <1>5, <1>6

\* Nothing happens to a connection, and nothing is made.
LEMMA EndedStep ==
    ASSUME AgentInv, NEW how, NEW from, Ended(how, from), run.phase # "connect", slot' = Idled,
           UNCHANGED <<kind, conn, disowned, attempt, stops>>, queue' \in Seq(Results), EndIsTrue'
    PROVE  AgentInv'
<1>. USE DEF AgentInv
<1>1. Resting
  BY FreshRests DEF Ended
<1>2. AllFade
  BY FadesItself DEF AllFade, Shapes
<1>3. /\ DOMAIN slot' = {"client", "creating", "timer"}
      /\ slot'.client = slot.client /\ slot'.creating = slot.creating /\ slot.creating = None
  BY DEF Idled, Shapes, Slots
<1>. QED BY <1>1, <1>2, <1>3, TurnOver

LEMMA EndedTells ==
    ASSUME NEW how, NEW from \in Nat, run.turnFirst \in Nat, run.at \in Nat, Ended(how, from)
    PROVE  /\ last'.how = how
           /\ last'.of = "earlier setup" => ~(from < run.turnFirst) /\ from < run.at
           /\ last'.of = "own" => ~(from < run.at)
           /\ last'.reached <=> run.cancelled \/ \A c \in Conns : Open(c) => run.at \notin conn[c].work
<1>. DEFINE of == CASE from < run.turnFirst -> "earlier turn"
                    [] run.turnFirst <= from /\ from < run.at -> "earlier setup"
                    [] OTHER -> "own"
            reached == run.cancelled \/ \A c \in Conns : Open(c) => run.at \notin conn[c].work
<1>1. last' = [how |-> how, of |-> of, reached |-> reached]
  BY DEF Ended
<1>2. of = "earlier setup" => ~(from < run.turnFirst) /\ from < run.at
  OBVIOUS
<1>3. of = "own" => ~(from < run.at)
  OBVIOUS
<1>. HIDE DEF of, reached
<1>4. last'.how = how /\ last'.of = of /\ last'.reached = reached
  BY <1>1
<1>. QED BY <1>2, <1>3, <1>4 DEF reached

LEMMA ConsumeResultStep ==
    ASSUME AgentInv, ConsumeResult
    PROVE  AgentInv'
<1>. USE DEF AgentInv
<1>1. queue \in Seq(Results) /\ queue # <<>>
  BY DEF Queued, ConsumeResult
<1>2. Head(queue) \in Results /\ Tail(queue) \in Seq(Results)
  BY <1>1, HeadTailProperties
<1>3. last'.how = "result" /\ last'.of # "earlier setup"
  <2>1. run.running /\ run.at \in Nat /\ run.turnFirst \in Nat
    BY DEF ConsumeResult, Counts, Shapes
  <2>. DEFINE from == Head(queue)
  <2>2. Ended("result", from)
    BY DEF ConsumeResult
  <2>3. from \in Nat /\ (from < run.turnFirst \/ from >= run.at)
    BY <1>2, <2>1 DEF Results
  <2>. HIDE DEF from
  <2>4. last'.how = "result" /\ (last'.of = "earlier setup" => ~(from < run.turnFirst) /\ from < run.at)
    <3>1. run.turnFirst \in Nat /\ run.at \in Nat /\ from \in Nat
      BY <2>1, <2>3
    <3>. QED BY <2>2, <3>1, EndedTells, Zenon
  <2>5. ~(~(from < run.turnFirst) /\ from < run.at)
    BY <2>1, <2>3
  <2>. QED BY <2>4, <2>5, Zenon
<1>4. EndIsTrue'
  BY <1>3 DEF EndIsTrue, RetryStartsClean, InterruptReachesAgent
<1>. QED BY <1>2, <1>4, EndedStep DEF ConsumeResult

LEMMA ConsumeStopStep ==
    ASSUME AgentInv, ConsumeStop
    PROVE  AgentInv'
<1>. USE DEF AgentInv
<1>1. /\ run.running /\ run.at \in Nat /\ run.turnFirst \in Nat /\ run.turnFirst <= run.at
      /\ run.at = attempt /\ run.force \in 0 .. attempt /\ run.force \in Nat
  BY DEF ConsumeStop, Counts, Shapes
<1>2. /\ last'.how = "interrupted" /\ (last'.of = "own" => ~(run.force < run.at))
      /\ last'.reached <=> run.cancelled \/ \A c \in Conns : Open(c) => run.at \notin conn[c].work
  <2>1. Ended("interrupted", run.force)
    BY DEF ConsumeStop
  <2>. QED BY <1>1, <2>1, EndedTells, Zenon
<1>3. ASSUME kind # "kimi", last'.of = "own" PROVE last'.reached
  <2>1. run.force = run.at
    BY <1>1, <1>2, <1>3
  <2>2. run.cancelled \/ conn[run.client].closed
    BY <1>1, <1>3, <2>1 DEF Stopped, ConsumeStop
  <2>3. \A c \in Conns : run.at \in conn[c].work => c = run.client
    BY <1>1 DEF RecordsOfTurn, RecOfTurn
  <2>. QED BY <1>2, <2>2, <2>3 DEF Open
<1>4. EndIsTrue'
  BY <1>2, <1>3 DEF EndIsTrue, RetryStartsClean, InterruptReachesAgent, ConsumeStop
<1>. QED BY <1>4, EndedStep DEF ConsumeStop, Queued

LEMMA TimeoutStep ==
    ASSUME AgentInv, TimeoutReported
    PROVE  AgentInv'
<1>1. EndIsTrue'
  BY DEF TimeoutReported, Ended, EndIsTrue, RetryStartsClean, InterruptReachesAgent
<1>. QED BY <1>1, EndedStep DEF TimeoutReported, Queued, AgentInv

LEMMA SetupFailsStep ==
    ASSUME AgentInv, SetupFails
    PROVE  AgentInv'
<1>. USE DEF AgentInv
<1>1. EndIsTrue' /\ queue' \in Seq(Results)
  BY DEF SetupFails, Ended, EndIsTrue, RetryStartsClean, InterruptReachesAgent, Queued
<1>2. CASE run.phase # "connect"
  BY <1>1, <1>2, EndedStep DEF SetupFails
<1>3. CASE run.phase = "connect"
  <2>1. Resting
    BY FreshRests DEF SetupFails, Ended
  <2>2. AllFade
    BY FadesItself DEF AllFade, Shapes, SetupFails
  <2>3. /\ slot.client = None /\ slot.creating \in {None, Made}
        /\ slot' = (IF slot.creating = Made THEN NoSlot ELSE slot)
        /\ disowned' = IF Open(Made) THEN disowned \cup {Made} ELSE disowned
        /\ conn' = conn
    BY <1>3 DEF SetupFails, OneIsMade, Uncached
  <2>4. /\ DOMAIN slot' = {"client", "creating", "timer"}
        /\ slot'.client = None /\ slot'.creating = None
    BY <2>3 DEF NoSlot, Shapes
  <2>5. \A c \in Conns : c \in {slot.client, slot.creating} => ~Open(c)' \/ c \in disowned'
    BY <2>3 DEF Open
  <2>6. disowned \subseteq disowned'
    BY <2>3
  <2>. QED BY <1>1, <2>1, <2>2, <2>4, <2>5, <2>6, TurnOver DEF SetupFails
<1>. QED BY <1>2, <1>3

LEMMA EvictStep ==
    ASSUME AgentInv, Evict
    PROVE  AgentInv'
<1>. DEFINE lost == IF slot.client = None THEN {} ELSE conn[slot.client].pending
<1>1. HearsDispose /\ attempt' = attempt /\ kind' = kind /\ last' = last
  BY DEF Evict
<1>2. CASE run.running
  <2>1. run' = [Woken(lost, "lost") EXCEPT !.evicted = TRUE]
    BY <1>2 DEF Evict
  <2>. QED BY <1>1, <2>1, DisposedStep
<1>3. CASE ~run.running
  <2>1. Resting
    BY <1>3, FreshRests DEF Evict
  <2>2. EndIsTrue'
    BY <1>1 DEF AgentInv, EndIsTrue, RetryStartsClean, InterruptReachesAgent
  <2>3. DOMAIN slot' = {"client", "creating", "timer"} /\ slot'.client = None /\ slot'.creating = None
    BY <1>1, DisposeStep DEF NoSlot
  <2>. QED BY <1>1, <2>1, <2>2, <2>3, DisposeStep, TurnOver
<1>. QED BY <1>2, <1>3

-----------------------------------------------------------------------------
(* The generator                                                           *)

\* A connection is asked for something, and works on it if it is a prompt.
LEMMA PromptedOk ==
    ASSUME NEW n \in Nat, NEW k, RecOk(k, n), k.proc # "none", NEW a \in 0 .. n
    PROVE  LET j == Asked(k, [at |-> a, what |-> "prompt"])
               l == IF k.closed THEN j ELSE [j EXCEPT !.work = @ \cup {a}]
           IN  /\ RecOk(l, n) /\ l.closed = k.closed /\ l.proc = k.proc
               /\ l.hooks = k.hooks /\ l.work \subseteq k.work \cup {a}
               /\ l.pending \subseteq k.pending \cup {[at |-> a, what |-> "prompt"]}
<1>. DEFINE j == Asked(k, [at |-> a, what |-> "prompt"])
            l == IF k.closed THEN j ELSE [j EXCEPT !.work = @ \cup {a}]
<1>1. /\ RecOk(j, n) /\ j.closed = k.closed /\ j.proc = k.proc
      /\ j.hooks = k.hooks /\ j.work = k.work
      /\ j.pending \subseteq k.pending \cup {[at |-> a, what |-> "prompt"]}
  BY AskedOk
<1>2. CASE k.closed
  BY <1>1, <1>2
<1>3. CASE ~k.closed
  <2>1. l = [j EXCEPT !.work = @ \cup {a}]
    BY <1>3
  <2>. HIDE DEF j
  <2>2. /\ DOMAIN l = ConnFields /\ l.closed = j.closed /\ l.proc = j.proc /\ l.hooks = j.hooks
        /\ l.pending = j.pending /\ l.work = j.work \cup {a}
    BY <1>1, <2>1 DEF RecOk, ConnFields
  <2>3. RecOk(l, n)
    BY <1>1, <1>3, <2>2 DEF RecOk
  <2>4. /\ RecOk(l, n) /\ l.closed = k.closed /\ l.proc = k.proc
        /\ l.hooks = k.hooks /\ l.work \subseteq k.work \cup {a}
        /\ l.pending \subseteq k.pending \cup {[at |-> a, what |-> "prompt"]}
    BY <1>1, <2>2, <2>3
  <2>. QED BY <2>4 DEF j
<1>. QED BY <1>2, <1>3

LEMMA MovesOn ==
    ASSUME AgentInv, run.phase \notin Connecting, run.running,
           DOMAIN run' = RunFields, run'.running, run'.at = run.at, run'.turnFirst = run.turnFirst,
           run'.force = run.force, run'.client = run.client,
           run'.stop <=> run.stop, run.cancelled => run'.cancelled,
           run'.phase \in Phases \ (Connecting \cup {"idle"}),
           Shapes', Steady, RecordsOfTurn', Setups', LostIsClosed',
           UNCHANGED <<kind, slot, disowned, attempt, stops, last>>, queue' \in Seq(Results),
           run'.phase \in {"consume", "cancel"} /\ run'.stop /\ kind # "kimi" =>
               run'.cancelled \/ conn'[run.client].closed
    PROVE  AgentInv'
<1>. USE DEF AgentInv
<1>1. Counts'
  BY DEF Counts
<1>2. OneIsMade'
  BY DEF OneIsMade, Connecting
<1>3. Slots'
  <2>1. StrayOnlyIfGivenUp'
    BY DEF Slots, StrayOnlyIfGivenUp, Steady
  <2>. QED BY <2>1 DEF Slots, Steady, Connecting, Counts
<1>4. Queued'
  <2>1. Results' = Results
    BY DEF Results
  <2>. QED BY <2>1 DEF Queued
<1>5. Stopped'
  BY DEF Stopped
<1>6. EndIsTrue'
  BY DEF EndIsTrue, RetryStartsClean, InterruptReachesAgent
<1>. QED BY <1>1, <1>2, <1>3, <1>4, <1>5, <1>6

LEMMA NothingAsked ==
    ASSUME Shapes, RecordsOfTurn, run.running, kind' = kind, conn' = conn, slot' = slot, attempt' = attempt,
           DOMAIN run' = RunFields, run'.at = run.at, run'.turnFirst = run.turnFirst,
           run'.client = run.client, run.sent => run'.sent,
           run.phase \notin Connecting, run'.phase \notin Connecting \cup {"session"}
    PROVE  Shapes' /\ Steady /\ RecordsOfTurn'
<1>1. AllFade
  BY FadesItself DEF AllFade, Shapes
<1>2. Shapes' /\ Steady
  BY <1>1, ConnsFade DEF Shapes
<1>3. RecordsOfTurn'
  BY RecordsMove
<1>. QED BY <1>2, <1>3

\* The fields of the turn that no step from await to await touches.
KeptOnTheWay ==
    /\ DOMAIN run' = RunFields /\ run'.running = run.running
    /\ run'.at = run.at /\ run'.turnFirst = run.turnFirst
    /\ run'.force = run.force /\ run'.client = run.client /\ run'.stop = run.stop

LEMMA PromptAcknowledgedStep ==
    ASSUME AgentInv, PromptAcknowledged
    PROVE  AgentInv'
<1>. USE DEF AgentInv
<1>1. /\ run.phase = "prompt" /\ UNCHANGED <<kind, connVars, queue, attempt, stops, last>>
      /\ run' = [run EXCEPT !.turnId = TRUE, !.settled = (kind = "pi"), !.phase = "set", !.waits = "no"]
  BY DEF PromptAcknowledged
<1>2. /\ KeptOnTheWay /\ run'.cancelled = run.cancelled /\ run'.sent = run.sent
      /\ run'.then = run.then /\ run'.session = run.session
      /\ run'.phase = "set" /\ run'.turnId = TRUE /\ run'.settled = (kind = "pi")
  BY <1>1 DEF Shapes, RunFields, KeptOnTheWay
<1>3. run.running
  BY <1>1 DEF Counts
<1>4. Setups'
  BY <1>1, <1>2 DEF Setups, SetUp, Phases, Connecting
<1>5. Shapes' /\ Steady /\ RecordsOfTurn'
  BY <1>1, <1>2, <1>3, NothingAsked DEF KeptOnTheWay, connVars, Connecting
<1>6. LostIsClosed' /\ queue' \in Seq(Results)
  BY <1>1, <1>2 DEF LostIsClosed, Queued
<1>. QED BY <1>1, <1>2, <1>3, <1>4, <1>5, <1>6, MovesOn
      DEF KeptOnTheWay, connVars, Connecting, Phases, SetUp

LEMMA InterruptedStep ==
    ASSUME AgentInv, Interrupted
    PROVE  AgentInv'
<1>. USE DEF AgentInv
<1>1. /\ run.phase = "cancel" /\ UNCHANGED <<kind, connVars, queue, attempt, stops, last>>
      /\ run' = [run EXCEPT !.phase = run.then, !.waits = "no"]
  BY DEF Interrupted
<1>2. /\ KeptOnTheWay /\ run'.cancelled = run.cancelled /\ run'.sent = run.sent
      /\ run'.then = run.then /\ run'.session = run.session
      /\ run'.phase \in {"consume", "timeout"} /\ run'.turnId = run.turnId /\ run'.settled = run.settled
  BY <1>1 DEF Shapes, RunFields, KeptOnTheWay, Setups
<1>3. run.running
  BY <1>1 DEF Counts
<1>4. Setups'
  BY <1>1, <1>2 DEF Setups, SetUp, Phases, Connecting
<1>5. Shapes' /\ Steady /\ RecordsOfTurn'
  BY <1>1, <1>2, <1>3, NothingAsked DEF KeptOnTheWay, connVars, Connecting
<1>6. LostIsClosed' /\ queue' \in Seq(Results)
  BY <1>1, <1>2 DEF LostIsClosed, Queued
<1>7. run.stop /\ kind # "kimi" => run.cancelled \/ conn[run.client].closed
  BY <1>1, <1>3 DEF Stopped
<1>. QED BY <1>1, <1>2, <1>3, <1>4, <1>5, <1>6, <1>7, MovesOn
      DEF KeptOnTheWay, connVars, Connecting, Phases, SetUp

\* The cancel that the generator sends, of a stop made up for or of the watchdog.
LEMMA CancelStep ==
    ASSUME AgentInv, run.phase \in {"set", "consume"}, NEW next \in {"consume", "timeout"},
           CancelCurrentTurn(next), UNCHANGED <<kind, slot, disowned, queue, attempt, stops, last>>
    PROVE  AgentInv'
<1>. DEFINE c == run.client
            can == run.client # None /\ run.session /\ (kind = "codex" => run.turnId)
            cancelled == can /\ ~ conn[c].closed
            l == Asked(conn[c], [at |-> run.at, what |-> "cancel"])
            asks == can /\ kind = "codex"
            phase == IF asks THEN "cancel" ELSE next
            then == IF asks THEN next ELSE run.then
            told == run.cancelled \/ cancelled
<1>. USE DEF AgentInv
<1>1. conn' = IF asks THEN [conn EXCEPT ![c] = l] ELSE conn
  BY DEF CancelCurrentTurn
<1>2. /\ run.running /\ can /\ c \in Conns /\ conn[c].proc # "none"
      /\ RecOk(conn[c], attempt) /\ attempt \in Nat /\ run.at \in 0 .. attempt
  BY DEF Counts, Setups, SetUp, Slots, Connecting, Born, Shapes
<1>3. phase \in {"cancel", "consume", "timeout"} /\ then \in {"consume", "timeout"}
  BY DEF Setups
<1>4. told \/ conn[c].closed
  BY <1>2
<1>5. run.cancelled => told
  OBVIOUS
<1>6. /\ KeptOnTheWay /\ run'.sent = run.sent /\ run'.session = run.session
      /\ run'.turnId = run.turnId /\ run'.settled = run.settled
      /\ run'.phase = phase /\ run'.then = then /\ run'.cancelled = told
  <2>. DEFINE waits == IF conn[c].closed THEN "lost" ELSE "waiting"
  <2>1. CASE asks
    <3>1. run' = [run EXCEPT !.phase = "cancel", !.then = next, !.cancelled = told, !.waits = waits]
      BY <2>1 DEF CancelCurrentTurn
    <3>2. phase = "cancel" /\ then = next
      BY <2>1
    <3>. HIDE DEF waits, told, phase, then
    <3>. QED BY <3>1, <3>2 DEF Shapes, RunFields, KeptOnTheWay
  <2>2. CASE ~asks
    <3>1. run' = [run EXCEPT !.phase = next, !.waits = "no", !.cancelled = told]
      BY <2>2 DEF CancelCurrentTurn
    <3>2. phase = next /\ then = run.then
      BY <2>2
    <3>. HIDE DEF waits, told, phase, then
    <3>. QED BY <3>1, <3>2 DEF Shapes, RunFields, KeptOnTheWay
  <2>. QED BY <2>1, <2>2
<1>. HIDE DEF phase, then, told
<1>7. Shapes' /\ Steady /\ RecordsOfTurn'
  <2>1. CASE ~asks
    BY <1>1, <1>2, <1>3, <1>6, <2>1, NothingAsked DEF KeptOnTheWay, Connecting
  <2>2. CASE asks
    <3>1. conn' = [conn EXCEPT ![c] = l]
      BY <1>1, <2>2
    <3>2. /\ RecOk(l, attempt) /\ l.closed = conn[c].closed /\ l.proc = conn[c].proc
          /\ l.hooks = conn[c].hooks /\ l.work = conn[c].work
          /\ l.pending \subseteq conn[c].pending \cup {[at |-> run.at, what |-> "cancel"]}
      BY <1>2, AskedOk
    <3>. HIDE DEF l
    <3>3. /\ Shapes' /\ Steady
          /\ \A d \in Conns : conn'[d] = IF d = c THEN l ELSE conn[d]
      BY <1>2, <1>6, <3>1, <3>2, OneAsked DEF KeptOnTheWay, Shapes
    <3>4. RecordsOfTurn'
      BY <1>2, <1>3, <1>6, <3>2, <3>3, RecordsMove DEF KeptOnTheWay, Connecting
    <3>. QED BY <3>3, <3>4
  <2>. QED BY <2>1, <2>2
<1>8. Setups'
  BY <1>3, <1>6 DEF Setups, SetUp, Phases, Connecting
<1>9. LostIsClosed' /\ queue' \in Seq(Results)
  BY <1>3, <1>6 DEF LostIsClosed, Queued
<1>10. run'.cancelled \/ conn'[run.client].closed
  BY <1>2, <1>4, <1>6, <1>7 DEF Steady
<1>. QED BY <1>2, <1>3, <1>5, <1>6, <1>7, <1>8, <1>9, <1>10, MovesOn
      DEF KeptOnTheWay, Connecting, Phases, SetUp

LEMMA SetupDoneStep ==
    ASSUME AgentInv, SetupDone
    PROVE  AgentInv'
<1>. USE DEF AgentInv
<1>1. CASE run.stop
  BY <1>1, CancelStep DEF SetupDone
<1>2. CASE ~run.stop
  <2>1. /\ run.phase = "set" /\ UNCHANGED <<kind, conn, slot, disowned, queue, attempt, stops, last>>
        /\ run' = [run EXCEPT !.phase = "consume"]
    BY <1>2 DEF SetupDone
  <2>2. /\ KeptOnTheWay /\ run'.cancelled = run.cancelled /\ run'.sent = run.sent
        /\ run'.then = run.then /\ run'.session = run.session
        /\ run'.phase = "consume" /\ run'.turnId = run.turnId /\ run'.settled = run.settled
    BY <2>1 DEF Shapes, RunFields, KeptOnTheWay
  <2>3. run.running
    BY <2>1 DEF Counts
  <2>4. Setups'
    BY <2>1, <2>2 DEF Setups, SetUp, Phases, Connecting
  <2>5. Shapes' /\ Steady /\ RecordsOfTurn'
    BY <2>1, <2>2, <2>3, NothingAsked DEF KeptOnTheWay, Connecting
  <2>6. LostIsClosed' /\ queue' \in Seq(Results)
    BY <2>1, <2>2 DEF LostIsClosed, Queued
  <2>. QED BY <1>2, <2>1, <2>2, <2>3, <2>4, <2>5, <2>6, MovesOn
        DEF KeptOnTheWay, Connecting, Phases, SetUp
<1>. QED BY <1>1, <1>2

LEMMA TurnIdlesStep ==
    ASSUME AgentInv, TurnIdles
    PROVE  AgentInv'
BY CancelStep DEF TurnIdles

LEMMA SessionReadyStep ==
    ASSUME AgentInv, SessionReady
    PROVE  AgentInv'
<1>. DEFINE c == run.client
            waits == IF conn[c].closed THEN "lost" ELSE "waiting"
<1>. USE DEF AgentInv
<1>1. /\ run.phase = "session" /\ UNCHANGED <<kind, slot, disowned, queue, attempt, stops, last>>
  BY DEF SessionReady
<1>2. /\ run.running /\ c \in Conns /\ conn[c].proc # "none" /\ ~run.sent
      /\ RecOk(conn[c], attempt) /\ attempt \in Nat /\ run.at \in 0 .. attempt
      /\ kind = "codex" => ~run.turnId
  BY <1>1 DEF Counts, Slots, Connecting, Born, Shapes, Setups, SetUp
<1>3. /\ LostIsClosed' /\ Setups' /\ Shapes' /\ Steady /\ RecordsOfTurn'
      /\ KeptOnTheWay /\ run'.cancelled = run.cancelled /\ run'.phase \in {"settings", "prompt"}
  <2>1. CASE kind = "opencode" /\ conn' = conn
             /\ run' = [run EXCEPT !.session = TRUE, !.phase = "settings", !.waits = "ok"]
    <3>1. /\ KeptOnTheWay /\ run'.sent = run.sent /\ run'.then = run.then
          /\ run'.session = TRUE /\ run'.turnId = run.turnId /\ run'.settled = run.settled
          /\ run'.phase = "settings" /\ run'.cancelled = run.cancelled
      BY <2>1 DEF Shapes, RunFields, KeptOnTheWay
    <3>2. Setups' /\ LostIsClosed'
      BY <1>1, <1>2, <2>1, <3>1 DEF Setups, SetUp, Phases, Connecting, LostIsClosed, Acp
    <3>3. Shapes' /\ Steady /\ RecordsOfTurn'
      BY <1>1, <1>2, <2>1, <3>1, NothingAsked DEF KeptOnTheWay, Connecting
    <3>. QED BY <3>1, <3>2, <3>3
  <2>2. CASE kind \in Acp /\ conn' = [conn EXCEPT ![c] = Asked(@, [at |-> run.at, what |-> "settings"])]
             /\ run' = [run EXCEPT !.session = TRUE, !.phase = "settings", !.waits = waits]
    <3>. DEFINE l == Asked(conn[c], [at |-> run.at, what |-> "settings"])
    <3>. HIDE DEF waits
    <3>1. /\ KeptOnTheWay /\ run'.sent = run.sent /\ run'.then = run.then
          /\ run'.session = TRUE /\ run'.turnId = run.turnId /\ run'.settled = run.settled
          /\ run'.phase = "settings" /\ run'.cancelled = run.cancelled
      BY <2>2 DEF Shapes, RunFields, KeptOnTheWay
    <3>2. Setups' /\ LostIsClosed'
      BY <1>1, <1>2, <2>2, <3>1 DEF Setups, SetUp, Phases, Connecting, LostIsClosed, Acp
    <3>3. /\ RecOk(l, attempt) /\ l.closed = conn[c].closed /\ l.proc = conn[c].proc
          /\ l.hooks = conn[c].hooks /\ l.work = conn[c].work
          /\ l.pending \subseteq conn[c].pending \cup {[at |-> run.at, what |-> "settings"]}
      BY <1>2, AskedOk
    <3>4. conn' = [conn EXCEPT ![c] = l]
      BY <2>2
    <3>. HIDE DEF l
    <3>5. /\ Shapes' /\ Steady
          /\ \A d \in Conns : conn'[d] = IF d = c THEN l ELSE conn[d]
      BY <1>1, <1>2, <3>1, <3>3, <3>4, OneAsked DEF KeptOnTheWay, Shapes
    <3>6. RecordsOfTurn'
      BY <1>1, <1>2, <3>1, <3>3, <3>5, RecordsMove DEF KeptOnTheWay, Connecting
    <3>. QED BY <3>1, <3>2, <3>5, <3>6
  <2>3. CASE kind \notin Acp /\ Prompted(c)
             /\ run' = [run EXCEPT !.session = TRUE, !.phase = "prompt", !.turnId = (kind = "pi"),
                                   !.settled = FALSE, !.waits = waits]
    <3>. DEFINE j == Asked(conn[c], [at |-> run.at, what |-> "prompt"])
                l == IF conn[c].closed THEN j ELSE [j EXCEPT !.work = @ \cup {run.at}]
    <3>1. /\ KeptOnTheWay /\ run'.sent = run.sent /\ run'.then = run.then
          /\ run'.session = TRUE /\ run'.turnId = (kind = "pi")
          /\ run'.phase = "prompt" /\ run'.cancelled = run.cancelled
          /\ run'.waits = waits
      <4>. HIDE DEF waits
      <4>. QED BY <2>3 DEF Shapes, RunFields, KeptOnTheWay
    <3>2. Setups'
      BY <1>1, <1>2, <2>3, <3>1 DEF Setups, SetUp, Phases, Connecting, Acp
    <3>3. /\ RecOk(l, attempt) /\ l.closed = conn[c].closed /\ l.proc = conn[c].proc
          /\ l.hooks = conn[c].hooks /\ l.work \subseteq conn[c].work \cup {run.at}
          /\ l.pending \subseteq conn[c].pending \cup {[at |-> run.at, what |-> "prompt"]}
      BY <1>2, PromptedOk, Zenon
    <3>4. conn' = [conn EXCEPT ![c] = l]
      BY <2>3 DEF Prompted
    <3>. HIDE DEF l
    <3>5. /\ Shapes' /\ Steady
          /\ \A d \in Conns : conn'[d] = IF d = c THEN l ELSE conn[d]
      BY <1>1, <1>2, <3>1, <3>3, <3>4, OneAsked DEF KeptOnTheWay, Shapes
    <3>6. RecordsOfTurn'
      BY <1>1, <1>2, <2>3, <3>1, <3>3, <3>5, RecordsMove DEF KeptOnTheWay, Connecting
    <3>7. LostIsClosed'
      BY <1>2, <3>1, <3>3, <3>5 DEF LostIsClosed, KeptOnTheWay
    <3>. QED BY <3>1, <3>2, <3>5, <3>6, <3>7
  <2>. QED BY <2>1, <2>2, <2>3 DEF SessionReady
<1>4. queue' \in Seq(Results)
  BY <1>1 DEF Queued
<1>. QED BY <1>1, <1>2, <1>3, <1>4, MovesOn
      DEF KeptOnTheWay, Connecting, Phases, SetUp

LEMMA SettingsAppliedStep ==
    ASSUME AgentInv, SettingsApplied
    PROVE  AgentInv'
<1>. DEFINE c == run.client
            j == Asked(conn[c], [at |-> run.at, what |-> "prompt"])
            l == IF conn[c].closed THEN j ELSE [j EXCEPT !.work = @ \cup {run.at}]
            closed == conn[c].closed
<1>. USE DEF AgentInv
<1>1. /\ run.phase = "settings" /\ UNCHANGED <<kind, slot, disowned, attempt, stops, last>>
      /\ run' = [run EXCEPT !.turnId = TRUE, !.sent = TRUE, !.settled = closed,
                            !.phase = "set", !.waits = "no"]
      /\ queue' \in {queue, Append(queue, run.at)}
  BY DEF SettingsApplied
<1>2. /\ run.running /\ c \in Conns /\ conn[c].proc # "none" /\ kind \in Acp
      /\ RecOk(conn[c], attempt) /\ attempt \in Nat /\ run.at \in 0 .. attempt
  BY <1>1 DEF Counts, Slots, Connecting, Born, Shapes, Setups, SetUp
<1>3. /\ KeptOnTheWay /\ run'.sent = TRUE /\ run'.then = run.then
      /\ run'.session = run.session /\ run'.turnId = TRUE
      /\ run'.phase = "set" /\ run'.cancelled = run.cancelled
  <2>. HIDE DEF closed
  <2>. QED BY <1>1 DEF Shapes, RunFields, KeptOnTheWay
<1>4. Setups' /\ LostIsClosed'
  BY <1>1, <1>2, <1>3 DEF Setups, SetUp, Phases, Connecting, Acp, LostIsClosed
<1>5. /\ RecOk(l, attempt) /\ l.closed = conn[c].closed /\ l.proc = conn[c].proc
      /\ l.hooks = conn[c].hooks /\ l.work \subseteq conn[c].work \cup {run.at}
      /\ l.pending \subseteq conn[c].pending \cup {[at |-> run.at, what |-> "prompt"]}
  BY <1>2, PromptedOk, Zenon
<1>6. conn' = [conn EXCEPT ![c] = l]
  BY DEF Prompted, SettingsApplied
<1>. HIDE DEF l
<1>7. /\ Shapes' /\ Steady
      /\ \A d \in Conns : conn'[d] = IF d = c THEN l ELSE conn[d]
  BY <1>1, <1>2, <1>3, <1>5, <1>6, OneAsked DEF KeptOnTheWay, Shapes
<1>8. RecordsOfTurn'
  BY <1>1, <1>2, <1>3, <1>5, <1>7, RecordsMove DEF KeptOnTheWay, Connecting
<1>9. queue' \in Seq(Results)
  <2>1. run.at \in Results
    BY <1>2 DEF Results
  <2>. QED BY <1>1, <2>1, AppendProperties DEF Queued
<1>. QED BY <1>1, <1>2, <1>3, <1>4, <1>7, <1>8, <1>9, MovesOn
      DEF KeptOnTheWay, Connecting, Phases, SetUp

\* The connection is there, made or reused: the session is asked for.
LEMMA AcquiredStep ==
    ASSUME AgentInv, run.phase \in Connecting, NEW c \in Conns, Born(c), Acquired(c),
           slot.client \in {None, c}, slot.creating \in {None, c},
           \A d \in Conns : \A r \in conn[d].pending :
               r.at = run.at => r.what = "connect" /\ run.phase = "connect",
           UNCHANGED <<kind, disowned, queue, attempt, stops, last>>
    PROVE  AgentInv'
<1>. DEFINE waits == IF conn[c].closed THEN "lost" ELSE "waiting"
            r == [at |-> run.at, what |-> "session"]
            k == [conn[c] EXCEPT !.hooks = run.at]
            l == Asked(k, r)
<1>. USE DEF AgentInv
<1>1. /\ conn' = [conn EXCEPT ![c] = l]
      /\ slot' = [Cached(c) EXCEPT !.timer = FALSE]
      /\ run' = [run EXCEPT !.phase = "session", !.client = c, !.waits = waits]
  BY DEF Acquired
<1>2. /\ run.running /\ conn[c].proc # "none" /\ RecOk(conn[c], attempt)
      /\ attempt \in Nat /\ run.at \in 0 .. attempt /\ ~run.sent
      /\ kind = "codex" => ~run.turnId
  BY DEF Counts, Connecting, Born, Shapes, Setups, SetUp
<1>3. /\ DOMAIN run' = RunFields /\ run'.running = run.running /\ run'.at = run.at
      /\ run'.turnFirst = run.turnFirst /\ run'.force = run.force /\ run'.stop = run.stop
      /\ run'.sent = run.sent /\ run'.then = run.then /\ run'.turnId = run.turnId
      /\ run'.cancelled = run.cancelled /\ run'.phase = "session" /\ run'.client = c
      /\ run'.waits = waits
  <2>. HIDE DEF waits
  <2>. QED BY <1>1 DEF Shapes, RunFields
<1>4. /\ RecOk(k, attempt) /\ k.closed = conn[c].closed /\ k.proc = conn[c].proc
      /\ k.hooks = run.at /\ k.work = conn[c].work /\ k.pending = conn[c].pending
  BY <1>2 DEF RecOk, ConnFields
<1>5. /\ RecOk(l, attempt) /\ l.closed = conn[c].closed /\ l.proc = conn[c].proc
      /\ l.hooks = run.at /\ l.work = conn[c].work
      /\ l.pending \subseteq conn[c].pending \cup {r}
  <2>. HIDE DEF k
  <2>. QED BY <1>2, <1>4, AskedOk
<1>6. r.at = run.at /\ r.what = "session"
  OBVIOUS
<1>7. /\ DOMAIN slot' = {"client", "creating", "timer"}
      /\ slot'.client = (IF slot.creating = c THEN c ELSE slot.client) /\ slot'.creating = None
  BY <1>1 DEF Cached, NoSlot, Shapes
<1>8. /\ Shapes' /\ Steady
      /\ \A d \in Conns : conn'[d] = IF d = c THEN l ELSE conn[d]
  <2>. HIDE DEF l
  <2>. QED BY <1>1, <1>3, <1>5, <1>7, OneAsked DEF Shapes
<1>9. RecordsOfTurn'
  <2>. HIDE DEF r, l, k
  <2>. SUFFICES ASSUME NEW d \in Conns PROVE RecOfTurn(conn'[d], d, run', kind)
    BY DEF RecordsOfTurn
  <2>1. RecOfTurn(conn[d], d, run, kind)
    BY <1>2 DEF RecordsOfTurn
  <2>2. CASE d # c
    BY <1>2, <1>3, <1>8, <2>1, <2>2 DEF RecOfTurn, Connecting
  <2>3. CASE d = c
    BY <1>2, <1>3, <1>5, <1>6, <1>8, <2>1, <2>3 DEF RecOfTurn, Connecting
  <2>. QED BY <2>2, <2>3
<1>. HIDE DEF r, l, k
<1>10. Counts'
  BY <1>2, <1>3 DEF Counts
<1>11. OneIsMade' /\ LostIsClosed'
  BY <1>3, <1>5, <1>8 DEF OneIsMade, LostIsClosed
<1>12. Slots'
  <2>1. StrayOnlyIfGivenUp'
    BY <1>7, <1>8 DEF Slots, StrayOnlyIfGivenUp, Steady
  <2>. QED BY <1>3, <1>7, <1>8, <2>1 DEF Slots, Steady, Connecting
<1>13. Setups'
  BY <1>2, <1>3 DEF Setups, SetUp, Phases, Connecting
<1>14. Queued'
  <2>1. Results' = Results
    BY <1>3 DEF Results
  <2>. QED BY <2>1 DEF Queued
<1>15. Stopped'
  BY <1>3 DEF Stopped
<1>16. EndIsTrue'
  BY DEF EndIsTrue, RetryStartsClean, InterruptReachesAgent
<1>. QED BY <1>8, <1>9, <1>10, <1>11, <1>12, <1>13, <1>14, <1>15, <1>16

LEMMA ConnectedStep ==
    ASSUME AgentInv, Connected
    PROVE  AgentInv'
<1>1. /\ run.phase = "connect" /\ IsLast(Made) /\ slot.client = None
      /\ slot.creating \in {None, Made}
  BY DEF AgentInv, OneIsMade, Connected
<1>2. \A d \in Conns : \A r \in conn[d].pending :
         r.at = run.at => r.what = "connect" /\ run.phase = "connect"
  BY <1>1 DEF AgentInv, RecordsOfTurn, RecOfTurn, Counts, Connecting
<1>3. PICK c \in Conns : c = Made /\ Born(c)
  BY <1>1 DEF IsLast
<1>. QED BY <1>1, <1>2, <1>3, AcquiredStep DEF Connected, Connecting

LEMMA AcquireStep ==
    ASSUME AgentInv, Acquire
    PROVE  AgentInv'
<1>. USE DEF AgentInv
<1>1. /\ run.phase = "acquire" /\ slot.creating = None
      /\ UNCHANGED <<kind, disowned, queue, attempt, stops, last>>
  BY DEF Acquire, Slots
<1>2. /\ run.running /\ attempt \in Nat /\ run.at = attempt /\ run.turnFirst \in Nat \ {0}
      /\ run.turnFirst <= run.at /\ ~run.sent /\ (kind = "codex" => ~run.turnId)
  BY <1>1 DEF Counts, Shapes, Setups, SetUp
<1>3. /\ \A d \in Conns : conn[d].hooks < run.turnFirst /\ \A a \in conn[d].work : a < run.turnFirst
      /\ \A d \in Conns : \A r \in conn[d].pending : r.at # run.at
  BY <1>1, <1>2 DEF RecordsOfTurn, RecOfTurn, Connecting
<1>4. ASSUME slot.client # None, Acquired(slot.client) PROVE AgentInv'
  <2>1. PICK c \in Conns : c = slot.client /\ Born(c)
    BY <1>4 DEF Slots
  <2>. QED BY <1>1, <1>3, <1>4, <2>1, AcquiredStep DEF Connecting
<1>5. ASSUME NEW new \in Conns, NEW ok \in BOOLEAN, conn[new] = Unborn,
             \A c \in Conns : conn[c] = Unborn => new <= c,
             conn' = Replaced(slot.client, new, run.at, ok),
             slot' = [NoSlot EXCEPT !.creating = new], NEW waits, waits = "lost" => ~ok,
             run' = [run EXCEPT !.phase = "connect", !.waits = waits]
      PROVE  AgentInv'
  <2>. DEFINE k == Spawned(run.at, ok)
  <2>1. /\ DOMAIN run' = RunFields /\ run'.running = run.running /\ run'.at = run.at
        /\ run'.turnFirst = run.turnFirst /\ run'.force = run.force /\ run'.stop = run.stop
        /\ run'.sent = run.sent /\ run'.then = run.then /\ run'.turnId = run.turnId
        /\ run'.cancelled = run.cancelled /\ run'.phase = "connect" /\ run'.client = run.client
        /\ run'.waits = waits
    BY <1>5 DEF Shapes, RunFields
  <2>2. /\ RecOk(k, attempt) /\ k.proc # "none" /\ k.hooks = None /\ k.work = {}
        /\ \A r \in k.pending : r.at = run.at /\ r.what = "connect"
        /\ ok \/ k.closed
    <3>1. CASE ~ok
      BY <1>2, <3>1 DEF Spawned, Unborn, RecOk, ConnFields
    <3>2. CASE ok /\ kind = "pi"
      BY <1>2, <3>2 DEF Spawned, Unborn, RecOk, ConnFields
    <3>3. CASE ok /\ kind # "pi"
      <4>. DEFINE r == [at |-> run.at, what |-> "connect"]
      <4>1. r.at = run.at /\ r.what = "connect"
        OBVIOUS
      <4>2. k = [Unborn EXCEPT !.proc = "up", !.pending = {r}, !.asked = {r}]
        BY <3>3 DEF Spawned
      <4>. HIDE DEF r, k
      <4>. QED BY <1>2, <3>3, <4>1, <4>2 DEF Unborn, RecOk, ConnFields
    <3>. QED BY <3>1, <3>2, <3>3
  <2>. HIDE DEF k
  <2>3. /\ ~Born(new) /\ new # slot.client
        /\ \A c \in Conns : c < new => Born(c)
        /\ \A c \in Conns : c > new => ~Born(c)
    BY <1>5, UnbornOk DEF Shapes, RecOk, Born, Slots
  <2>4. /\ \A c \in Conns : conn'[c] = IF c = new THEN k
                                      ELSE IF c = slot.client THEN Disposed(conn[c]) ELSE conn[c]
        /\ DOMAIN conn' = Conns /\ conn' = [c \in Conns |-> conn'[c]]
    BY <1>5, <2>3 DEF Replaced, k
  <2>5. \A c \in Conns \ {new} : Fades(conn[c], conn'[c]) /\ (c = slot.client => conn'[c].closed)
    <3>. SUFFICES ASSUME NEW c \in Conns, c # new
                  PROVE  Fades(conn[c], conn'[c]) /\ (c = slot.client => conn'[c].closed)
      OBVIOUS
    <3>1. RecOk(conn[c], attempt)
      BY DEF Shapes
    <3>2. CASE c = slot.client
      <4>1. conn[c].proc # "none"
        BY <3>2 DEF Slots, Born
      <4>2. Fades(conn[c], Disposed(conn[c])) /\ Disposed(conn[c]).closed
        BY <1>2, <3>1, <4>1, EndsFade
      <4>. QED BY <2>4, <3>2, <4>2
    <3>3. CASE c # slot.client
      BY <1>2, <2>4, <3>1, <3>3, FadesItself
    <3>. QED BY <3>2, <3>3
  <2>6. /\ conn'[new] = k
        /\ \A c \in Conns : c = slot.client => ~Open(c)'
    BY <2>3, <2>4, <2>5 DEF Open
  <2>7. DOMAIN slot' = {"client", "creating", "timer"} /\ slot'.client = None /\ slot'.creating = new
    BY <1>5 DEF NoSlot
  <2>8. Shapes'
    <3>1. \A c \in Conns : RecOk(conn'[c], attempt)
      BY <1>2, <2>2, <2>5, <2>6, FadesOk DEF Shapes
    <3>2. \A c \in Conns : Born(c)' <=> c = new \/ Born(c)
      BY <2>2, <2>5, <2>6 DEF Fades, Born
    <3>3. \A c, d \in Conns : c < d /\ Born(d)' => Born(c)'
      BY <2>3, <3>2 DEF Shapes
    <3>. QED BY <1>1, <2>1, <2>4, <2>7, <3>1, <3>3 DEF Shapes
  <2>9. IsLast(new)' /\ \A c \in Conns : Born(c) => Born(c)'
    BY <2>2, <2>3, <2>5, <2>6 DEF IsLast, Born, Fades
  <2>10. Made' = new
    BY <2>8, <2>9, LastIsMadeThen
  <2>11. RecordsOfTurn'
    <3>. SUFFICES ASSUME NEW c \in Conns PROVE RecOfTurn(conn'[c], c, run', kind)
      BY <1>1 DEF RecordsOfTurn
    <3>1. CASE c = new
      BY <1>2, <2>1, <2>2, <2>6, <3>1 DEF RecOfTurn, Connecting
    <3>2. CASE c # new
      <4>1. RecOfTurn(conn[c], c, run, kind) /\ Fades(conn[c], conn'[c])
        BY <1>2, <2>5, <3>2 DEF RecordsOfTurn
      <4>. QED BY <1>1, <1>2, <1>3, <2>1, <4>1 DEF RecOfTurn, Fades, Connecting
    <3>. QED BY <3>1, <3>2
  <2>12. Counts' /\ LostIsClosed'
    BY <1>1, <1>2, <2>1 DEF Counts, LostIsClosed
  <2>13. OneIsMade'
    <3>1. IsLast(Made)'
      <4>1. \A c : c = new => IsLast(c)'
        BY <2>9
      <4>. QED BY <2>9, <2>10, <4>1 DEF IsLast
    <3>2. \A c \in Conns : \A r \in conn'[c].pending : r.at = run.at => c = new
      BY <1>3, <2>5 DEF Fades
    <3>3. waits = "lost" => ~Open(new)'
      BY <1>5, <2>2, <2>6 DEF Open
    <3>. QED BY <2>1, <2>7, <2>10, <3>1, <3>2, <3>3 DEF OneIsMade, Open
  <2>14. Slots'
    <3>1. \A c \in Conns : c # new /\ Open(c)' => Open(c)
      BY <2>5 DEF Fades, Open
    <3>2. StrayOnlyIfGivenUp'
      BY <1>1, <2>6, <2>7, <3>1 DEF Slots, StrayOnlyIfGivenUp
    <3>. QED BY <1>5, <2>1, <2>7, <2>9, <3>2 DEF Slots, Connecting
  <2>15. Setups'
    BY <1>1, <1>2, <2>1 DEF Setups, SetUp, Phases, Connecting
  <2>16. Queued'
    <3>1. Results' = Results
      BY <2>1 DEF Results
    <3>. QED BY <1>1, <3>1 DEF Queued
  <2>17. Stopped' /\ EndIsTrue'
    BY <1>1, <2>1 DEF Stopped, EndIsTrue, RetryStartsClean, InterruptReachesAgent
  <2>. QED BY <2>8, <2>11, <2>12, <2>13, <2>14, <2>15, <2>16, <2>17
<1>6. ASSUME NEW new \in Conns, NEW ok \in BOOLEAN, conn[new] = Unborn,
             \A c \in Conns : conn[c] = Unborn => new <= c,
             conn' = Replaced(slot.client, new, run.at, ok),
             slot' = [NoSlot EXCEPT !.creating = new],
             run' = [run EXCEPT !.phase = "connect",
                                !.waits = CASE ~ ok -> "lost"
                                            [] ok /\ kind = "pi" -> "ok"
                                            [] OTHER -> "waiting"]
      PROVE  AgentInv'
  <2>. DEFINE waits == CASE ~ ok -> "lost"
                         [] ok /\ kind = "pi" -> "ok"
                         [] OTHER -> "waiting"
  <2>1. waits = "lost" => ~ok
    BY Zenon
  <2>2. run' = [run EXCEPT !.phase = "connect", !.waits = waits]
    BY <1>6, Zenon
  <2>. HIDE DEF waits
  <2>. QED BY <1>5, <1>6, <2>1, <2>2
<1>7. CASE \E sameSession \in BOOLEAN : Reusable(sameSession) /\ Acquired(slot.client)
  BY <1>4, <1>7 DEF Reusable
<1>. QED BY <1>6, <1>7, Zenon DEF Acquire

LEMMA RecOkLater ==
    ASSUME NEW n \in Nat, NEW k, RecOk(k, n)
    PROVE  RecOk(k, n + 1)
BY DEF RecOk

LEMMA StartTurnStep ==
    ASSUME AgentInv, StartTurn
    PROVE  AgentInv'
<1>. USE DEF AgentInv
<1>1. /\ ~run.running /\ run.phase = "idle" /\ slot.creating = None /\ attempt \in Nat
      /\ ~run.sent /\ (kind = "codex" => ~run.turnId) /\ attempt' = attempt + 1
      /\ queue' = <<>> /\ last' = NoEnd
      /\ UNCHANGED <<kind, conn, slot, disowned, stops>>
      /\ run' = [run EXCEPT !.running = TRUE, !.phase = "acquire", !.at = attempt + 1,
                            !.turnFirst = attempt + 1, !.force = None]
  BY DEF StartTurn, connVars, Counts, Slots, Connecting, Setups, SetUp, Shapes
<1>2. /\ DOMAIN run' = RunFields /\ run'.running = TRUE /\ run'.phase = "acquire"
      /\ run'.at = attempt + 1 /\ run'.turnFirst = attempt + 1 /\ run'.force = 0
      /\ run'.client = run.client /\ run'.sent = run.sent /\ run'.then = run.then
      /\ run'.turnId = run.turnId
  BY <1>1 DEF Shapes, RunFields
<1>3. Shapes'
  <2>1. \A c \in Conns : RecOk(conn[c], attempt + 1)
    BY <1>1, RecOkLater DEF Shapes
  <2>. QED BY <1>1, <1>2, <2>1 DEF Shapes, Born
<1>4. Counts'
  BY <1>1, <1>2 DEF Counts
<1>5. RecordsOfTurn'
  <2>. SUFFICES ASSUME NEW c \in Conns PROVE RecOfTurn(conn[c], c, run', kind)
    BY <1>1 DEF RecordsOfTurn
  <2>1. RecOk(conn[c], attempt)
    BY DEF Shapes
  <2>. QED BY <1>1, <1>2, <2>1 DEF RecOk, RecOfTurn
<1>6. OneIsMade' /\ LostIsClosed'
  BY <1>2 DEF OneIsMade, LostIsClosed
<1>7. Slots'
  BY <1>1, <1>2 DEF Slots, Born, Connecting, StrayOnlyIfGivenUp, Open
<1>8. Setups'
  BY <1>1, <1>2 DEF Setups, SetUp, Phases, Connecting
<1>9. Queued' /\ Stopped'
  <2>1. run'.at \notin stops
    BY <1>1, <1>2 DEF Counts
  <2>. QED BY <1>1, <1>2, <2>1, EmptySeq DEF Queued, Stopped
<1>10. EndIsTrue'
  BY <1>1 DEF EndIsTrue, RetryStartsClean, InterruptReachesAgent, NoEnd
<1>. QED BY <1>3, <1>4, <1>5, <1>6, <1>7, <1>8, <1>9, <1>10

LEMMA RespawnStep ==
    ASSUME AgentInv, Respawn
    PROVE  AgentInv'
<1>. USE DEF AgentInv
<1>1. /\ run.phase \in {"connect", "session", "prompt"} /\ run.waits = "lost"
      /\ attempt \in Nat /\ attempt' = attempt + 1 /\ slot' = NoSlot /\ queue' = <<>>
      /\ UNCHANGED <<kind, disowned, stops, last>>
      /\ run' = [run EXCEPT !.phase = "acquire", !.waits = "no", !.at = attempt + 1, !.force = None]
      /\ conn' = [c \in Conns |->
                    LET k == IF c = slot.client THEN Disposed(conn[c]) ELSE conn[c]
                    IN  IF c = run.client THEN [k EXCEPT !.hooks = None] ELSE k]
  BY DEF Respawn, SetupFailed, Retryable, Shapes
<1>2. /\ run.running /\ run.at = attempt /\ run.turnFirst \in Nat \ {0} /\ run.turnFirst <= attempt
      /\ ~run.sent /\ (kind = "codex" => ~run.turnId)
      /\ run.phase \in {"session", "prompt"} => run.client \in Conns /\ conn[run.client].closed
  BY <1>1 DEF Counts, Setups, SetUp, LostIsClosed, Slots, Connecting
<1>3. /\ DOMAIN run' = RunFields /\ run'.running = run.running /\ run'.phase = "acquire"
      /\ run'.at = attempt + 1 /\ run'.turnFirst = run.turnFirst /\ run'.force = 0
      /\ run'.client = run.client /\ run'.sent = run.sent /\ run'.then = run.then
      /\ run'.turnId = run.turnId
  BY <1>1 DEF Shapes, RunFields
<1>4. \A c \in Conns : /\ Fades(conn[c], conn'[c])
                       /\ c = slot.client => conn'[c].closed
                       /\ c = run.client => conn'[c].hooks = None
  <2>. SUFFICES ASSUME NEW c \in Conns
                PROVE  /\ Fades(conn[c], conn'[c])
                       /\ c = slot.client => conn'[c].closed
                       /\ c = run.client => conn'[c].hooks = None
    OBVIOUS
  <2>. DEFINE k == IF c = slot.client THEN Disposed(conn[c]) ELSE conn[c]
  <2>1. conn'[c] = IF c = run.client THEN [k EXCEPT !.hooks = None] ELSE k
    BY <1>1
  <2>2. RecOk(conn[c], attempt)
    BY DEF Shapes
  <2>3. c \in {slot.client, run.client} => conn[c].proc # "none"
    BY DEF Slots, Born
  <2>4. Fades(conn[c], k) /\ (c = slot.client => k.closed)
    BY <1>1, <2>2, <2>3, EndsFade, FadesItself
  <2>. HIDE DEF k
  <2>5. CASE c # run.client
    BY <2>1, <2>4, <2>5
  <2>6. CASE c = run.client
    <3>1. RecOk(k, attempt) /\ k.proc # "none"
      BY <1>1, <2>2, <2>3, <2>4, <2>6, FadesOk DEF Fades
    <3>2. Fades(k, [k EXCEPT !.hooks = None]) /\ [k EXCEPT !.hooks = None].hooks = None
      BY <1>1, <3>1, EndsFade
    <3>3. [k EXCEPT !.hooks = None].closed = k.closed
      BY <3>1 DEF RecOk, ConnFields
    <3>. QED BY <2>1, <2>4, <2>6, <3>2, <3>3, FadesOn
  <2>. QED BY <2>5, <2>6
<1>5. Shapes'
  <2>1. \A c \in Conns : RecOk(conn'[c], attempt + 1)
    BY <1>1, <1>4, FadesOk, RecOkLater DEF Shapes
  <2>2. \A c \in Conns : Born(c)' <=> Born(c)
    BY <1>4 DEF Born, Fades
  <2>3. DOMAIN conn' = Conns /\ conn' = [c \in Conns |-> conn'[c]]
    BY <1>1
  <2>. QED BY <1>1, <1>3, <2>1, <2>2, <2>3 DEF Shapes, NoSlot
<1>6. Counts'
  BY <1>1, <1>2, <1>3 DEF Counts
<1>7. RecordsOfTurn'
  <2>. SUFFICES ASSUME NEW c \in Conns PROVE RecOfTurn(conn'[c], c, run', kind)
    BY <1>1 DEF RecordsOfTurn
  <2>1. /\ RecOfTurn(conn[c], c, run, kind) /\ RecOk(conn[c], attempt)
        /\ Fades(conn[c], conn'[c]) /\ (c = run.client => conn'[c].hooks = 0)
    BY <1>2, <1>4 DEF RecordsOfTurn, Shapes
  <2>2. conn'[c].hooks < run.turnFirst
    BY <1>2, <2>1 DEF RecOfTurn, Fades
  <2>3. \A a \in conn[c].work : a < run.turnFirst
    BY <1>1, <1>2, <2>1 DEF RecOfTurn, RecOk, Connecting
  <2>4. \A r \in conn[c].pending :
           r.at # attempt + 1 /\ (r.what = "prompt" /\ kind \in Acp => r.at < run.turnFirst)
    BY <1>1, <1>2, <2>1 DEF RecOfTurn, RecOk
  <2>. QED BY <1>3, <2>1, <2>2, <2>3, <2>4 DEF RecOfTurn, Fades
<1>8. OneIsMade' /\ LostIsClosed'
  BY <1>3 DEF OneIsMade, LostIsClosed
<1>9. Slots'
  <2>1. /\ slot'.client = None /\ slot'.creating = None
        /\ \A c \in Conns : (Born(c)' <=> Born(c)) /\ (Open(c)' => Open(c) /\ c # slot.client)
    BY <1>1, <1>4 DEF NoSlot, Fades, Born, Open
  <2>2. \A c \in Conns : c = slot.creating => ~Open(c)
    BY <1>1, <1>2 DEF Slots, OneIsMade
  <2>3. StrayOnlyIfGivenUp'
    BY <1>1, <2>1, <2>2 DEF Slots, StrayOnlyIfGivenUp
  <2>. QED BY <1>3, <2>1, <2>3 DEF Slots, Connecting
<1>10. Setups'
  BY <1>1, <1>2, <1>3 DEF Setups, SetUp, Phases, Connecting
<1>11. Queued' /\ Stopped'
  <2>1. run'.at \notin stops
    BY <1>1, <1>3 DEF Counts
  <2>. QED BY <1>1, <1>3, <2>1, EmptySeq DEF Queued, Stopped
<1>12. EndIsTrue'
  BY <1>1 DEF EndIsTrue, RetryStartsClean, InterruptReachesAgent
<1>. QED BY <1>5, <1>6, <1>7, <1>8, <1>9, <1>10, <1>11, <1>12

-----------------------------------------------------------------------------
(* The theorems                                                            *)

LEMMA AgentInvNext == AgentInv /\ [TurnNext]_turnVars => AgentInv'
<1>. SUFFICES ASSUME AgentInv, [TurnNext]_turnVars PROVE AgentInv'
  OBVIOUS
<1>1. CASE StartTurn \/ Respawn
  BY <1>1, StartTurnStep, RespawnStep
<1>2. CASE Acquire \/ Connected \/ SessionReady \/ SettingsApplied \/ PromptAcknowledged
  BY <1>2, AcquireStep, ConnectedStep, SessionReadyStep, SettingsAppliedStep, PromptAcknowledgedStep
<1>3. CASE SetupDone \/ TurnIdles \/ Interrupted
  BY <1>3, SetupDoneStep, TurnIdlesStep, InterruptedStep
<1>4. CASE SetupFails \/ ConsumeResult \/ ConsumeStop \/ TimeoutReported
  BY <1>4, SetupFailsStep, ConsumeResultStep, ConsumeStopStep, TimeoutStep
<1>5. CASE Stop \/ Evict
  BY <1>5, StopStep, EvictStep
<1>6. CASE IdleTimerFires
  BY <1>6, DisposedStep DEF IdleTimerFires
<1>7. ASSUME NEW c \in Conns,
             \/ \E r \in conn[c].asked, ok \in BOOLEAN : AgentAnswers(c, r, ok)
             \/ \E a \in Attempts : AgentEndsTurn(c, a)
             \/ \E r \in conn[c].pending : RequestTimesOut(c, r)
      PROVE  AgentInv'
  BY <1>7, AgentAnswersStep, AgentEndsTurnStep, RequestTimesOutStep
<1>8. ASSUME NEW c \in Conns,
             \/ TransportBreaks(c) \/ ProcessExits(c)
             \/ GraceElapses(c) /\ UNCHANGED <<run, queue, attempt, stops, last>>
      PROVE  AgentInv'
  BY <1>8, ClosesStep, GraceStep
<1>9. CASE UNCHANGED turnVars
  <2>1. UNCHANGED <<kind, conn, slot, disowned, run, queue, attempt, stops, last>>
    BY <1>9 DEF turnVars, connVars
  <2>2. AllFade /\ SameTurn
    BY <2>1, FadesItself DEF AllFade, SameTurn, SameSetup, AgentInv, Shapes
  <2>3. Shapes' /\ Steady /\ RecordsOfTurn'
    BY <2>1, <2>2, ConnsFade, RecordsFade DEF SameTurn, AgentInv, Shapes
  <2>. QED BY <2>1, <2>2, <2>3, OthersStep DEF AgentInv, Queued
<1>. QED BY <1>1, <1>2, <1>3, <1>4, <1>5, <1>6, <1>7, <1>8, <1>9 DEF TurnNext

(* The inductive invariant holds in every reachable state of a runner.     *)
THEOREM AgentInvariant == TurnSpec => []AgentInv
BY AgentInvInit, AgentInvNext, PTL DEF TurnSpec

(* How a turn ended is true of that turn and of the agent (consumeTurn,    *)
(* stop and respawnAfterConnectionLost of the runners): a result is not of *)
(* a setup that was given up, and a turn that its stop ended has told the  *)
(* agent or has nothing left there.                                        *)
THEOREM TurnEndIsTrue == TurnSpec => []EndIsTrue
<1>1. AgentInv => EndIsTrue
  BY DEF AgentInv
<1>. QED BY <1>1, AgentInvariant, PTL

(* No agent process is left behind unknown: one nobody has asked to stop   *)
(* is in the slot of the connection manager, or was given up there.        *)
THEOREM NoUnknownStray == TurnSpec => []StrayOnlyIfGivenUp
<1>1. AgentInv => StrayOnlyIfGivenUp
  BY DEF AgentInv, Slots
<1>. QED BY <1>1, AgentInvariant, PTL

-----------------------------------------------------------------------------
(* The approvals of a turn                                                 *)

USE ApprovalAssumption DEF Nonce, Cancel

ApprovalState == {"untracked", "pending", "submitting", "resolved", "failed", "expired"}

ApprovalType ==
    /\ state \in [Request -> ApprovalState]
    /\ timer \in [Request -> BOOLEAN]
    /\ seen \in [Request -> SUBSET Nonce]
    /\ card \in [Request -> {"none", "live", "expired"}]
    /\ turn \in {"running", "interrupted", "finished", "over"}
    /\ asked \in [Request -> Nat]
    /\ sent \in [Request -> Seq(Nonce \cup {Cancel})]

\* A pending request has an ask that no response has used up.
Owed(r) ==
    /\ Len(sent[r]) <= asked[r]
    /\ state[r] = "pending" => Len(sent[r]) < asked[r]

\* Every click that answered has spent its nonce, and none answered twice.
Spent(r) ==
    \A i \in 1 .. Len(sent[r]) :
        sent[r][i] # Cancel => /\ sent[r][i] \in seen[r]
                               /\ \A j \in 1 .. Len(sent[r]) :
                                      sent[r][j] = sent[r][i] => j = i

\* What RequestsAreTended says of one request.
Tended(r) ==
    /\ state[r] = "pending" => timer[r] /\ turn # "over"
    /\ turn \in {"running", "interrupted"} =>
          /\ state[r] = "pending" => card[r] = "live"
          /\ state[r] = "resolved" => card[r] = "none"
          /\ state[r] = "expired" => card[r] = "expired"

ApprovalInv ==
    /\ ApprovalType
    /\ \A r \in Request : Owed(r) /\ Spent(r) /\ Tended(r)

LEMMA ApprovalInvInit == Init => ApprovalInv
<1>. SUFFICES ASSUME Init PROVE ApprovalInv
  OBVIOUS
<1>. USE DEF Init
<1>1. ApprovalType
  BY DEF ApprovalType, ApprovalState
<1>2. ASSUME NEW r \in Request PROVE Owed(r) /\ Spent(r) /\ Tended(r)
  BY DEF Owed, Spent, Tended
<1>. QED BY <1>1, <1>2 DEF ApprovalInv

-----------------------------------------------------------------------------
(* The responder                                                           *)

\* A response that is sent uses up the ask of a request that stops being
\* pending; if it is a click, its nonce must have been fresh.
LEMMA RespondOnce ==
    ASSUME ApprovalType, NEW r \in Request, NEW by \in Nonce \cup {Cancel},
           Owed(r), Spent(r), state[r] = "pending",
           sent' = [sent EXCEPT ![r] = Append(@, by)],
           asked' = asked, state'[r] # "pending",
           seen[r] \subseteq seen'[r],
           by # Cancel => by \notin seen[r] /\ by \in seen'[r]
    PROVE  Owed(r)' /\ Spent(r)'
<1>. DEFINE s == sent[r]
<1>1. s \in Seq(Nonce \cup {Cancel}) /\ sent'[r] = Append(s, by)
  BY DEF ApprovalType
<1>2. /\ Len(sent'[r]) = Len(s) + 1
      /\ \A i \in 1 .. Len(s) : sent'[r][i] = s[i]
      /\ sent'[r][Len(s) + 1] = by
  BY <1>1
<1>3. Len(s) \in Nat /\ asked[r] \in Nat
  BY <1>1 DEF ApprovalType
<1>4. Owed(r)'
  BY <1>2, <1>3 DEF Owed
<1>5. ASSUME NEW i \in 1 .. Len(sent'[r]), sent'[r][i] # Cancel
      PROVE  /\ sent'[r][i] \in seen'[r]
             /\ \A j \in 1 .. Len(sent'[r]) : sent'[r][j] = sent'[r][i] => j = i
  <2>1. CASE i \in 1 .. Len(s)
    <3>1. /\ s[i] \in seen[r]
          /\ \A j \in 1 .. Len(s) : s[j] = s[i] => j = i
      BY <1>2, <1>5, <2>1 DEF Spent
    <3>. QED BY <1>2, <1>3, <1>5, <2>1, <3>1
  <2>2. CASE i = Len(s) + 1
    <3>1. \A j \in 1 .. Len(s) : s[j] # Cancel => s[j] \in seen[r]
      BY DEF Spent
    <3>. QED BY <1>2, <1>3, <1>5, <2>2, <3>1
  <2>. QED BY <1>2, <1>3, <1>5, <2>1, <2>2
<1>6. Spent(r)'
  BY <1>5 DEF Spent
<1>. QED BY <1>4, <1>6

\* A step that sends nothing and asks for nothing, and makes no request pending.
LEMMA SilentStep ==
    ASSUME NEW r \in Request, Owed(r), Spent(r),
           sent'[r] = sent[r], asked'[r] = asked[r], seen[r] \subseteq seen'[r],
           state'[r] = "pending" => state[r] = "pending"
    PROVE  Owed(r)' /\ Spent(r)'
BY DEF Owed, Spent

-----------------------------------------------------------------------------
(* Every step keeps the invariant                                          *)

\* What asking does; the bound on the number of asks is left out.
LEMMA AskStep ==
    ASSUME NEW r \in Request, Ask(r)
    PROVE  /\ state' = [state EXCEPT ![r] = "pending"]
           /\ timer' = [timer EXCEPT ![r] = TRUE]
           /\ asked' = [asked EXCEPT ![r] = @ + 1]
           /\ CardShows(r, "live")
           /\ turn # "over"
           /\ UNCHANGED <<seen, answered, calls, turn, sent>>
<1>1. OnRequested(r) /\ asked' = [asked EXCEPT ![r] = @ + 1]
  BY ZenonT(30) DEF Ask
<1>2. CardShows(r, "live") /\ turn # "over"
  BY ZenonT(30) DEF Ask
<1>3. UNCHANGED <<seen, answered, calls, turn, sent>>
  BY ZenonT(30) DEF Ask
<1>. QED BY <1>1, <1>2, <1>3 DEF OnRequested

LEMMA ApprovalTypeNext == ApprovalType /\ [Next]_vars => ApprovalType'
<1>. SUFFICES ASSUME ApprovalType, [Next]_vars PROVE ApprovalType'
  OBVIOUS
<1>. USE DEF ApprovalType, ApprovalState, ClearTimer, CardShows
<1>0. CASE UNCHANGED vars
  BY <1>0 DEF vars, coordinatorVars
<1>1. ASSUME NEW r \in Request, NEW by \in Nonce \cup {Cancel}, Respond(r, by)
      PROVE  sent' \in [Request -> Seq(Nonce \cup {Cancel})]
  BY <1>1 DEF Respond
<1>2. ASSUME NEW r \in Request, Ask(r) PROVE ApprovalType'
  <2>1. state' \in [Request -> ApprovalState] /\ timer' \in [Request -> BOOLEAN]
    BY <1>2, AskStep
  <2>2. asked' \in [Request -> Nat]
    <3>1. asked' = [asked EXCEPT ![r] = @ + 1]
      BY <1>2, AskStep
    <3>2. asked \in [Request -> Nat]
      BY DEF ApprovalType
    <3>. QED BY <3>1, <3>2
  <2>3. card' \in [Request -> {"none", "live", "expired"}]
    BY <1>2, AskStep
  <2>. QED BY <1>2, <2>1, <2>2, <2>3, AskStep
<1>3. ASSUME NEW r \in Request, ServerResolves(r) PROVE ApprovalType'
  BY <1>3 DEF ServerResolves
<1>4. ASSUME NEW r \in Request, Click(r) PROVE ApprovalType'
  <2>1. ASSUME NEW n \in Nonce, Submit(r, n) PROVE ApprovalType'
    BY <1>1, <2>1 DEF Submit, Fresh, BeginSubmit
  <2>2. ASSUME NEW n \in Nonce, ClickSpent(r, n) PROVE ApprovalType'
    BY <2>2 DEF ClickSpent, Fresh
  <2>3. ASSUME NEW n \in Nonce, AnswerLast(r, n) PROVE ApprovalType'
    <3>1. CASE n \in seen[r]
      BY <2>3, <3>1 DEF AnswerLast, Fresh
    <3>2. CASE n \notin seen[r]
      <4>1. Fresh(r, n) /\ BeginSubmit(r, n) /\ UNCHANGED <<card, turn, asked>>
        BY <2>3, <3>2 DEF AnswerLast
      <4>. QED BY <1>1, <4>1 DEF Fresh, BeginSubmit
    <3>. QED BY <3>1, <3>2
  <2>4. CASE AnswerOne(r)
    BY <2>4 DEF AnswerOne
  <2>. QED BY <1>4, <2>1, <2>2, <2>3, <2>4 DEF Click, Clicks
<1>5. ASSUME NEW r \in Request, TimerFires(r) PROVE ApprovalType'
  BY <1>1, <1>5 DEF TimerFires, Expire
<1>6. ASSUME NEW r \in Request, CallEnds(r) PROVE ApprovalType'
  BY <1>6 DEF CallEnds, CallReturns, CallFails
<1>7. CASE WatchdogStops \/ StopClicked
  BY <1>7 DEF WatchdogStops, StopClicked, FinishAndStop, coordinatorVars
<1>8. CASE StreamEnds
  BY <1>8 DEF StreamEnds, OnTurnEnded
<1>. QED
  BY <1>0, <1>2, <1>3, <1>4, <1>5, <1>6, <1>7, <1>8 DEF Next

LEMMA ApprovalNext == ApprovalInv /\ [Next]_vars => ApprovalInv'
<1>. SUFFICES ASSUME ApprovalInv, [Next]_vars PROVE ApprovalInv'
  OBVIOUS
<1>. SUFFICES ASSUME NEW q \in Request PROVE Owed(q)' /\ Spent(q)' /\ Tended(q)'
  BY ApprovalTypeNext DEF ApprovalInv
<1>t. ApprovalType /\ Owed(q) /\ Spent(q) /\ Tended(q)
  BY DEF ApprovalInv
<1>0. CASE UNCHANGED vars
  BY <1>0, <1>t DEF vars, coordinatorVars, Owed, Spent, Tended
\* A request that a step does not touch, while the turn goes on or ends for all.
<1>1. ASSUME state'[q] = state[q], timer'[q] = timer[q], sent'[q] = sent[q],
             asked'[q] = asked[q], seen'[q] = seen[q], card'[q] = card[q],
             turn' # turn => turn \in {"running", "interrupted"} /\ turn' # "over"
      PROVE  Owed(q)' /\ Spent(q)' /\ Tended(q)'
  <2>1. Owed(q)' /\ Spent(q)'
    BY <1>t, <1>1, SilentStep
  <2>2. Tended(q)'
    BY <1>t, <1>1 DEF Tended, ApprovalType
  <2>. QED BY <2>1, <2>2
<1>2. ASSUME NEW r \in Request, Ask(r) PROVE Owed(q)' /\ Spent(q)' /\ Tended(q)'
  <2>1. CASE q # r
    BY <1>t, <1>1, <1>2, <2>1, AskStep DEF CardShows, ApprovalType
  <2>2. CASE q = r
    <3>1. Owed(q)'
      BY <1>t, <1>2, <2>2, AskStep DEF Owed, ApprovalType
    <3>2. Spent(q)'
      BY <1>t, <1>2, <2>2, AskStep DEF Spent
    <3>3. Tended(q)'
      BY <1>t, <1>2, <2>2, AskStep DEF Tended, CardShows, ApprovalType
    <3>. QED BY <3>1, <3>2, <3>3
  <2>. QED BY <2>1, <2>2
<1>3. ASSUME NEW r \in Request, ServerResolves(r)
      PROVE  Owed(q)' /\ Spent(q)' /\ Tended(q)'
  <2>1. Owed(q)' /\ Spent(q)'
    BY <1>t, <1>3, SilentStep DEF ServerResolves, ApprovalType
  <2>2. Tended(q)'
    BY <1>t, <1>3 DEF Tended, ServerResolves, ClearTimer, CardShows, ApprovalType
  <2>. QED BY <2>1, <2>2
<1>4. ASSUME NEW r \in Request, NEW n \in Nonce, Submit(r, n)
      PROVE  Owed(q)' /\ Spent(q)' /\ Tended(q)'
  <2>1. CASE q # r
    BY <1>t, <1>1, <1>4, <2>1
       DEF Submit, Fresh, BeginSubmit, ClearTimer, Respond, ApprovalType
  <2>2. CASE q = r
    <3>1. Owed(q)' /\ Spent(q)'
      BY <1>t, <1>4, <2>2, RespondOnce
         DEF Submit, Fresh, BeginSubmit, Respond, ApprovalType
    <3>2. Tended(q)'
      BY <1>t, <1>4, <2>2 DEF Tended, Submit, BeginSubmit, ApprovalType
    <3>. QED BY <3>1, <3>2
  <2>. QED BY <2>1, <2>2
<1>5. ASSUME NEW r \in Request, NEW n \in Nonce, ClickSpent(r, n)
      PROVE  Owed(q)' /\ Spent(q)' /\ Tended(q)'
  <2>1. Owed(q)' /\ Spent(q)'
    BY <1>t, <1>5, SilentStep DEF ClickSpent, Fresh, ApprovalType
  <2>2. Tended(q)'
    BY <1>t, <1>5 DEF Tended, ClickSpent
  <2>. QED BY <2>1, <2>2
<1>6. ASSUME NEW r \in Request, AnswerOne(r)
      PROVE  Owed(q)' /\ Spent(q)' /\ Tended(q)'
  BY <1>1, <1>6 DEF AnswerOne
<1>7. ASSUME NEW r \in Request, NEW n \in Nonce, AnswerLast(r, n)
      PROVE  Owed(q)' /\ Spent(q)' /\ Tended(q)'
  <2>1. CASE q # r \/ n \in seen[r]
    BY <1>t, <1>1, <1>7, <2>1
       DEF AnswerLast, Fresh, BeginSubmit, ClearTimer, Respond, ApprovalType
  <2>2. CASE q = r /\ n \notin seen[r]
    <3>1. Owed(q)' /\ Spent(q)'
      BY <1>t, <1>7, <2>2, RespondOnce
         DEF AnswerLast, Fresh, BeginSubmit, Respond, ApprovalType
    <3>2. Tended(q)'
      BY <1>t, <1>7, <2>2 DEF Tended, AnswerLast, BeginSubmit, ApprovalType
    <3>. QED BY <3>1, <3>2
  <2>. QED BY <2>1, <2>2
<1>8. ASSUME NEW r \in Request, TimerFires(r)
      PROVE  Owed(q)' /\ Spent(q)' /\ Tended(q)'
  <2>1. CASE q # r
    BY <1>t, <1>1, <1>8, <2>1
       DEF TimerFires, Expire, ClearTimer, Respond, CardShows, ApprovalType
  <2>2. CASE q = r /\ state[r] = "pending"
    <3>1. Owed(q)' /\ Spent(q)'
      BY <1>t, <1>8, <2>2, RespondOnce DEF TimerFires, Expire, Respond, ApprovalType
    <3>2. Tended(q)'
      BY <1>t, <1>8, <2>2 DEF Tended, TimerFires, Expire, CardShows, ApprovalType
    <3>. QED BY <3>1, <3>2
  <2>3. CASE q = r /\ state[r] # "pending"
    BY <1>t, <1>8, <2>3, SilentStep DEF Tended, TimerFires, Expire
  <2>. QED BY <2>1, <2>2, <2>3
<1>9. ASSUME NEW r \in Request, NEW i \in Nat, CallReturns(r, i) \/ CallFails(r, i)
      PROVE  Owed(q)' /\ Spent(q)' /\ Tended(q)'
  <2>1. Owed(q)' /\ Spent(q)'
    BY <1>t, <1>9, SilentStep DEF CallReturns, CallFails, ApprovalType
  <2>2. Tended(q)'
    BY <1>t, <1>9 DEF Tended, CallReturns, CallFails, CardShows, ApprovalType
  <2>. QED BY <2>1, <2>2
<1>10. CASE WatchdogStops \/ StopClicked
  BY <1>1, <1>10 DEF WatchdogStops, StopClicked, FinishAndStop, coordinatorVars
<1>11. CASE StreamEnds
  <2>1. Owed(q)' /\ Spent(q)'
    BY <1>t, <1>11, SilentStep DEF StreamEnds, OnTurnEnded
  <2>2. Tended(q)'
    BY <1>t, <1>11 DEF Tended, StreamEnds, OnTurnEnded
  <2>. QED BY <2>1, <2>2
<1>. QED
  BY <1>0, <1>2, <1>3, <1>4, <1>5, <1>6, <1>7, <1>8, <1>9, <1>10, <1>11
     DEF Next, Click, Clicks, CallEnds

LEMMA ApprovalInvariant == Spec => []ApprovalInv
BY ApprovalInvInit, ApprovalNext, PTL DEF Spec

-----------------------------------------------------------------------------

\* The agent is sent at most one response for each time a request is asked, and
\* no click answers twice, whatever clicks are delivered again and however they
\* race with the timer (submit, expireApproval and assertFreshNonce of
\* approval-coordinator.ts).
THEOREM RequestsAreAnsweredOnce == Spec => []OneAnswerEach
<1>1. ApprovalInv => OneAnswerEach
  BY DEF ApprovalInv, Owed, Spent, OneAnswerEach, OneResponsePerAsk, ClickCountsOnce
<1>. QED BY <1>1, ApprovalInvariant, PTL

\* A pending request is always being timed, in a turn that is not over, and the
\* live card tells pending, resolved and expired requests apart, also when a
\* request is asked again after it expired or failed (onRequested, clearTimer
\* and onTurnEnded of approval-coordinator.ts).
THEOREM PendingRequestsAreTended == Spec => []RequestsAreTended
<1>1. ApprovalInv => RequestsAreTended
  BY DEF ApprovalInv, Tended, RequestsAreTended, PendingIsTimed, CardTellsTheState
<1>. QED BY <1>1, ApprovalInvariant, PTL

=============================================================================
