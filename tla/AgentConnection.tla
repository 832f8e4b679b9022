---------------------------- MODULE AgentConnection ----------------------------
(***************************************************************************)
(* The connections of one workspace-lifetime runner to its agent process,  *)
(* for one workspace: the transport that owns the process (runner/common/  *)
(* jsonrpc/transport.ts), the client with its requests (client.ts; pi has  *)
(* its own, pi/rpc/client.ts), the manager's slot (connection-manager.ts)  *)
(* and the stop of a process (platform/terminator-*.ts).                   *)
(*                                                                         *)
(* The operators are the calls a runner makes and the events it hears;     *)
(* AgentTurn composes them with the runner's turn.  A request is named by  *)
(* the attempt it serves and what it asks; an attempt is one run of a      *)
(* turn's setup.  Settling a request and the handlers it wakes are one     *)
(* step; the code after an await runs later.                               *)
(***************************************************************************)
EXTENDS Naturals, FiniteSets

CONSTANTS
    Kinds,       \* the agents, a subset of {"codex", "opencode", "kimi", "pi"}
    MaxConns,    \* bound: agent processes spawned
    MaxAttempts  \* bound: setups of a turn, the retries included

ASSUME AgentAssumption ==
    /\ Kinds \subseteq {"codex", "opencode", "kimi", "pi"}
    /\ MaxConns \in Nat \ {0}
    /\ MaxAttempts \in Nat \ {0}

None == 0
Conns == 1 .. MaxConns
Attempts == 1 .. MaxAttempts
Req == [at : Attempts, what : {"connect", "session", "settings", "prompt", "cancel"}]

VARIABLES
    kind,     \* the agent of the runner
    conn,     \* [Conns -> the transport, its process and its client]
    slot,     \* the manager's slot of the workspace
    disowned  \* history: connections the manager gave up open

connVars == <<conn, slot, disowned>>

NoSlot == [client |-> None, creating |-> None, timer |-> FALSE]

Unborn == [proc |-> "none",       \* "none", "up", "asked" to stop, "killed", "gone"
           closed |-> FALSE,      \* the transport is closed, or its client disposed
           ready |-> FALSE,
           hooks |-> None,        \* the attempt whose hooks the client carries
           pending |-> {},        \* requests whose promise is open
           asked |-> {},          \* requests the agent has not answered
           work |-> {}]           \* attempts the agent works on

ConnInit ==
    /\ kind \in Kinds
    /\ conn = [c \in Conns |-> Unborn]
    /\ slot = NoSlot
    /\ disowned = {}

Living(c) == conn[c].proc \in {"up", "asked", "killed"}
Open(c) == conn[c].proc = "up" /\ ~ conn[c].closed

-----------------------------------------------------------------------------
(* The transport and the client, as records.                               *)

(* createClient, transport.start and client.connect up to its first await: *)
(* the process comes up and gets the handshake, or does not spawn.  pi has *)
(* no handshake.                                                           *)
Spawned(a, ok) ==
    IF ~ ok THEN [Unborn EXCEPT !.proc = "gone", !.closed = TRUE]
    ELSE IF kind = "pi" THEN [Unborn EXCEPT !.proc = "up", !.ready = TRUE]
    ELSE LET r == [at |-> a, what |-> "connect"]
         IN  [Unborn EXCEPT !.proc = "up", !.pending = {r}, !.asked = {r}]

(* request: refused on a disposed or closed client, else written.          *)
Asked(k, r) ==
    IF ~ k.closed THEN [k EXCEPT !.pending = @ \cup {r}, !.asked = @ \cup {r}] ELSE k

(* A response: its promise settles if it is still open; the answer to a    *)
(* request that timed out finds no promise.                                *)
Answered(k, r, ok) ==
    [k EXCEPT !.asked = @ \ {r}, !.pending = @ \ {r},
              !.ready = @ \/ (ok /\ r.what = "connect" /\ r \in k.pending)]

(* The request timer: the promise is rejected, the agent works on.         *)
TimedOut(k, r) == [k EXCEPT !.pending = @ \ {r}]

(* handleClose: stdin broke or the process failed.  The terminator is      *)
(* asked, and the client is told at once.  Nothing the agent still writes  *)
(* is heard.                                                               *)
Broken(k) ==
    [k EXCEPT !.closed = TRUE, !.pending = {}, !.asked = {}, !.work = {},
              !.proc = IF @ = "up" THEN "asked" ELSE @]

(* The process ended ('close'): whoever was not told yet is told now.      *)
Exited(k) ==
    [k EXCEPT !.proc = "gone", !.closed = TRUE, !.pending = {}, !.asked = {}, !.work = {}]

(* clearRunHooks, dispose and transport.close: no hook is left, every      *)
(* promise is rejected, and the terminator is asked unless the transport   *)
(* had closed before.                                                      *)
Disposed(k) ==
    [k EXCEPT !.closed = TRUE, !.ready = FALSE, !.hooks = None,
              !.pending = {}, !.asked = {}, !.work = {},
              !.proc = IF @ = "up" THEN "asked" ELSE @]

-----------------------------------------------------------------------------
(* The terminator.                                                         *)

(* The grace of a stop is over and the process is still there: it is       *)
(* killed (SIGKILL to the group; taskkill of the tree).                    *)
GraceElapses(c) ==
    /\ conn[c].proc = "asked"
    /\ conn' = [conn EXCEPT ![c].proc = "killed"]
    /\ UNCHANGED <<kind, slot, disowned>>

-----------------------------------------------------------------------------
(* The slot of the manager.                                                *)

(* Mutant of SlotAfterClose: whatever the slot holds is cleared.           *)
SlotAfterCloseAny(c) == IF slot.client # None THEN NoSlot ELSE slot

(* baseOnClose: a connection clears the slot only if it is its own.        *)
SlotAfterClose(c) == IF slot.client = c THEN NoSlot ELSE slot

(* shouldReuse: ready and healthy, and for pi bound to the session asked.  *)
Reusable(sameSession) ==
    /\ slot.client # None
    /\ conn[slot.client].ready
    /\ ~ conn[slot.client].closed
    /\ kind = "pi" => sameSession

(* acquire, when the slot has no connection to reuse: the old one is       *)
(* disposed and a new one is made.                                         *)
Replaced(old, new, a, ok) ==
    [c \in Conns |-> CASE c = new -> Spawned(a, ok)
                       [] c = old -> Disposed(conn[c])
                       [] OTHER -> conn[c]]

(* acquire, after connect(): the new connection is cached, unless the slot *)
(* was released while it was made.                                         *)
Cached(c) == IF slot.creating = c THEN [NoSlot EXCEPT !.client = c] ELSE slot

(* acquire, when connect() failed: only its own slot is cleared.  A        *)
(* process that came up and failed the handshake is not closed.            *)
Uncached(c) ==
    /\ slot' = IF slot.creating = c THEN NoSlot ELSE slot
    /\ disowned' = IF Open(c) THEN disowned \cup {c} ELSE disowned

(* disposeSlot: release, disposeAll and the idle timer.  A connection that *)
(* is being made is only forgotten.                                        *)
SlotDisposed == [c \in Conns |-> IF c = slot.client THEN Disposed(conn[c]) ELSE conn[c]]

=============================================================================
