---------------------------- MODULE SessionPointers ----------------------------
(***************************************************************************)
(* Which conversation a message continues: the session store of one user   *)
(* (session/session-store.ts), the commands that move its pointers         *)
(* (router/index.ts: /new, /cd, /resume, the switch of the agent in        *)
(* /config), and the runs that write the session they were given back to   *)
(* it (bridge/index.ts forwardToClaude, runAgentStreamToEnd), while other  *)
(* messages wait in the lanes and the process may crash and start again.   *)
(*                                                                         *)
(* A session is a number; it belongs to the agent and the directory it was *)
(* made in.  Cards, texts and sessionCwds (the worktree of a session) are  *)
(* left out.                                                               *)
(***************************************************************************)
EXTENDS Naturals, Sequences, FiniteSets, FiniteSetsExt, Functions

CONSTANTS
    Agents,       \* agents of the user, with "codex" and "dsh" for what is theirs
    Dirs,         \* workspaces
    MaxSessions,  \* bound: sessions ever made
    MaxMessages,  \* bound: messages sent
    MaxCommands   \* bound: commands given

ASSUME SessionAssumption ==
    /\ Agents # {} /\ Dirs # {}
    /\ MaxSessions \in Nat /\ MaxMessages \in Nat /\ MaxCommands \in Nat

None == 0
Ids == 1 .. MaxSessions

VARIABLES
    store,         \* the entry of the user
    disk,          \* the entry as last persisted
    epochs,        \* userEpochs and agentEpochs, since the process started
    defaultAgent,  \* config.defaultAgent
    made,          \* the sessions on disk: [agent, dir] of each id
    lanes,         \* [Dirs -> messages that wait, with their bindings]
    runs,          \* [Dirs -> the run of the workspace]
    \* History variables
    sent, given,   \* messages and commands so far
    lastWrite,     \* the last write-back: of a run that a command overtook?
    away,          \* the agent last switched away from, and its session
    restored       \* whether switching back gave the session back

pointerVars == <<store, disk, epochs, defaultAgent, made, lanes, runs, sent, given, lastWrite, away, restored>>

NoSessions == [a \in Agents |-> None]
NoRun == [agent |-> "none", from |-> None, session |-> None, epoch |-> 0, overtaken |-> FALSE]
NotAway == [agent |-> "none", session |-> None]

PointerInit ==
    /\ \E d \in Dirs : store = [sessions |-> NoSessions, previous |-> NoSessions, arrival |-> NoSessions, cwd |-> d]
    /\ disk = store
    /\ epochs = [user |-> 0, agent |-> [a \in Agents |-> 0]]
    /\ defaultAgent \in Agents
    /\ made = <<>>
    /\ lanes = [d \in Dirs |-> <<>>]
    /\ runs = [d \in Dirs |-> NoRun]
    /\ sent = 0
    /\ given = 0
    /\ lastWrite = "none"
    /\ away = NotAway
    /\ restored = TRUE

-----------------------------------------------------------------------------
(* The store.                                                              *)

(* getSessionEpoch: a bump at either level changes the sum.                *)
SessionEpoch(a) == epochs.user + epochs.agent[a]

BumpSessionEpoch(e, a) == [e EXCEPT !.agent[a] = @ + 1]

(* Mutant of BumpUserEpoch: only the agents that have a session are moved. *)
BumpSomeEpochs(e) ==
    [e EXCEPT !.agent = [a \in Agents |-> IF store.sessions[a] = None THEN @[a] ELSE @[a] + 1]]

(* bumpUserEpoch, in setCwd: also the agents with no session yet.          *)
BumpUserEpoch(e) == [e EXCEPT !.user = @ + 1]

(* clearSessionId, setPreviousSessionId, setArrivalSessionId: one pointer  *)
(* of a copy of the entry.                                                 *)
ClearSessionId(s, a) == [s EXCEPT !.sessions[a] = None]
SetPreviousSessionId(s, a, id) == [s EXCEPT !.previous[a] = id]
SetArrivalSessionId(s, a, id) == [s EXCEPT !.arrival[a] = id]

(* setSessionId (the caller bumps the epoch) and setSessionIdAndCwd.       *)
SetSessionId(s, a, id) == [s EXCEPT !.sessions[a] = id]
SetSessionIdAndCwd(s, a, id, d) == [s EXCEPT !.sessions[a] = id, !.cwd = d]

(* setCwd: every session, parked or not, belongs to the directory left.    *)
SetCwd(s, d) == [sessions |-> NoSessions, previous |-> NoSessions, arrival |-> NoSessions, cwd |-> d]

(* autoPersist: after every mutation, in the same step; the write is       *)
(* atomic or fails with a warning, and the old file stays.                 *)
AutoPersist(s) == store' = s /\ disk' \in {s, disk}

-----------------------------------------------------------------------------
(* The commands of the user.                                               *)

(* The runs whose agent's pointer a command moves.                         *)
Overtake(moved) ==
    runs' = [d \in Dirs |-> [runs[d] EXCEPT !.overtaken = @ \/ (runs[d].agent \in moved)]]

Command ==
    /\ given < MaxCommands
    /\ given' = given + 1
    /\ UNCHANGED <<made, lanes, sent, lastWrite>>

(* cmdNew and the new-session button.                                      *)
New ==
    /\ Command
    /\ AutoPersist(ClearSessionId(store, defaultAgent))
    /\ epochs' = BumpSessionEpoch(epochs, defaultAgent)
    /\ Overtake({defaultAgent})
    /\ away' = NotAway
    /\ UNCHANGED <<defaultAgent, restored>>

SessionsOf(a, d) == {id \in DOMAIN made : made[id] = [agent |-> a, dir |-> d]}

(* switchCwdAndNotify: /cd, /ws use and the switch button of /ls.  The     *)
(* newest session of the directory is resumed, if it can be read.          *)
SwitchCwdAndNotify(d) ==
    LET newest == SessionsOf(defaultAgent, d)
        moved == SetCwd(store, d)
    IN  /\ Command
        /\ \/ AutoPersist(moved)
           \/ newest # {} /\ AutoPersist(SetSessionIdAndCwd(moved, defaultAgent, Max(newest), d))
        /\ epochs' = BumpUserEpoch(epochs)
        /\ Overtake(Agents)
        /\ away' = NotAway
        /\ UNCHANGED <<defaultAgent, restored>>

(* cmdResume and the resume.use button: a session of the directory.        *)
Resume(a, id) ==
    /\ Command
    /\ id \in SessionsOf(a, store.cwd)
    /\ AutoPersist(SetSessionId(store, a, id))
    /\ epochs' = BumpSessionEpoch(epochs, a)
    /\ Overtake({a})
    /\ away' = NotAway
    /\ UNCHANGED <<defaultAgent, restored>>

(* propagateConfigSave, when the default agent changes: the session of the *)
(* old agent is parked and cleared.  The new one continues what the user   *)
(* chose, or what was parked if the user did nothing meanwhile, or nothing.*)
SwitchStore(old, new) ==
    LET session == store.sessions[old]
        changed == session # store.arrival[old]
        parked == IF session = None THEN store ELSE SetPreviousSessionId(store, old, session)
        left == ClearSessionId(parked, old)
        chosen == left.sessions[new]
        before == left.previous[new]
    IN  IF chosen # None /\ chosen # left.arrival[new] THEN SetArrivalSessionId(left, new, chosen)
        ELSE IF before # None /\ ~ changed
        THEN SetArrivalSessionId(SetPreviousSessionId(SetSessionId(left, new, before), new, None), new, before)
        ELSE SetArrivalSessionId(ClearSessionId(left, new), new, None)

SwitchAgent(new) ==
    LET chosen == store.sessions[new] # None /\ store.sessions[new] # store.arrival[new]
    IN  /\ new # defaultAgent
        /\ Command
        /\ defaultAgent' = new
        /\ AutoPersist(SwitchStore(defaultAgent, new))
        /\ epochs' = IF chosen THEN BumpSessionEpoch(epochs, defaultAgent)
                     ELSE BumpSessionEpoch(BumpSessionEpoch(epochs, defaultAgent), new)
        /\ Overtake(IF chosen THEN {defaultAgent} ELSE {defaultAgent, new})
        /\ away' = [agent |-> defaultAgent, session |-> store.sessions[defaultAgent]]
        /\ restored' = (away.agent = new /\ away.session # None => store'.sessions[new] = away.session)

(* propagateConfigSave, when the preset or the host of dsh changes: its    *)
(* session is parked, the next message makes a new one.                    *)
ChangeDshService ==
    /\ defaultAgent = "dsh"
    /\ store.sessions["dsh"] # None
    /\ Command
    /\ AutoPersist(ClearSessionId(SetPreviousSessionId(store, "dsh", store.sessions["dsh"]), "dsh"))
    /\ epochs' = BumpSessionEpoch(epochs, "dsh")
    /\ Overtake({"dsh"})
    /\ away' = NotAway
    /\ UNCHANGED <<defaultAgent, restored>>

-----------------------------------------------------------------------------
(* Messages and runs.                                                      *)

(* A message enters the lane of the current directory, bound to the agent  *)
(* and the session of this moment (currentBinding).                        *)
Send ==
    /\ sent < MaxMessages
    /\ sent' = sent + 1
    /\ lanes' = [lanes EXCEPT ![store.cwd] =
                   Append(@, [agent |-> defaultAgent, session |-> store.sessions[defaultAgent]])]
    /\ UNCHANGED <<store, disk, epochs, defaultAgent, made, runs, given, lastWrite, away, restored>>

(* forwardToClaude: the session of the binding, or else the live one; the  *)
(* epoch is taken as the run starts.                                       *)
StartRun(d) ==
    /\ runs[d] = NoRun
    /\ lanes[d] # <<>>
    /\ LET m == Head(lanes[d])
           id == IF m.session # None THEN m.session ELSE store.sessions[m.agent]
       IN  runs' = [runs EXCEPT ![d] = [agent |-> m.agent, from |-> id, session |-> None,
                                        epoch |-> SessionEpoch(m.agent), overtaken |-> FALSE]]
    /\ lanes' = [lanes EXCEPT ![d] = Tail(@)]
    /\ UNCHANGED <<store, disk, epochs, defaultAgent, made, sent, given, lastWrite, away, restored>>

(* The session of a run is written to the store, unless a command has      *)
(* moved the pointer since the run started.                                *)
WriteBack(d, id, cwd) ==
    /\ IF SessionEpoch(runs[d].agent) = runs[d].epoch
       THEN /\ AutoPersist(SetSessionIdAndCwd(store, runs[d].agent, id, cwd))
            /\ lastWrite' = IF runs[d].overtaken THEN "overtaken" ELSE "current"
            /\ away' = NotAway
       ELSE UNCHANGED <<store, disk, lastWrite, away>>
    /\ UNCHANGED <<epochs, defaultAgent, lanes, sent, given, restored>>

(* system.init: the agent tells its session, the one resumed or a new one. *)
(* A session that moved to a worktree leaves the user's directory alone.   *)
InitArrives(d, worktree) ==
    /\ runs[d] # NoRun
    /\ runs[d].session = None
    /\ \/ /\ runs[d].from # None
          /\ runs' = [runs EXCEPT ![d].session = runs[d].from]
          /\ UNCHANGED made
       \/ /\ Len(made) < MaxSessions
          /\ made' = Append(made, [agent |-> runs[d].agent, dir |-> d])
          /\ runs' = [runs EXCEPT ![d].session = Len(made) + 1]
    /\ WriteBack(d, runs'[d].session, IF worktree THEN store.cwd ELSE d)

(* A later init of the same run, sent again when a background task ends.   *)
InitRepeats(d) ==
    /\ runs[d].session # None
    /\ WriteBack(d, runs[d].session, d)
    /\ UNCHANGED <<made, runs>>

(* turn_started and the result of codex, which name the thread too.        *)
TurnStarts(d) ==
    /\ runs[d].agent = "codex"
    /\ runs[d].session # None
    /\ WriteBack(d, runs[d].session, d)
    /\ UNCHANGED <<made, runs>>

EndRun(d) ==
    /\ runs[d] # NoRun
    /\ runs' = [runs EXCEPT ![d] = NoRun]
    /\ UNCHANGED <<store, disk, epochs, defaultAgent, made, lanes, sent, given, lastWrite, away, restored>>

(* Mutant of Restart: what was parked is not read back.                    *)
RestartUnparked ==
    /\ store' = [disk EXCEPT !.previous = NoSessions]
    /\ disk' = disk
    /\ epochs' = [user |-> 0, agent |-> [a \in Agents |-> 0]]
    /\ lanes' = [d \in Dirs |-> <<>>]
    /\ runs' = [d \in Dirs |-> NoRun]
    /\ away' = IF disk = store THEN away ELSE NotAway
    /\ UNCHANGED <<defaultAgent, made, sent, given, lastWrite, restored>>

(* The process ends, in whatever way, and another one loads the store.     *)
(* Runs, lanes and epochs lived in memory only.                            *)
Restart ==
    /\ store' = disk
    /\ disk' = disk
    /\ epochs' = [user |-> 0, agent |-> [a \in Agents |-> 0]]
    /\ lanes' = [d \in Dirs |-> <<>>]
    /\ runs' = [d \in Dirs |-> NoRun]
    /\ away' = IF disk = store THEN away ELSE NotAway
    /\ UNCHANGED <<defaultAgent, made, sent, given, lastWrite, restored>>

PointerNext ==
    \/ New
    \/ \E d \in Dirs : SwitchCwdAndNotify(d)
    \/ \E a \in Agents, id \in Ids : Resume(a, id)
    \/ \E a \in Agents : SwitchAgent(a)
    \/ ChangeDshService
    \/ Send
    \/ \E d \in Dirs :
         \/ StartRun(d)
         \/ \E worktree \in BOOLEAN : InitArrives(d, worktree)
         \/ InitRepeats(d)
         \/ TurnStarts(d)
         \/ EndRun(d)
    \/ Restart

PointerSpec == PointerInit /\ [][PointerNext]_pointerVars

-----------------------------------------------------------------------------
(* Properties.                                                             *)

(* A run never writes its session back once a command moved the pointer of *)
(* its agent while it ran: /new, /cd, /resume and /config stand.           *)
InFlightRunYields == lastWrite # "overtaken"

(* Switching to another agent and back, with nothing done in between,      *)
(* continues the same session, across a restart too.                       *)
SwitchBackRestores == restored
=============================================================================
