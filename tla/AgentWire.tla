------------------------------ MODULE AgentWire ------------------------------
(***************************************************************************)
(* One run of an agent, from what its wire says to what the card shows:    *)
(* the loop of the bridge over the events of the runner and the ways a run *)
(* ends (bridge/index.ts, runAgentStreamToEnd).  The translators of the    *)
(* agents extend this module with the messages of their wires.             *)
(*                                                                         *)
(* said, tools and results are what the agent told, kept to be compared    *)
(* with the card; the code does not have them.                             *)
(***************************************************************************)
EXTENDS RunState

CONSTANTS
    Stream,   \* the streams of text of an agent; items, where it has them
    Tool,     \* the calls of tools
    MaxSaid   \* bound: messages in a run, for each agent

Message == "text"  \* the stream of an agent that has no items

Agents == {"codex", "kimi", "opencode", "pi", "dsh", "claude"}

ASSUME AgentWireAssumption ==
    /\ MaxSaid \in [Agents -> Nat]
    /\ Stream \cap Tool = {}

VARIABLES
    agent,     \* whose wire this is
    card,      \* the run state of the card
    phase,     \* "streaming", "over"
    clock,     \* messages so far; names the chunk a message brings
    said,      \* what each stream has said
    tools,     \* each tool: "new", "running", "ok", "error"
    results,   \* the results the agent gave for this run
    lapsed,    \* an approval expired before this run was over
    endedBy    \* who set the terminal of the card

wireVars == <<agent, card, phase, clock, said, tools, results, lapsed, endedBy>>

WireInit ==
    /\ agent \in Agents
    /\ card = InitialRun
    /\ phase = "streaming"
    /\ clock = 0
    /\ said = [s \in Stream \cup {Message} |-> <<>>]
    /\ tools = [t \in Tool |-> "new"]
    /\ results = <<>>
    /\ lapsed = FALSE
    /\ endedBy = "nobody"

-----------------------------------------------------------------------------
(* Events.                                                                 *)

TurnDiff(part, item, text, complete) ==
    [type |-> "turn_diff", part |-> part, item |-> item, text |-> text, complete |-> complete, status |-> "done"]
ToolDiff(item, complete, status) ==
    [type |-> "turn_diff", part |-> "tool", item |-> item, text |-> <<>>, complete |-> complete, status |-> status]
Assistant(content) == [type |-> "assistant", content |-> content]
Delta(kind, text) == [kind |-> kind, text |-> text]
ToolUse(item) == [kind |-> "tool", item |-> item]
ToolResult(item, status) == [type |-> "user", item |-> item, status |-> status]
ResultOf(subtype) == [type |-> "result", subtype |-> subtype]
Plan(text) == [type |-> "plan", text |-> text]
Requested(id, view) == [type |-> "approval_requested", id |-> id, view |-> view]
SystemInit == [type |-> "system"]

(* The loop over the events of the runner: a card that is over takes none, *)
(* and a result before the init is a replay of an earlier turn.            *)
Hears(s, ev) ==
    IF IsOver(s) \/ (ev.type = "result" /\ ~ s.init) THEN s ELSE ReduceRunState(s, ev)

Emit(evs) == card' = FoldLeft(Hears, card, evs)

(* One message of the agent.                                               *)
Wire ==
    /\ phase = "streaming"
    /\ clock < MaxSaid[agent]
    /\ clock' = clock + 1
    /\ UNCHANGED <<agent, phase, lapsed, endedBy>>

Chunk == clock + 1
Says(stream, text) == said' = [said EXCEPT ![stream] = text]
View(kind, about) == [kind |-> kind, about |-> about]
Gives(subtype) == results' = IF card.init /\ ~ IsOver(card) THEN Append(results, subtype) ELSE results

(* The agent starts this run on its wire, which opens it to results.       *)
InitArrives ==
    /\ phase = "streaming"
    /\ ~ card.init
    /\ Emit(<<SystemInit>>)
    /\ UNCHANGED <<agent, phase, clock, said, tools, results, lapsed, endedBy>>

-----------------------------------------------------------------------------
(* The ends of a run.                                                      *)

(* The stream of the runner is over: the result becomes the terminal, a    *)
(* run without a result is an error, and a card that is over stays.        *)
StreamEnds ==
    /\ phase = "streaming"
    /\ phase' = "over"
    /\ endedBy' = IF IsOver(card) THEN endedBy ELSE "stream"
    /\ card' = CASE card.terminal = "finalizing" ->
                      FinishRun(card, IF card.subtype = "error" \/ card.error THEN "error"
                                      ELSE IF card.subtype = "interrupted" THEN "interrupted"
                                      ELSE "done", "none", FALSE)
                 [] card.terminal = "running" -> FinishRun(card, "error", "none", TRUE)
                 [] OTHER -> card
    /\ UNCHANGED <<agent, clock, said, tools, results, lapsed>>

(* The stream throws: an error, unless the card is over.                   *)
StreamThrows ==
    /\ phase = "streaming"
    /\ phase' = "over"
    /\ endedBy' = IF IsOver(card) THEN endedBy ELSE "throw"
    /\ card' = IF IsOver(card) THEN card ELSE FinishRun(card, "error", "none", TRUE)
    /\ UNCHANGED <<agent, clock, said, tools, results, lapsed>>

(* interruptCurrentRun: a person stops the run, which is still registered  *)
(* when its card or its stream is over; the stream goes on to its own end. *)
(* The reason is told also of a card that ended otherwise, but only an     *)
(* interrupted one shows it: the others are left out.                      *)
UserStops ==
    /\ card.terminal \in {"running", "finalizing", "interrupted"}
    /\ endedBy' = IF IsOver(card) THEN endedBy ELSE "user"
    /\ card' = FinishRun(card, "interrupted", "user_stop", FALSE)
    /\ UNCHANGED <<agent, phase, clock, said, tools, results, lapsed>>

(* startIdleWatchdog: the run was silent for too long.  It is spared while *)
(* a request is pending; one that was answered is no longer, but is on the *)
(* card until the agent confirms, so the card does not tell.  Of a card that *)
(* is over only the minutes change, which are left out.                    *)
WatchdogFires ==
    /\ phase = "streaming"
    /\ ~ IsOver(card)
    /\ endedBy' = "watchdog"
    /\ card' = FinishRun(card, "idle_timeout", "none", FALSE)
    /\ UNCHANGED <<agent, phase, clock, said, tools, results, lapsed>>

(* An approval nobody answered: its card says so, and it is cancelled,     *)
(* which the agent will confirm and may end its turn for.                  *)
ApprovalExpires ==
    /\ phase = "streaming"
    /\ \E i \in DOMAIN card.approvals :
        /\ ~ card.approvals[i].expired
        /\ card' = ReduceRunState(card, [type |-> "approval_expired", id |-> card.approvals[i].id])
    /\ lapsed' = IF IsOver(card) THEN lapsed ELSE TRUE
    /\ UNCHANGED <<agent, phase, clock, said, tools, results, endedBy>>

RunEnds == StreamEnds \/ StreamThrows \/ UserStops \/ WatchdogFires \/ ApprovalExpires

-----------------------------------------------------------------------------
(* What the card owes the agent.                                           *)

BlocksOf(stream) ==
    SelectSeq(card.blocks, LAMBDA b : /\ b.kind = "text"
                                      /\ b.item = stream \/ (b.item = NoItem /\ stream = Message))
Shown(stream) == FlattenSeq([i \in DOMAIN BlocksOf(stream) |-> BlocksOf(stream)[i].body.text])

(* What a stream said is shown as it was said: nothing twice, nothing out  *)
(* of order or of another stream, and the latest of it is there, unless    *)
(* the blocks of it went with the oldest ones, which the card counts.      *)
TextIsTold ==
    \A s \in DOMAIN said :
        /\ \A i, j \in DOMAIN Shown(s) : i < j => Shown(s)[i] < Shown(s)[j]
        /\ ToSet(Shown(s)) \subseteq ToSet(said[s])
        /\ ~ IsOver(card) /\ said[s] # <<>> =>
              IF Shown(s) = <<>> THEN card.omitted > 0 ELSE Last(Shown(s)) = Last(said[s])
=============================================================================
