--------------------------- MODULE PlainTranslators --------------------------
(***************************************************************************)
(* The translators of the agents whose messages are nearly the events: pi, *)
(* which gathers the parts of a message until it ends                      *)
(* (runner/pi/rpc/translator.ts), dsh (runner/dsh/translator.ts) and       *)
(* claude (translateEvent, runner/claude/session.ts).                      *)
(***************************************************************************)
EXTENDS AgentWire

CONSTANT ControlRequest  \* requests of claude

VARIABLES
    content,          \* pi: the parts of the message so far
    currentContentIndex,
    pendingToolCall,  \* pi: a call whose end is awaited
    stopReason,       \* pi: how the last message stopped
    saidInMessage,    \* what pi's message said, as the wire has it
    part,             \* of pi's wire: the part being streamed
    plainClosed       \* of the wire: requests asked, and the turn's end

piVars == <<content, currentContentIndex, pendingToolCall, stopReason, saidInMessage, part>>
plainVars == <<piVars, plainClosed>>

PlainInit ==
    /\ content = <<>>
    /\ currentContentIndex = 0
    /\ pendingToolCall = FALSE
    /\ stopReason = "none"
    /\ saidInMessage = <<>>
    /\ part = "none"
    /\ plainClosed = {}

-----------------------------------------------------------------------------
(* pi.  An index of 0 stands for the code's -1.                            *)

MessageStart ==
    /\ Wire
    /\ part = "none"
    /\ part' = "message"
    /\ content' = <<>>
    /\ currentContentIndex' = 0
    /\ UNCHANGED <<card, said, tools, results, pendingToolCall, stopReason, saidInMessage, plainClosed>>

(* text_start, thinking_start.                                             *)
PartStart(kind) ==
    /\ Wire
    /\ part = "message"
    /\ part' = kind
    /\ content' = Append(content, Delta(kind, <<>>))
    /\ currentContentIndex' = currentContentIndex + 1
    /\ UNCHANGED <<card, said, tools, results, pendingToolCall, stopReason, saidInMessage, plainClosed>>

Current(kind) == currentContentIndex \in DOMAIN content /\ content[currentContentIndex].kind = kind

(* text_delta, thinking_delta.                                             *)
PartDelta(kind) ==
    /\ Wire
    /\ part = kind
    /\ content' = IF Current(kind) THEN [content EXCEPT ![currentContentIndex].text = Append(@, Chunk)] ELSE content
    /\ saidInMessage' = IF kind = "text" THEN Append(saidInMessage, Chunk) ELSE saidInMessage
    /\ UNCHANGED <<card, said, tools, results, currentContentIndex, pendingToolCall, stopReason, part, plainClosed>>

(* text_end, thinking_end: the whole of the part, if it brings it, counts. *)
PartEnd(kind, lost) ==
    /\ Wire
    /\ part = kind
    /\ part' = "message"
    /\ content' = IF Current(kind) /\ lost THEN [content EXCEPT ![currentContentIndex].text = Append(@, Chunk)] ELSE content
    /\ saidInMessage' = IF kind = "text" /\ lost THEN Append(saidInMessage, Chunk) ELSE saidInMessage
    /\ UNCHANGED <<card, said, tools, results, currentContentIndex, pendingToolCall, stopReason, plainClosed>>

ToolCallStart ==
    /\ Wire
    /\ part = "message"
    /\ part' = "tool"
    /\ pendingToolCall' = TRUE
    /\ UNCHANGED <<card, said, tools, results, content, currentContentIndex, stopReason, saidInMessage, plainClosed>>

ToolCallEnd(t) ==
    /\ Wire
    /\ part = "tool"
    /\ part' = "message"
    /\ tools[t] = "new"
    /\ tools' = [tools EXCEPT ![t] = "running"]
    /\ IF pendingToolCall
       THEN /\ content' = Append(content, ToolUse(t))
            /\ currentContentIndex' = Len(content')
       ELSE UNCHANGED <<content, currentContentIndex>>
    /\ pendingToolCall' = FALSE
    /\ UNCHANGED <<card, said, results, stopReason, saidInMessage, plainClosed>>

(* The message ends, whole or broken off, and its parts are shown.         *)
MessageEnd(reason) ==
    /\ Wire
    /\ part \notin {"none", "over"}
    /\ part' = "none"
    /\ Emit(<<Assistant(content)>>)
    /\ Says(Message, said[Message] \o saidInMessage)
    /\ saidInMessage' = <<>>
    /\ content' = <<>>
    /\ currentContentIndex' = 0
    /\ pendingToolCall' = FALSE
    /\ stopReason' = reason
    /\ UNCHANGED <<tools, results, plainClosed>>

PiToolResult(t, outcome) ==
    /\ Wire
    /\ part = "none"
    /\ tools[t] = "running"
    /\ tools' = [tools EXCEPT ![t] = outcome]
    /\ Emit(<<ToolResult(t, outcome)>>)
    /\ UNCHANGED <<said, results, plainVars>>

(* The turn is over; it failed if its last message did.                    *)
AgentSettled ==
    LET subtype == IF stopReason = "error" THEN "error" ELSE "success" IN
    /\ Wire
    /\ part = "none"
    /\ part' = "over"
    /\ Emit(<<ResultOf(subtype)>>)
    /\ Gives(subtype)
    /\ UNCHANGED <<said, tools, content, currentContentIndex, pendingToolCall, stopReason, saidInMessage, plainClosed>>

PiNext ==
    /\ agent = "pi"
    /\ \/ MessageStart
       \/ \E kind \in {"text", "thinking"} :
            PartStart(kind) \/ PartDelta(kind) \/ \E lost \in BOOLEAN : PartEnd(kind, lost)
       \/ ToolCallStart
       \/ \E t \in Tool : ToolCallEnd(t) \/ \E outcome \in {"ok", "error"} : PiToolResult(t, outcome)
       \/ \E reason \in {"stop", "error"} : MessageEnd(reason)
       \/ AgentSettled

-----------------------------------------------------------------------------
(* dsh: chunks, and the end of the turn.                                   *)

DshChunk(kind) ==
    /\ agent = "dsh"
    /\ Wire
    /\ IF kind = "text" THEN Says(Message, Append(said[Message], Chunk)) ELSE UNCHANGED said
    /\ Emit(<<Assistant(<<Delta(kind, <<Chunk>>)>>)>>)
    /\ UNCHANGED <<tools, results, plainVars>>

DshTurnEnd(reason) ==
    LET subtype == CASE reason = "completed" -> "success"
                     [] reason \in {"aborted", "interrupted"} -> "interrupted"
                     [] OTHER -> "error"
    IN  /\ agent = "dsh"
        /\ Wire
        /\ plainClosed' = {Message}
        /\ Emit(<<ResultOf(subtype)>>)
        /\ Gives(subtype)
        /\ UNCHANGED <<said, tools, piVars>>

-----------------------------------------------------------------------------
(* claude.  What comes before the init is of an earlier turn.              *)

ClaudeAssistant(blocks) ==
    /\ agent = "claude"
    /\ Wire
    /\ \A i \in DOMAIN blocks : blocks[i].kind = "tool" => card.init /\ tools[blocks[i].item] = "new"
    /\ tools' = [t \in Tool |-> IF \E i \in DOMAIN blocks : blocks[i] = ToolUse(t) THEN "running" ELSE tools[t]]
    /\ IF card.init THEN Emit(<<Assistant(blocks)>>) ELSE UNCHANGED card
    /\ IF card.init /\ \E i \in DOMAIN blocks : blocks[i].kind = "text"
       THEN Says(Message, Append(said[Message], Chunk)) ELSE UNCHANGED said
    /\ UNCHANGED <<results, plainVars>>

(* The echo of the person's own message is not a result of a tool.         *)
ClaudeToolResult(t, outcome) ==
    /\ agent = "claude"
    /\ Wire
    /\ tools[t] = "running"
    /\ tools' = [tools EXCEPT ![t] = outcome]
    /\ Emit(<<ToolResult(t, outcome)>>)
    /\ UNCHANGED <<said, results, plainVars>>

(* A result ends the turn; one replayed before the init is dropped.        *)
ClaudeResult(subtype) ==
    /\ agent = "claude"
    /\ Wire
    /\ IF card.init
       THEN /\ plainClosed' = plainClosed \cup {Message}
            /\ Emit(<<ResultOf(subtype)>>)
            /\ Gives(subtype)
       ELSE UNCHANGED <<card, results, plainClosed>>
    /\ UNCHANGED <<said, tools, piVars>>

ClaudeRequest(id) ==
    /\ agent = "claude"
    /\ Wire
    /\ card.init
    /\ plainClosed' = plainClosed \cup {id}
    /\ Emit(<<Requested(id, View("command", <<>>))>>)
    /\ UNCHANGED <<said, tools, results, piVars>>

(* claude withdraws a request it no longer needs answered.                 *)
ClaudeCancels(id) ==
    /\ agent = "claude"
    /\ Wire
    /\ card.init
    /\ Emit(<<[type |-> "approval_resolved", id |-> id]>>)
    /\ UNCHANGED <<said, tools, results, plainVars>>

PlainNext ==
    \/ PiNext
    \/ /\ Message \notin plainClosed
       /\ \/ \E kind \in {"text", "thinking"} : DshChunk(kind)
          \/ \E reason \in {"completed", "aborted", "max-tokens"} : DshTurnEnd(reason)
          \/ \E blocks \in {<<Delta("text", <<Chunk>>)>>, <<Delta("thinking", <<Chunk>>)>>}
                    \cup {<<Delta("text", <<Chunk>>), ToolUse(t)>> : t \in Tool} : ClaudeAssistant(blocks)
          \/ \E t \in Tool, outcome \in {"ok", "error"} : ClaudeToolResult(t, outcome)
          \/ \E subtype \in {"success", "error"} : ClaudeResult(subtype)
          \/ \E id \in ControlRequest \ plainClosed : ClaudeRequest(id)
          \/ \E id \in ControlRequest \cap plainClosed : ClaudeCancels(id)
=============================================================================
