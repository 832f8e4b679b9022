---------------------------- MODULE AcpTranslator ----------------------------
(***************************************************************************)
(* The translators of the agents that speak ACP: what they share           *)
(* (runner/common/acp/base-translator.ts), kimi, whose deltas become       *)
(* snapshots of one stream of text and one of thinking                     *)
(* (runner/kimi/acp/translator.ts), and opencode, whose deltas are passed  *)
(* on (runner/opencode/acp/translator.ts).                                 *)
(***************************************************************************)
EXTENDS AgentWire

CONSTANT AcpRequest  \* requests of the server for a permission

Thinking == "thinking"  \* the item of kimi's thinking

VARIABLES
    streamed,   \* kimi's accumulated text and thinking
    callArgs,   \* the tool calls whose arguments are known
    acpClosed   \* of the wire: requests asked, and the answer to the prompt

acpVars == <<streamed, callArgs, acpClosed>>

AcpInit ==
    /\ streamed = [s \in {Message, Thinking} |-> <<>>]
    /\ callArgs = {}
    /\ acpClosed = {}

-----------------------------------------------------------------------------
(* Mutant of Streams: kimi's text so far is passed on as a delta is.       *)
StreamsTwice(stream, kind) ==
    LET text == Append(streamed[stream], Chunk) IN
    /\ streamed' = IF agent = "kimi" THEN [streamed EXCEPT ![stream] = text] ELSE streamed
    /\ Emit(<<Assistant(<<Delta(kind, IF agent = "kimi" THEN text ELSE <<Chunk>>)>>)>>)
    /\ UNCHANGED <<tools, results, callArgs, acpClosed>>

(* A chunk of the message or of the thought.                               *)
Streams(stream, kind) ==
    LET text == Append(streamed[stream], Chunk) IN
    /\ IF agent = "kimi"
       THEN /\ streamed' = [streamed EXCEPT ![stream] = text]
            /\ Emit(<<TurnDiff(kind, stream, text, FALSE)>>)
       ELSE /\ Emit(<<Assistant(<<Delta(kind, <<Chunk>>)>>)>>)
            /\ UNCHANGED streamed
    /\ UNCHANGED <<tools, results, callArgs, acpClosed>>

AgentMessageChunk ==
    /\ Wire
    /\ Says(Message, Append(said[Message], Chunk))
    /\ Streams(Message, "text")

AgentThoughtChunk ==
    /\ Wire
    /\ Streams(Thinking, "thinking")
    /\ UNCHANGED said

(* A call of a tool, with its arguments or, created early, without.        *)
ToolCall(t, args) ==
    /\ Wire
    /\ tools[t] = "new"
    /\ tools' = [tools EXCEPT ![t] = "running"]
    /\ callArgs' = IF args THEN callArgs \cup {t} ELSE callArgs
    /\ Emit(<<Assistant(<<ToolUse(t)>>)>>)
    /\ UNCHANGED <<said, results, streamed, acpClosed>>

(* Every update of a call is passed on as its result: the one of a call    *)
(* still in progress as well.                                              *)
ToolCallUpdate(t, status) ==
    /\ Wire
    /\ tools[t] = "running"
    /\ tools' = [tools EXCEPT ![t] = CASE status = "completed" -> "ok"
                                       [] status = "failed" -> "error"
                                       [] OTHER -> "running"]
    /\ callArgs' = IF status = "in_progress" THEN callArgs \cup {t} ELSE callArgs \ {t}
    /\ Emit(<<ToolResult(t, IF status = "failed" THEN "error" ELSE "ok")>>)
    /\ UNCHANGED <<said, results, streamed, acpClosed>>

(* plan: the entries as they stand now; an empty list is not passed on.    *)
HandlePlan(entries) ==
    /\ Wire
    /\ Emit(IF entries = <<>> THEN <<>> ELSE <<Plan(entries)>>)
    /\ UNCHANGED <<said, tools, results, acpVars>>

(* A permission is asked for a tool call, named by its streamed arguments  *)
(* (kimi) or its title; without one the runner answers.                    *)
RequestPermission(id, t) ==
    /\ Wire
    /\ acpClosed' = acpClosed \cup {id}
    /\ Emit(IF t = NoItem THEN <<>>
            ELSE <<Requested(id, View("command", IF agent = "kimi" /\ t \in callArgs THEN <<t>> ELSE <<>>))>>)
    /\ UNCHANGED <<said, tools, results, streamed, callArgs>>

(* kimi asks a question, as an elicitation or as a permission.             *)
RequestQuestion(id, parses) ==
    /\ agent = "kimi"
    /\ Wire
    /\ acpClosed' = acpClosed \cup {id}
    /\ Emit(IF parses THEN <<Requested(id, View("question", <<>>))>> ELSE <<>>)
    /\ UNCHANGED <<said, tools, results, streamed, callArgs>>

(* The answer to the prompt, or its failure, is the result of the turn.    *)
PromptResponse(stopReason) ==
    LET subtype == CASE stopReason = "end_turn" -> "success"
                     [] stopReason = "cancelled" -> "interrupted"
                     [] OTHER -> "error"
    IN  /\ Wire
        /\ acpClosed' = acpClosed \cup AcpRequest \cup {Message}
        /\ Emit(<<ResultOf(subtype)>>)
        /\ Gives(subtype)
        /\ UNCHANGED <<said, tools, streamed, callArgs>>

AcpNext ==
    /\ Message \notin acpClosed
    /\ \/ AgentMessageChunk
       \/ AgentThoughtChunk
       \/ \E t \in Tool, args \in BOOLEAN : ToolCall(t, args)
       \/ \E t \in Tool, status \in {"in_progress", "completed", "failed"} : ToolCallUpdate(t, status)
       \/ \E entries \in {<<>>, <<Chunk>>} : HandlePlan(entries)
       \/ \E id \in AcpRequest \ acpClosed :
            \/ \E t \in Tool \cup {NoItem} : RequestPermission(id, t)
            \/ \E parses \in BOOLEAN : RequestQuestion(id, parses)
       \/ \E stopReason \in {"end_turn", "cancelled", "max_tokens", "failed"} : PromptResponse(stopReason)
=============================================================================
