--------------------------- MODULE CodexTranslator ---------------------------
(***************************************************************************)
(* The translator of the codex app-server                                  *)
(* (runner/codex/app-server/translator.ts): notifications and requests of  *)
(* the server, scoped to the items of a turn, become snapshots of those    *)
(* items.  A delta adds a chunk to its item, a completed item brings the   *)
(* text the server holds for it.                                           *)
(***************************************************************************)
EXTENDS AgentWire

CONSTANTS
    Command,  \* the tools that are commands; the others have no output
    Request   \* requests of the server for an approval

ASSUME CodexAssumption == NoItem \notin Request

Thought == "thought"    \* an item of reasoning
PlanItem == "plan item"
FileItem == "file item" \* a change of files
Files == {<<>>, <<"a", "b">>}
Words == 0                \* a chunk of a thought or a plan: only how many there are matters

VARIABLES
    textByItem,          \* also of the plan item
    reasoningByItem,     \* [content : by index, summary]
    toolOutputByItem,    \* the commands that wrote something
    startedToolItems,
    fileChangeItems,     \* the entry of the file item: <<>> before it starts, <<its files>>
    pendingFileApprovalByItemId,
    blank,               \* of the wire: the file item came with an empty list
    closed               \* of the wire: what it will say no more about

codexVars == <<textByItem, reasoningByItem, toolOutputByItem, startedToolItems, fileChangeItems,
               pendingFileApprovalByItemId, blank, closed>>
toolVars == <<toolOutputByItem, startedToolItems>>
fileVars == <<fileChangeItems, pendingFileApprovalByItemId, blank>>
textVars == <<textByItem, reasoningByItem>>

NoReasoning == [content |-> [i \in {0, 1} |-> <<>>], summary |-> <<>>]

CodexInit ==
    /\ textByItem = [i \in Stream \cup {PlanItem} |-> <<>>]
    /\ reasoningByItem = NoReasoning
    /\ toolOutputByItem = {}
    /\ startedToolItems = {}
    /\ fileChangeItems = <<>>
    /\ pendingFileApprovalByItemId = NoItem
    /\ blank = FALSE
    /\ closed = {}

-----------------------------------------------------------------------------
(* Texts.                                                                  *)

(* A turn starts with nothing of an earlier one.                           *)
TurnStarted ==
    /\ Wire /\ clock = 0
    /\ textByItem' = [i \in Stream \cup {PlanItem} |-> <<>>]
    /\ reasoningByItem' = NoReasoning
    /\ toolOutputByItem' = {} /\ startedToolItems' = {}
    /\ fileChangeItems' = <<>> /\ pendingFileApprovalByItemId' = NoItem /\ blank' = FALSE
    /\ UNCHANGED <<card, said, tools, results, closed>>

AgentMessageDelta(m) ==
    /\ Wire
    /\ textByItem' = [textByItem EXCEPT ![m] = Append(@, Chunk)]
    /\ Says(m, textByItem'[m])
    /\ Emit(<<TurnDiff("text", m, textByItem'[m], FALSE)>>)
    /\ UNCHANGED <<tools, results, reasoningByItem, toolVars, fileVars, closed>>

(* The text of the completed item counts; an empty one leaves what was     *)
(* streamed.                                                               *)
AgentMessageCompleted(m, text) ==
    LET final == IF text # <<>> THEN text ELSE textByItem[m] IN
    /\ Wire
    /\ closed' = closed \cup {m}
    /\ textByItem' = [textByItem EXCEPT ![m] = final]
    /\ Says(m, final)
    /\ Emit(IF final = <<>> THEN <<>> ELSE <<TurnDiff("text", m, final, TRUE)>>)
    /\ UNCHANGED <<tools, results, reasoningByItem, toolVars, fileVars>>

(* reasoningSnapshotFor: the paragraphs in order, then the summary.        *)
ReasoningSnapshot(r) == r.content[0] \o r.content[1] \o r.summary

ReasoningDelta(i) ==
    /\ Wire
    /\ reasoningByItem' = [reasoningByItem EXCEPT !.content[i] = Append(@, Words)]
    /\ Emit(<<TurnDiff("thinking", Thought, ReasoningSnapshot(reasoningByItem'), FALSE)>>)
    /\ UNCHANGED <<said, tools, results, textByItem, toolVars, fileVars, closed>>

ReasoningSummaryDelta ==
    /\ Wire
    /\ reasoningByItem' = [reasoningByItem EXCEPT !.summary = Append(@, Words)]
    /\ Emit(<<TurnDiff("thinking", Thought, ReasoningSnapshot(reasoningByItem'), FALSE)>>)
    /\ UNCHANGED <<said, tools, results, textByItem, toolVars, fileVars, closed>>

(* The item brings its paragraphs and summary; one without any completes   *)
(* nothing.                                                                *)
ReasoningCompleted(summary) ==
    /\ Wire
    /\ closed' = closed \cup {Thought}
    /\ IF summary = <<>> THEN UNCHANGED <<card, reasoningByItem>>
       ELSE /\ reasoningByItem' = [NoReasoning EXCEPT !.summary = summary]
            /\ Emit(<<TurnDiff("thinking", Thought, summary, TRUE)>>)
    /\ UNCHANGED <<said, tools, results, textByItem, toolVars, fileVars>>

PlanDelta ==
    /\ Wire
    /\ textByItem' = [textByItem EXCEPT ![PlanItem] = Append(@, Words)]
    /\ Emit(<<TurnDiff("plan", PlanItem, textByItem'[PlanItem], FALSE)>>)
    /\ UNCHANGED <<said, tools, results, reasoningByItem, toolVars, fileVars, closed>>

PlanCompleted(text) ==
    /\ Wire
    /\ closed' = closed \cup {PlanItem}
    /\ IF text = <<>> THEN UNCHANGED <<card, textByItem>>
       ELSE /\ textByItem' = [textByItem EXCEPT ![PlanItem] = text]
            /\ Emit(<<TurnDiff("plan", PlanItem, text, TRUE)>>)
    /\ UNCHANGED <<said, tools, results, reasoningByItem, toolVars, fileVars>>

(* turn/plan/updated: the list of the steps as it stands now.              *)
TurnPlanUpdated ==
    /\ Wire
    /\ Emit(<<Plan(<<Words>>)>>)
    /\ UNCHANGED <<said, tools, results, codexVars>>

-----------------------------------------------------------------------------
(* Tools and files.                                                        *)

(* The block of the tool is placed when it starts, not at its first output. *)
ToolStarted(t) ==
    /\ Wire
    /\ tools[t] = "new"
    /\ tools' = [tools EXCEPT ![t] = "running"]
    /\ startedToolItems' = startedToolItems \cup {t}
    /\ Emit(<<ToolDiff(t, FALSE, "live")>>)
    /\ UNCHANGED <<said, results, textVars, toolOutputByItem, fileVars, closed>>

CommandOutputDelta(t) ==
    /\ Wire
    /\ tools[t] = "running"
    /\ toolOutputByItem' = toolOutputByItem \cup {t}
    /\ Emit(<<ToolDiff(t, FALSE, "live")>>)
    /\ UNCHANGED <<said, tools, results, textVars, startedToolItems, fileVars, closed>>

(* A command that never started and wrote nothing, such as one declined,   *)
(* is not shown.                                                           *)
CommandCompleted(t, outcome, wrote) ==
    /\ Wire
    /\ tools[t] \in {"new", "running"}
    /\ tools' = [tools EXCEPT ![t] = outcome]
    /\ toolOutputByItem' = IF wrote THEN toolOutputByItem \cup {t} ELSE toolOutputByItem
    /\ Emit(IF t \in startedToolItems \/ t \in toolOutputByItem' THEN <<ToolDiff(t, TRUE, outcome)>> ELSE <<>>)
    /\ UNCHANGED <<said, results, textVars, startedToolItems, fileVars, closed>>

(* Every other tool is completed without its status.                       *)
ToolCompleted(t, outcome) ==
    /\ Wire
    /\ tools[t] = "running"
    /\ tools' = [tools EXCEPT ![t] = outcome]
    /\ startedToolItems' = startedToolItems \ {t}
    /\ Emit(IF t \in startedToolItems THEN <<ToolDiff(t, TRUE, "ok")>> ELSE <<>>)
    /\ UNCHANGED <<said, results, textVars, toolOutputByItem, fileVars, closed>>

KnownFiles == IF fileChangeItems = <<>> THEN <<>> ELSE Head(fileChangeItems)

(* The file item comes with its changes, or completes with them.           *)
FileItemBrings(files) ==
    /\ fileChangeItems' = <<files>>
    /\ blank' = (blank \/ files = <<>>)

(* Mutant of FileChangeStarted: an approval that came first stays blank.   *)
FileChangeStartedAlone(files) ==
    /\ Wire
    /\ fileChangeItems = <<>>
    /\ FileItemBrings(files)
    /\ Emit(<<TurnDiff("file", FileItem, files, FALSE)>>)
    /\ UNCHANGED <<said, tools, results, textVars, toolVars, pendingFileApprovalByItemId, closed>>

(* An approval that came before its item is told what it is about, once:   *)
(* it is no longer waited for, even if the item comes with an empty list.  *)
FileChangeStarted(files) ==
    LET id == pendingFileApprovalByItemId
        told == IF id = NoItem \/ files = <<>> THEN <<>>
                ELSE <<[type |-> "approval_view_updated", id |-> id, view |-> View("file", files)]>>
    IN  /\ Wire
        /\ fileChangeItems = <<>>
        /\ FileItemBrings(files)
        /\ pendingFileApprovalByItemId' = NoItem
        /\ Emit(Append(told, TurnDiff("file", FileItem, files, FALSE)))
        /\ UNCHANGED <<said, tools, results, textVars, toolVars, closed>>

FileChangeCompleted(files) ==
    /\ Wire
    /\ closed' = closed \cup {FileItem}
    /\ FileItemBrings(files)
    /\ Emit(<<TurnDiff("file", FileItem, files, TRUE)>>)
    /\ UNCHANGED <<said, tools, results, textVars, toolVars, pendingFileApprovalByItemId>>

-----------------------------------------------------------------------------
(* Approvals, and the results of the turn.                                 *)

FileApproval(id) ==
    /\ Wire
    /\ closed' = closed \cup {id}
    /\ Emit(<<Requested(id, View("file", KnownFiles))>>)
    /\ pendingFileApprovalByItemId' = IF fileChangeItems = <<>> THEN id ELSE pendingFileApprovalByItemId
    /\ UNCHANGED <<said, tools, results, textVars, toolVars, fileChangeItems, blank>>

(* Commands, permissions and questions carry what they are about.          *)
OtherApproval(id) ==
    /\ Wire
    /\ closed' = closed \cup {id}
    /\ Emit(<<Requested(id, View("other", <<>>))>>)
    /\ UNCHANGED <<said, tools, results, textVars, toolVars, fileVars>>

ServerRequestResolved(id) ==
    /\ Wire
    /\ Emit(<<[type |-> "approval_resolved", id |-> id]>>)
    /\ UNCHANGED <<said, tools, results, codexVars>>

(* turn/completed: a text that is not the one streamed so far is shown,    *)
(* and the turn has its result.  Nothing of the turn comes after it.       *)
TurnCompleted(status, m) ==
    LET final == IF m \in Stream \ closed THEN Append(textByItem[m], Chunk) ELSE <<>> IN
    /\ Wire
    /\ closed' = closed \cup Stream \cup Request \cup {Thought, PlanItem, FileItem, Message}
    /\ IF final = <<>>
       THEN /\ Emit(<<ResultOf(status)>>)
            /\ UNCHANGED <<textByItem, said>>
       ELSE /\ Emit(<<TurnDiff("text", m, final, TRUE), ResultOf(status)>>)
            /\ textByItem' = [textByItem EXCEPT ![m] = final]
            /\ Says(m, final)
    /\ Gives(status)
    /\ UNCHANGED <<tools, reasoningByItem, toolVars, fileVars>>

(* An error the server will not retry; one it will is only logged.         *)
ServerError ==
    /\ Wire
    /\ Emit(<<ResultOf("error")>>)
    /\ Gives("error")
    /\ UNCHANGED <<said, tools, codexVars>>

ThreadCompacted ==
    /\ Wire
    /\ Emit(<<ResultOf("success")>>)
    /\ Gives("success")
    /\ UNCHANGED <<said, tools, codexVars>>

-----------------------------------------------------------------------------
CodexTexts ==
    \/ TurnStarted
    \/ \E m \in Stream \ closed :
        \/ AgentMessageDelta(m)
        \/ \E text \in {<<>>, textByItem[m], Append(textByItem[m], Chunk)} : AgentMessageCompleted(m, text)
    \/ Thought \notin closed /\ (ReasoningSummaryDelta \/ \E i \in {0, 1} : ReasoningDelta(i))
    \/ Thought \notin closed /\ \E summary \in {<<>>, <<Words>>} : ReasoningCompleted(summary)
    \/ PlanItem \notin closed /\ (PlanDelta \/ \E text \in {<<>>, <<Words>>} : PlanCompleted(text))
    \/ Message \notin closed /\ TurnPlanUpdated

CodexItems ==
    /\ Message \notin closed
    /\ \/ \E t \in Tool : ToolStarted(t)
       \/ \E t \in Command : CommandOutputDelta(t)
       \/ \E t \in Command, outcome \in {"ok", "error"}, wrote \in BOOLEAN : CommandCompleted(t, outcome, wrote)
       \/ \E t \in Tool \ Command, outcome \in {"ok", "error"} : ToolCompleted(t, outcome)
       \/ \E files \in Files : FileChangeStarted(files)
       \/ FileItem \notin closed /\ fileChangeItems # <<>> /\ \E files \in Files : FileChangeCompleted(files)

(* The server asks once for the changes of an item.                        *)
CodexTurn ==
    /\ Message \notin closed
    /\ \/ \E id \in Request \ closed :
           \/ (\A i \in DOMAIN card.approvals : card.approvals[i].view.kind # "file") /\ FileApproval(id)
           \/ OtherApproval(id)
       \/ \E id \in Request \cap closed : ServerRequestResolved(id)
       \/ \E status \in {"success", "error", "interrupted"}, m \in Stream \cup {NoItem} : TurnCompleted(status, m)
       \/ ServerError
       \/ ThreadCompacted

CodexNext == CodexTexts \/ CodexItems \/ CodexTurn

(* An approval of a change of files names the files once they are known,   *)
(* in whichever order the request and the item arrive.  One that waits for *)
(* an item which comes with an empty list is never told: the files of a    *)
(* later list are not added.                                               *)
ApprovalNamesItsFiles ==
    \A i \in DOMAIN card.approvals :
        card.approvals[i].view.kind = "file" /\ fileChangeItems # <<>>
            => IsOver(card) \/ blank \/ card.approvals[i].view.about # <<>>
=============================================================================
