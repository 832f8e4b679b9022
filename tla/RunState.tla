------------------------------ MODULE RunState -------------------------------
(***************************************************************************)
(* The state of a run's card (card/run-state.ts) and how the events of the *)
(* agent reduce it: blocks of text, thinking, tools, plans and file        *)
(* changes, the newest MaxBlocks of them, the result, the approvals and    *)
(* the terminal.                                                           *)
(*                                                                         *)
(* A text is the sequence of its chunks, a chunk stands for many           *)
(* characters; a body keeps the tail of a text behind a mark that tells    *)
(* how much was cut, and the mark takes the room of a chunk.  Times,       *)
(* footer, notices, titles and figures are left out, and so is what a tool *)
(* was given and what it wrote.                                            *)
(***************************************************************************)
EXTENDS Naturals, Sequences, SequencesExt, FiniteSetsExt

CONSTANTS
    MaxBlocks,  \* MAX_BLOCKS
    MaxText     \* MAX_TEXT_CHARS and MAX_REASONING_CHARS, in chunks

ASSUME RunStateAssumption ==
    /\ MaxBlocks \in Nat \ {0}
    /\ MaxText \in Nat \ {0, 1}

NoItem == "no item"
KeepTail(s, n) == SubSeq(s, Len(s) - n + 1, Len(s))
Body(text) == [mark |-> 0, text |-> text]

(* keepTailMarked: the mark counts the chunks cut this time.               *)
KeepTailMarked(b) ==
    LET width == Len(b.text) + (IF b.mark > 0 THEN 1 ELSE 0) IN
    IF width <= MaxText THEN b
    ELSE [mark |-> width - (MaxText - 1), text |-> KeepTail(b.text, MaxText - 1)]

InitialRun ==
    [terminal |-> "running", init |-> FALSE, blocks |-> <<>>, omitted |-> 0, plan |-> Body(<<>>),
     subtype |-> "none", error |-> FALSE, approvals |-> <<>>, expired |-> FALSE, reason |-> "none"]

IsOver(s) == s.terminal \notin {"running", "finalizing"}

(* keepLatestBlocks, and the count of the blocks it drops.                 *)
KeepLatestBlocks(s, bs) ==
    [s EXCEPT !.blocks = IF Len(bs) <= MaxBlocks THEN bs ELSE KeepTail(bs, MaxBlocks),
              !.omitted = IF Len(bs) <= MaxBlocks THEN @ ELSE @ + (Len(bs) - MaxBlocks)]

MarkThinkingInactive(bs) ==
    [i \in DOMAIN bs |-> IF bs[i].kind = "thinking" THEN [bs[i] EXCEPT !.status = "done"] ELSE bs[i]]

(* The last block of the item is replaced and, while it is streamed, moved *)
(* to the end; at first sight the block is appended.  The files of one     *)
(* item are blocks of their own.                                           *)
UpsertSnapshotBlock(bs, b, complete) ==
    LET same == {i \in DOMAIN bs : /\ bs[i].kind = b.kind /\ bs[i].item = b.item
                                   /\ b.kind = "file" => bs[i].body = b.body}
        i == Max(same)
        new == IF complete \/ b.kind \notin {"text", "tool"} THEN b ELSE [b EXCEPT !.status = bs[i].status]
    IN  IF same = {} THEN Append(bs, b)
        ELSE IF complete \/ i = Len(bs) THEN ReplaceAt(bs, i, new)
        ELSE Append(RemoveAt(bs, i), new)

(* reduceTurnDiffEvent: one part of an item, the whole of it so far.       *)
ReduceTurnDiff(s, ev) ==
    LET status == IF ev.complete THEN ev.status ELSE "live"
        block(body) == [kind |-> ev.part, item |-> ev.item, body |-> body, status |-> status]
        kept == KeepTailMarked(Body(ev.text))
    IN  CASE ev.part = "file" ->
               KeepLatestBlocks(s, FoldLeft(LAMBDA bs, f :
                   UpsertSnapshotBlock(bs, block(Body(<<f>>)), ev.complete), s.blocks, ev.text))
          [] ev.part = "tool" ->
               KeepLatestBlocks(s, UpsertSnapshotBlock(s.blocks, block(Body(<<>>)), ev.complete))
          [] ev.part = "text" ->
               KeepLatestBlocks(s, UpsertSnapshotBlock(MarkThinkingInactive(s.blocks), block(kept), ev.complete))
          [] ev.part = "thinking" ->
               KeepLatestBlocks(s, UpsertSnapshotBlock(s.blocks, block(kept), ev.complete))
          [] ev.part = "plan" ->
               KeepLatestBlocks([s EXCEPT !.plan = kept],
                                UpsertSnapshotBlock(s.blocks, block(kept), ev.complete))

(* The init of the agent opens the run to results.                         *)
ReduceSystem(s, ev) == [s EXCEPT !.init = TRUE]

(* Mutant of ReduceResult: the last result is the one that counts.         *)
ReduceResultLast(s, ev) ==
    IF ~ s.init THEN s
    ELSE [s EXCEPT !.terminal = "finalizing", !.subtype = ev.subtype, !.error = ev.subtype = "error"]

(* reduceResultEvent: a result before the init is of an earlier turn; the  *)
(* worst of several counts.                                                *)
ReduceResult(s, ev) ==
    IF ~ s.init THEN s
    ELSE [s EXCEPT !.terminal = "finalizing",
                   !.blocks = MarkThinkingInactive(@),
                   !.subtype = IF "error" \in {@, ev.subtype} THEN "error"
                               ELSE IF "interrupted" \in {@, ev.subtype} THEN "interrupted"
                               ELSE "success",
                   !.error = @ \/ ev.subtype = "error"]

(* One content block of an assistant event: a delta joins the last block,  *)
(* if it is of its kind; a tool is a block of its own.                     *)
ReduceContent(s, c) ==
    LET bs == IF c.kind = "thinking" THEN s.blocks ELSE MarkThinkingInactive(s.blocks)
        joins == bs # <<>> /\ Last(bs).kind = c.kind
        before == IF joins THEN Last(bs).body ELSE Body(<<>>)
        body == KeepTailMarked([before EXCEPT !.text = @ \o c.text])
    IN  IF c.kind = "tool"
        THEN KeepLatestBlocks(s, Append(bs, [kind |-> "tool", item |-> c.item, body |-> Body(<<>>), status |-> "live"]))
        ELSE KeepLatestBlocks(s, Append(IF joins THEN Front(bs) ELSE bs,
                 [kind |-> c.kind, item |-> NoItem, body |-> body, status |-> "live"]))

ReduceAssistant(s, ev) == FoldLeft(ReduceContent, s, ev.content)

(* reduceToolResultEvent: the first block of the tool takes its outcome.   *)
ReduceToolResult(s, ev) ==
    LET here == {i \in DOMAIN s.blocks : s.blocks[i].kind = "tool" /\ s.blocks[i].item = ev.item} IN
    IF here = {} THEN s ELSE [s EXCEPT !.blocks[Min(here)].status = ev.status]

(* reducePlanEvent: the plan is added to the plan so far, in one block.    *)
ReducePlan(s, ev) ==
    LET plan == KeepTailMarked([s.plan EXCEPT !.text = @ \o ev.text]) IN
    KeepLatestBlocks([s EXCEPT !.plan = plan],
        Append(SelectSeq(s.blocks, LAMBDA b : b.kind # "plan"),
               [kind |-> "plan", item |-> NoItem, body |-> plan, status |-> "live"]))

(* The filter of the approvals: those of every request but one.            *)
WithoutRequest(all, id) ==
    FoldLeft(LAMBDA left, a : IF a.id = id THEN left ELSE Append(left, a), <<>>, all)

(* The approvals waiting on the card; that one expired outlives its entry. *)
ReduceApproval(s, ev) ==
    LET all == s.approvals
        set(f(_)) == [s EXCEPT !.approvals = [i \in DOMAIN all |-> IF all[i].id = ev.id THEN f(all[i]) ELSE all[i]]]
        new == [id |-> ev.id, view |-> ev.view, expired |-> FALSE]
    IN  CASE ev.type = "approval_requested" ->
               IF \E i \in DOMAIN all : all[i].id = ev.id THEN set(LAMBDA a : new)
               ELSE [s EXCEPT !.approvals = Append(all, new)]
          [] ev.type = "approval_resolved" ->
               [s EXCEPT !.approvals = WithoutRequest(all, ev.id)]
          [] ev.type = "approval_view_updated" -> set(LAMBDA a : [a EXCEPT !.view = ev.view])
          [] ev.type = "approval_expired" ->
               [set(LAMBDA a : [a EXCEPT !.expired = TRUE]) EXCEPT !.expired = TRUE]

(* reduceRunState: a run that is over takes no event.                      *)
ReduceRunState(s, ev) ==
    IF IsOver(s) THEN s
    ELSE CASE ev.type = "turn_diff" -> ReduceTurnDiff(s, ev)
           [] ev.type = "system" -> ReduceSystem(s, ev)
           [] ev.type = "result" -> ReduceResult(s, ev)
           [] ev.type = "assistant" -> ReduceAssistant(s, ev)
           [] ev.type = "user" -> ReduceToolResult(s, ev)
           [] ev.type = "plan" -> ReducePlan(s, ev)
           [] OTHER -> ReduceApproval(s, ev)

(* finishRun: the first terminal stays, and takes what else is told of it; *)
(* an interruption without a reason is put down to the approval that       *)
(* expired.                                                                *)
FinishRun(s, terminal, reason, error) ==
    IF IsOver(s) THEN [s EXCEPT !.error = @ \/ error, !.reason = IF reason # "none" THEN reason ELSE @]
    ELSE [s EXCEPT !.terminal = terminal,
                   !.blocks = MarkThinkingInactive(@),
                   !.error = @ \/ error,
                   !.reason = IF reason # "none" THEN reason
                              ELSE IF terminal = "interrupted" /\ s.expired THEN "approval_timeout"
                              ELSE "none"]

(* The line renderRunCard writes for an interrupted run: an approval that  *)
(* expired counts before any other reason.                                 *)
InterruptionShown(s) ==
    IF \/ s.reason = "approval_timeout"
       \/ s.expired
       \/ \E i \in DOMAIN s.approvals : s.approvals[i].expired
    THEN "approval_timeout" ELSE "user_stop"
=============================================================================
