----------------------------- MODULE AgentEvents -----------------------------
(***************************************************************************)
(* A run of any agent, from its wire to its card: the translators side by  *)
(* side, one of them at work, over the reducer of the card and the loop of *)
(* the bridge.                                                             *)
(***************************************************************************)
EXTENDS CodexTranslator, AcpTranslator, PlainTranslators

vars == <<wireVars, codexVars, acpVars, plainVars>>

Init ==
    /\ WireInit
    /\ CodexInit
    /\ AcpInit
    /\ PlainInit

Next ==
    \/ agent = "codex" /\ CodexNext /\ UNCHANGED <<acpVars, plainVars>>
    \/ agent \in {"kimi", "opencode"} /\ AcpNext /\ UNCHANGED <<codexVars, plainVars>>
    \/ agent \in {"pi", "dsh", "claude"} /\ PlainNext /\ UNCHANGED <<codexVars, acpVars>>
    \/ (InitArrives \/ RunEnds) /\ UNCHANGED <<codexVars, acpVars, plainVars>>

Spec == Init /\ [][Next]_vars

-----------------------------------------------------------------------------
(* A tool that finished shows how it did, whatever came in between.  The   *)
(* tools of codex that are no commands are completed without their status. *)
FinishedToolTellsOutcome ==
    ~ IsOver(card) =>
        \A i \in DOMAIN card.blocks :
            LET b == card.blocks[i] IN
            /\ b.kind = "tool" /\ tools[b.item] \in {"ok", "error"}
            /\ agent = "codex" => b.item \in Command
            => b.status = tools[b.item]

(* What the card does not show, it counts: the tools that started and are  *)
(* gone from it are at most the blocks it says it left out.                *)
OmissionIsCounted ==
    LET started == {t \in Tool : agent \notin {"codex", "pi"} /\ tools[t] # "new"}
        shown == {card.blocks[i].item : i \in DOMAIN card.blocks}
    IN  ~ IsOver(card) => Cardinality(started \ shown) <= card.omitted

(* What the agent said and did is what the card tells: its texts, how its  *)
(* tools went, and how much of it the card had to leave out.               *)
CardTellsTheAgent ==
    /\ TextIsTold
    /\ FinishedToolTellsOutcome
    /\ OmissionIsCounted

(* The card of a run tells how the run ended, and the first end counts: as *)
(* interrupted if a person stopped it, as timed out if the watchdog did,   *)
(* as an error if the stream threw; if the stream came to its end, as the  *)
(* worst of the results the agent gave for this run - not of one it        *)
(* replayed -, and as an error if it gave none.                            *)
RunTellsItsEnd ==
    /\ endedBy = "user" => card.terminal = "interrupted" /\ card.reason = "user_stop"
    /\ endedBy = "watchdog" => card.terminal = "idle_timeout"
    /\ endedBy = "throw" => card.terminal = "error"
    /\ endedBy = "stream" =>
          card.terminal = IF results = <<>> \/ "error" \in ToSet(results) THEN "error"
                          ELSE IF "interrupted" \in ToSet(results) THEN "interrupted"
                          ELSE "done"

(* An interrupted run shows that an approval of it expired if one did      *)
(* before the run was over, and never else: the mark outlives the request, *)
(* which the agent takes back, and a stop that comes later.                *)
ExpiryIsTheReason ==
    card.terminal = "interrupted" =>
        InterruptionShown(card) = IF lapsed THEN "approval_timeout" ELSE "user_stop"

(* The card tells how the run ended, and why.                              *)
EndIsTold == RunTellsItsEnd /\ ExpiryIsTheReason
==============================================================================
