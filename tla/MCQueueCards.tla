---------------------------- MODULE MCQueueCards ----------------------------
(***************************************************************************)
(* The instance of QueueCards for TLC, in two parts: three tasks and two   *)
(* "run now" without edits and failures, and two tasks with them.  A       *)
(* /stop overlaps nothing: it is a "run now" whose target is gone.         *)
(***************************************************************************)
EXTENDS QueueCards, TLC

CONSTANTS w1, m1, m2, m3

VARIABLE part

MCOneLane == {w1}
MCMessages == {m1, m2, m3}
MCSymmetry == Permutations(MCMessages)

Init == CardsInit /\ part \in {"fates", "edits"}

Next ==
    /\ CardsNext
    /\ part = "fates" =>
         /\ blurred' = {} /\ \A m \in Message : cardSend'[m] # "failed"
         /\ \A h \in handlers' : h.target = NoMessage => handlers' = {h}
    /\ part = "edits" => slotCounter' <= 2 /\ Cardinality(handlers') <= 1
    /\ UNCHANGED part

Spec == Init /\ [][Next]_<<vars, part>>
=============================================================================
