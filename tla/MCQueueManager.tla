--------------------------- MODULE MCQueueManager ---------------------------
(***************************************************************************)
(* Instances of QueueManager for TLC.                                      *)
(***************************************************************************)
EXTENDS QueueManager, TLC

CONSTANTS w1, w2, m1, m2, m3, m4, k

MCOneLane == {w1}
MCTwoLanes == {w1, w2}
MCMessages == {m1, m2, m3, m4}
MCThreeMessages == {m1, m2, m3}
\* The messages only name tasks: any two of them can be exchanged.
MCSymmetry == Permutations(MCMessages) \cup Permutations(MCTwoLanes)
=============================================================================
