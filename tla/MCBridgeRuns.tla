---------------------------- MODULE MCBridgeRuns ----------------------------
(***************************************************************************)
(* The instances of BridgeRuns for TLC.  Runs has two parts: one workspace *)
(* for two agents, and two workspaces over a cache of one, where users     *)
(* change directory and no stop follows a change of the configuration.     *)
(* Messages come in the order of their names and the first goes to w1,     *)
(* which loses nothing: they differ in nothing else, nor do the workspaces.*)
(***************************************************************************)
EXTENDS BridgeRuns, TLC

CONSTANTS w1, w2, m1, m2, m3, claude, codex

VARIABLE part

MCTwoLanes == {w1, w2}
MCMessages == {m1, m2, m3}
MCKinds == {claude, codex}
MCConnections == {codex}
MCSecond == {2}
MCName == <<m1, m2, m3>>

Init ==
    /\ BridgeInit
    /\ part \in {"one", "lanes"}
    /\ part = "lanes" => \A s \in Slot : agentKind[s] = codex

Next ==
    /\ BridgeNext
    /\ \A s \in Slot : taskMsg'[s] \in {NoMessage, MCName[s]}
    /\ part = "one" => chain'[w2] = {} /\ moved' = {}
    /\ part = "lanes" => (windows' = {} \/ configVersion' = 0) /\ 1 \notin chain'[w2]
    /\ UNCHANGED part

Spec == Init /\ [][Next]_<<vars, part>> /\ BridgeFairness
=============================================================================
