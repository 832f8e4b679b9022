-------------------------------- MODULE MCLists --------------------------------
(***************************************************************************)
(* The cards of lists and of the configuration and the readers of          *)
(* sessions, one part in each behaviour: their variables have nothing in   *)
(* common, and the parts that do not take part stay in one of their        *)
(* initial states.                                                         *)
(***************************************************************************)
EXTENDS FileCards, OrderCards, WorkspaceCards, ConfigEdits, SessionLog, SessionIndex

VARIABLE part
cardVars == <<fileVars, orderVars, wsVars, configVars>>
readVars == <<logVars, indexVars>>
listVars == <<part, cardVars, readVars>>

MCParent == [p \in Paths |-> IF p \in {"/", "a"} THEN "/" ELSE "a"]
MCOrder == <<"/", "a", "b", "f", "g">>
MCTree == [p \in Paths |-> IF p = "f" THEN "file" ELSE IF p = "g" THEN "big" ELSE "dir"]
MCNames == <<"a", "b">>
MCModels == [p \in {"p", "q"} |-> IF p = "p" THEN <<"m">> ELSE <<"n">>]
MCEfforts == [m \in {"m", "n"} |-> IF m = "m" THEN <<"low", "high">> ELSE <<>>]
MCDirOf == [c \in {"a", "a2", "b"} |-> IF c = "b" THEN "B" ELSE "A"]

Init ==
    /\ part \in {"files", "orders", "workspaces", "config", "log", "index"}
    /\ FileInit /\ OrderInit /\ WsInit /\ ConfigInit /\ LogInit /\ IndexInit
    /\ part = "files" \/ fileCwd = "/"
    /\ part = "workspaces" \/ (clock = 1 /\ runCounts = [agents |-> 0, bash |-> 0])
    /\ part = "config" \/ config.agent = CHOOSE a \in ConfigAgents : TRUE
    /\ part = "log" \/ (kind = "pi" /\ chunkSize = 2 /\ pad = 0)

Next ==
    \/ part = "files" /\ FileNext /\ UNCHANGED <<part, orderVars, wsVars, configVars, readVars>>
    \/ part = "orders" /\ OrderNext /\ UNCHANGED <<part, fileVars, wsVars, configVars, readVars>>
    \/ part = "workspaces" /\ WsNext /\ UNCHANGED <<part, fileVars, orderVars, configVars, readVars>>
    \/ part = "config" /\ ConfigNext /\ UNCHANGED <<part, fileVars, orderVars, wsVars, readVars>>
    \/ part = "log" /\ LogNext /\ UNCHANGED <<part, cardVars, indexVars>>
    \/ part = "index" /\ IndexNext /\ UNCHANGED <<part, cardVars, logVars>>

Spec == Init /\ [][Next]_listVars
================================================================================
