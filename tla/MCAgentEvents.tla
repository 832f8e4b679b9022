---------------------------- MODULE MCAgentEvents ----------------------------
(* Every agent in turn.  pi takes five messages to say one thing.          *)
EXTENDS AgentEvents

MCMaxSaid == [a \in Agents |-> IF a = "pi" THEN 7 ELSE IF a = "opencode" THEN 5 ELSE 4]
MessageItems == Permutations(Stream)
=============================================================================
