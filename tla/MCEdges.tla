-------------------------------- MODULE MCEdges --------------------------------
(***************************************************************************)
(* The edges of the bridge, one part in each behaviour: the turns that     *)
(* come in, the streaming card that goes out, the lock of the instance,    *)
(* the pointers to the sessions, and the handoff after a full context.     *)
(* Their variables have nothing in common; the parts that do not take part *)
(* stay in one of their initial states.                                    *)
(***************************************************************************)
EXTENDS TurnAssembler, CardStream, InstanceLock, SessionPointers, RecoveryHandoff

VARIABLE part
edgeVars == <<part, turnVars, streamVars, lockVars, pointerVars, recoveryVars>>

Init ==
    /\ part \in {"turns", "stream", "lock", "sessions", "recovery"}
    /\ TurnInit /\ StreamInit /\ LockInit /\ PointerInit /\ RecoveryInit
    /\ part = "stream" \/ kind = "run"
    /\ \/ part = "sessions"
       \/ /\ store.cwd = CHOOSE d \in Dirs : TRUE
          /\ defaultAgent = CHOOSE a \in Agents : TRUE
    /\ part = "recovery" \/ pointer = NoSession

Next ==
    \/ /\ part = "turns"
       /\ TurnNext
       /\ UNCHANGED <<part, streamVars, lockVars, pointerVars, recoveryVars>>
    \/ /\ part = "stream"
       /\ StreamNext
       /\ UNCHANGED <<part, turnVars, lockVars, pointerVars, recoveryVars>>
    \/ /\ part = "lock"
       /\ LockNext
       /\ UNCHANGED <<part, turnVars, streamVars, pointerVars, recoveryVars>>
    \/ /\ part = "sessions"
       /\ PointerNext
       /\ UNCHANGED <<part, turnVars, streamVars, lockVars, recoveryVars>>
    \/ /\ part = "recovery"
       /\ RecoveryNext
       /\ UNCHANGED <<part, turnVars, streamVars, lockVars, pointerVars>>

(* The fairness of the turns; the other parts promise safety only.         *)
Spec == Init /\ [][Next]_edgeVars /\ TurnFairness
================================================================================
