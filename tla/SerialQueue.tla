---------------------------- MODULE SerialQueue ----------------------------
(***************************************************************************)
(* What a bridge promises to the users of its workspaces: the tasks of a   *)
(* workspace run one at a time, in the order they were submitted, and a    *)
(* task that is not cancelled while it waits is eventually started.        *)
(***************************************************************************)
EXTENDS Integers, FiniteSets

CONSTANTS
    Workspace,   \* the lanes
    MaxWaiting,  \* the most tasks that may wait in one lane
    MaxSlot,     \* bound: tasks submitted in one behaviour
    NoTask       \* the lane is idle

VARIABLES
    submitted,   \* tasks submitted so far; a task is its number
    waiting,     \* [Workspace -> the tasks that wait]
    running      \* [Workspace -> the task that runs, or NoTask]

vars == <<submitted, waiting, running>>

Init ==
    /\ submitted = 0
    /\ waiting = [w \in Workspace |-> {}]
    /\ running = [w \in Workspace |-> NoTask]

Submit(w) ==
    /\ submitted < MaxSlot
    /\ Cardinality(waiting[w]) < MaxWaiting
    /\ submitted' = submitted + 1
    /\ waiting' = [waiting EXCEPT ![w] = @ \cup {submitted + 1}]
    /\ UNCHANGED running

Refuse(w) ==
    /\ submitted < MaxSlot
    /\ Cardinality(waiting[w]) >= MaxWaiting
    /\ submitted' = submitted + 1
    /\ UNCHANGED <<waiting, running>>

Cancel(w, s) ==
    /\ s \in waiting[w]
    /\ waiting' = [waiting EXCEPT ![w] = @ \ {s}]
    /\ UNCHANGED <<submitted, running>>

Start(w, s) ==
    /\ running[w] = NoTask
    /\ s \in waiting[w]
    /\ \A t \in waiting[w] : s <= t
    /\ waiting' = [waiting EXCEPT ![w] = @ \ {s}]
    /\ running' = [running EXCEPT ![w] = s]
    /\ UNCHANGED submitted

Finish(w) ==
    /\ running[w] # NoTask
    /\ running' = [running EXCEPT ![w] = NoTask]
    /\ UNCHANGED <<submitted, waiting>>

Next ==
    \E w \in Workspace :
       \/ Submit(w) \/ Refuse(w) \/ Finish(w)
       \/ \E s \in 1 .. MaxSlot : Cancel(w, s) \/ Start(w, s)

Spec == Init /\ [][Next]_vars

Fairness ==
    \A w \in Workspace :
       WF_vars(Finish(w)) /\ WF_vars(\E s \in 1 .. MaxSlot : Start(w, s))

FairSpec == Spec /\ Fairness
=============================================================================
