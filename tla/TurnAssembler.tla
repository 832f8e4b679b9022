--------------------------- MODULE TurnAssembler ---------------------------
(***************************************************************************)
(* The assembler of inbound turns (inbound/turn-assembler.ts): the events  *)
(* of one user in one chat (a bucket; buckets share nothing) are collected *)
(* until a quiet window has passed and every download has settled, then    *)
(* committed as one turn.  A turn with text goes to the agent; one without *)
(* (attachments or rejected items alone) is answered with a receipt and    *)
(* forgotten.  A command flushes the bucket before it runs, an exit        *)
(* flushes it before the process ends; both may have to wait for downloads *)
(* while new events arrive.                                                *)
(*                                                                         *)
(* Events are numbered in the order of their arrival.  What a download     *)
(* yields (a saved attachment, a rejected item) changes the wording of the *)
(* turn or of the receipt: that it settles is what the assembler waits for.*)
(***************************************************************************)
EXTENDS Naturals, Sequences, FiniteSets

CONSTANTS
    MaxEvent,  \* bound: events that arrive
    MaxFlush   \* bound: flushes asked

ASSUME TurnAssumption == {MaxEvent, MaxFlush} \subseteq Nat

Event == 1 .. MaxEvent
FlushId == 1 .. MaxFlush
Flush0 == [status |-> "off", bucket |-> 0, awaits |-> {}, last |-> FALSE]

VARIABLES
    arrived,       \* events that have arrived
    media,         \* those that carry a download
    worded,        \* those that carry text
    inBucket,      \* the events assembled in the open bucket
    bucketNo,      \* buckets opened so far: which one is open
    pending,       \* pendingOutcomes of the open bucket
    settled,       \* downloads that succeeded, failed or timed out
    timerArmed,    \* is the timer of the quiet window running?
    windowElapsed, \* has the window elapsed, or did a flush end it?
    forcedReason,  \* the reason a flush left behind, or "none"
    turns,         \* the turns committed, those without text included
    flushes,       \* [FlushId -> the flush and what it awaits]
    exited         \* has the process exited?

bucketVars == <<inBucket, bucketNo, pending, timerArmed, windowElapsed, forcedReason>>
turnVars == <<arrived, media, worded, settled, bucketVars, turns, flushes, exited>>

TurnInit ==
    /\ arrived = 0
    /\ media = {}
    /\ worded = {}
    /\ settled = {}
    /\ inBucket = {}
    /\ bucketNo = 0
    /\ pending = {}
    /\ timerArmed = FALSE
    /\ windowElapsed = FALSE
    /\ forcedReason = "none"
    /\ turns = <<>>
    /\ flushes = [f \in FlushId |-> Flush0]
    /\ exited = FALSE

Reason == IF forcedReason = "none" THEN "idle" ELSE forcedReason
Committed == UNION {turns[i].events : i \in DOMAIN turns}

\* The turns without text end with a receipt, the others with the agent.
Receipted(i) == turns[i].reason = "no-text"
HandedOver == UNION {turns[i].events : i \in {j \in DOMAIN turns : ~Receipted(j)}}

\* tryCommit: the bucket, with no download pending, becomes a turn.
Commit(reason) ==
    /\ turns' = Append(turns, [events |-> inBucket,
            reason |-> IF inBucket \cap worded = {} THEN "no-text" ELSE reason])
    /\ inBucket' = {}
    /\ pending' = {}
    /\ timerArmed' = FALSE
    /\ windowElapsed' = FALSE
    /\ forcedReason' = "none"
    /\ UNCHANGED bucketNo

-----------------------------------------------------------------------------
(* Arrivals, the window, the downloads                                     *)

\* armTimer: any arrival starts the quiet window anew.
ArmTimer == timerArmed' = TRUE /\ windowElapsed' = FALSE

\* ingest: an event joins the bucket, or opens one.  A rejected item, and a message
\* of placeholders alone, bring neither text nor a download.
Ingest(kind) ==
    /\ arrived < MaxEvent
    /\ arrived' = arrived + 1
    /\ media' = IF kind = "media" THEN media \cup {arrived'} ELSE media
    /\ worded' = IF kind = "text" THEN worded \cup {arrived'} ELSE worded
    /\ bucketNo' = IF inBucket = {} THEN bucketNo + 1 ELSE bucketNo
    /\ inBucket' = inBucket \cup {arrived'}
    /\ pending' = IF kind = "media" THEN pending \cup {arrived'} ELSE pending
    /\ ArmTimer
    /\ UNCHANGED <<forcedReason, settled, turns, flushes>>

\* The window has elapsed: commit, unless a download is pending.
TimerFires ==
    /\ timerArmed
    /\ \/ pending = {} /\ Commit(Reason)
       \/ /\ pending # {}
          /\ timerArmed' = FALSE
          /\ windowElapsed' = TRUE
          /\ UNCHANGED <<inBucket, bucketNo, pending, forcedReason, turns>>
    /\ UNCHANGED <<arrived, media, worded, settled, flushes>>

\* Mutant of DownloadSettles: the last download does not look at the window.
SettlesOnly(e) ==
    /\ e \in pending
    /\ settled' = settled \cup {e}
    /\ pending' = pending \ {e}
    /\ UNCHANGED <<inBucket, bucketNo, timerArmed, windowElapsed, forcedReason, turns>>
    /\ UNCHANGED <<arrived, media, worded, flushes>>

\* A download succeeded, failed or timed out; the last one commits a bucket
\* whose window is over.
DownloadSettles(e) ==
    /\ e \in pending
    /\ settled' = settled \cup {e}
    /\ \/ windowElapsed /\ pending = {e} /\ Commit(Reason)
       \/ /\ ~(windowElapsed /\ pending = {e})
          /\ pending' = pending \ {e}
          /\ UNCHANGED <<inBucket, bucketNo, timerArmed, windowElapsed, forcedReason, turns>>
    /\ UNCHANGED <<arrived, media, worded, flushes>>

-----------------------------------------------------------------------------
(* Flushes                                                                 *)

FlushDone(f, last) ==
    flushes' = [flushes EXCEPT ![f] = [Flush0 EXCEPT !.status = "done", !.last = last]]

FlushWaits(f, last) ==
    /\ windowElapsed' = TRUE
    /\ forcedReason' = "flush"
    /\ flushes' = [flushes EXCEPT ![f] =
            [status |-> "waiting", bucket |-> bucketNo, awaits |-> pending,
             last |-> last]]
    /\ UNCHANGED <<inBucket, bucketNo, pending, timerArmed, turns>>

\* flush(), up to its first await: an empty bucket is left alone, one without
\* downloads is committed at once, the others have to wait.
AskFlush(f, last) ==
    /\ flushes[f].status = "off"
    /\ \/ inBucket = {} /\ FlushDone(f, last) /\ UNCHANGED <<bucketVars, turns>>
       \/ inBucket # {} /\ pending = {} /\ FlushDone(f, last) /\ Commit("flush")
       \/ pending # {} /\ FlushWaits(f, last)
    /\ UNCHANGED <<arrived, media, worded, settled>>

\* A command: its flush is not awaited, the command runs right after it.
FlushCommand(f) == AskFlush(f, FALSE)

\* /exit or /restart: flushAll before the process ends.
ExitAsked(f) ==
    /\ \A g \in FlushId : ~flushes[g].last
    /\ AskFlush(f, TRUE)

\* Mutant of FlushResumes: a bucket committed meanwhile is committed again.
FlushResumesUnchecked(f) ==
    /\ flushes[f].status = "waiting"
    /\ ~(flushes[f].bucket = bucketNo /\ flushes[f].awaits \cap pending # {})
    /\ flushes' = [flushes EXCEPT ![f].status = "done"]
    /\ Commit("flush")
    /\ UNCHANGED <<arrived, media, worded, settled>>

\* The downloads the flush awaited have settled.  A bucket committed meanwhile
\* is done with; with new downloads pending, tryCommit returns at once.
FlushResumes(f) ==
    /\ flushes[f].status = "waiting"
    /\ ~(flushes[f].bucket = bucketNo /\ flushes[f].awaits \cap pending # {})
    /\ flushes' = [flushes EXCEPT ![f].status = "done"]
    /\ \/ /\ flushes[f].bucket = bucketNo
          /\ inBucket # {}
          /\ pending = {}
          /\ Commit("flush")
       \/ /\ flushes[f].bucket # bucketNo \/ inBucket = {} \/ pending # {}
          /\ UNCHANGED <<bucketVars, turns>>
    /\ UNCHANGED <<arrived, media, worded, settled>>

\* exitHandler, once the flush of the exit has returned.
ProcessExits ==
    /\ \E f \in FlushId : flushes[f].last /\ flushes[f].status = "done"
    /\ exited' = TRUE
    /\ UNCHANGED <<arrived, media, worded, settled, bucketVars, turns, flushes>>

-----------------------------------------------------------------------------

TurnNext ==
    /\ ~exited
    /\ \/ \E kind \in {"text", "media", "rejected"} : Ingest(kind) /\ UNCHANGED exited
       \/ TimerFires /\ UNCHANGED exited
       \/ \E e \in Event : DownloadSettles(e) /\ UNCHANGED exited
       \/ \E f \in FlushId : FlushCommand(f) /\ UNCHANGED exited
       \/ \E f \in FlushId : ExitAsked(f) /\ UNCHANGED exited
       \/ \E f \in FlushId : FlushResumes(f) /\ UNCHANGED exited
       \/ ProcessExits

TurnSpec == TurnInit /\ [][TurnNext]_turnVars

\* Timers fire, downloads settle (they carry a timeout), awaited flushes resume.
TurnFairness ==
    /\ WF_turnVars(~exited /\ TimerFires /\ UNCHANGED exited)
    /\ WF_turnVars(~exited /\ UNCHANGED exited /\ \E e \in Event : DownloadSettles(e))
    /\ WF_turnVars(~exited /\ UNCHANGED exited /\ \E f \in FlushId : FlushResumes(f))

-----------------------------------------------------------------------------
(* Properties                                                              *)

\* Every event is in one turn or in the open bucket, and no turn takes an event
\* that arrived before one of an earlier turn: what the user sent is cut into
\* consecutive pieces, whichever of the timer, a download or a flush cuts it.
EachEventInOneTurn ==
    /\ Committed \cup inBucket = 1 .. arrived
    /\ \A i \in DOMAIN turns :
         /\ turns[i].events # {}
         /\ \A e \in turns[i].events :
              /\ \A d \in inBucket : e < d
              /\ \A j \in DOMAIN turns : j > i => \A d \in turns[j].events : e < d

\* A turn is never cut before all of its downloads have settled.
DownloadsAwaited == Committed \cap media \subseteq settled

\* What the user sent is cut once, in order and with its downloads.
TurnsAreWhole == EachEventInOneTurn /\ DownloadsAwaited

\* In the end everything that arrived is dealt with, unless the process exits: an
\* event reaches the agent in a turn, or, if it has no text itself, its bucket ends
\* with a receipt of what was saved and what was rejected (a placeholder whose
\* download comes as an event of its own leaves nothing to tell).  Attachments alone
\* never make the agent work, and text never ends with a receipt.
EveryEventIsAnswered ==
    []<>(exited \/ \A e \in 1 .. arrived : e \in HandedOver \cup (Committed \ worded))
=============================================================================
