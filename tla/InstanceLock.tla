---------------------------- MODULE InstanceLock ----------------------------
(***************************************************************************)
(* The single-instance lock of a configuration directory (instance-lock.ts)*)
(* and the restart that hands it over (restart.ts).  Starts, restarts and  *)
(* exits of the bridge are separate operating-system processes: each file  *)
(* operation of acquire() and release() is a step, and any other process   *)
(* may take a step between two of them.  Processes crash at any point, and *)
(* the system gives the pid of a dead process to a new one, be it another  *)
(* start of the bridge or an unrelated program (a stranger).               *)
(*                                                                         *)
(* The lock file is named by the start that created it: what it holds, once*)
(* written, is the pid of that start.                                      *)
(***************************************************************************)
EXTENDS Naturals, FiniteSets

CONSTANTS
    MaxStart,     \* bound: starts of the bridge in this configuration directory
    MaxPid,       \* bound: process ids of the system
    MaxStarters,  \* starts that are acquiring the lock at one time
    OldMayLinger  \* may the old instance outlive the 20 s its successor waits?

ASSUME LockAssumption ==
    /\ {MaxStart, MaxPid, MaxStarters} \subseteq Nat
    /\ OldMayLinger \in BOOLEAN

\* Starts are numbered in the order in which they happen, pids in the order in
\* which they are first used.
Proc == 1 .. MaxStart
Pid == 1 .. MaxPid
NoProc == 0
NoPid == 0

Acquiring == {"opening", "writing", "looking", "reading", "clearing", "verifying",
              "unlinking", "reopening", "rereading", "reclearing"}
VARIABLES
    stage,      \* [Proc -> Stages]
    pid,        \* [Proc -> its pid, once started]
    waitsFor,   \* [Proc -> the instance a replacement waits for]
    pendingExit,\* running instances that will exit
    again,      \* those of them whose exit runs release() once more
    lockOf,     \* the start that created the file at lockPath, or NoProc
    written,    \* has that start written its pid into it?
    suspect,    \* [Proc -> the pid read in the lock file]
    strangers,  \* pids of unrelated programs
    \* History variables
    crowded,    \* have two starts ever been acquiring at the same time?
    mistaken    \* has an exiting instance ever taken a lock without a pid in
                \* it, most likely one just being written, for a malformed one?

lock == <<lockOf, written>>
exits == <<pendingExit, again>>
lockVars == <<stage, pid, waitsFor, exits, lock, suspect, strangers, crowded, mistaken>>

Alive(p) == stage[p] \notin {"off", "refused", "gone"}
\* readPidAndName: there is no file, a malformed one, or one with a pid.
NoFile == lockOf = NoProc
Empty == lockOf # NoProc /\ ~written
Readable == lockOf # NoProc /\ written
LivePids == {pid[p] : p \in {q \in Proc : Alive(q)}} \cup strangers
FreePids == {i \in Pid \ LivePids : \A j \in Pid : j < i => \E p \in Proc : pid[p] = j}
IsNext(p) == stage[p] = "off" /\ \A q \in Proc : q < p => stage[q] # "off"
Starters == {p \in Proc : stage[p] \in Acquiring}

LockInit ==
    /\ stage = [p \in Proc |-> "off"]
    /\ pid = [p \in Proc |-> NoPid]
    /\ waitsFor = [p \in Proc |-> NoProc]
    /\ pendingExit = {}
    /\ again = {}
    /\ lockOf = NoProc
    /\ written = FALSE
    /\ suspect = [p \in Proc |-> NoPid]
    /\ strangers = {}
    /\ crowded = FALSE
    /\ mistaken = FALSE

Goes(p, s) == stage' = [stage EXCEPT ![p] = s]
TakeNote ==
    /\ crowded' = (crowded \/ \E p, q \in Starters' : p # q)
    /\ mistaken' = (mistaken \/ (/\ Empty
                                /\ \E p \in Proc : /\ stage[p] # "releasing"
                                                   /\ stage'[p] = "releasing"))

-----------------------------------------------------------------------------
(* Starting                                                                *)

\* Someone starts the bridge; the system picks a free pid.
Start(p, i) ==
    /\ IsNext(p)
    /\ i \in FreePids
    /\ Cardinality(Starters) < MaxStarters
    /\ Goes(p, "opening")
    /\ pid' = [pid EXCEPT ![p] = i]
    /\ UNCHANGED <<waitsFor, exits, lock, suspect, strangers>>

\* /restart: the running q spawns p, and will exit once the reply is sent.
RestartInstance(q, p, i) ==
    /\ stage[q] = "running"
    /\ IsNext(p)
    /\ i \in FreePids
    /\ Goes(p, "waiting")
    /\ pid' = [pid EXCEPT ![p] = i]
    /\ waitsFor' = [waitsFor EXCEPT ![p] = q]
    /\ pendingExit' = pendingExit \cup {q}
    /\ UNCHANGED <<again, lock, suspect, strangers>>

\* waitForPreviousInstance: the pid answers no more, or patience is over.
WaitEnds(p) ==
    /\ stage[p] = "waiting"
    /\ \/ pid[waitsFor[p]] \notin LivePids
       \/ ~Alive(waitsFor[p])
       \/ OldMayLinger
    /\ Cardinality(Starters) < MaxStarters
    /\ Goes(p, "opening")
    /\ UNCHANGED <<pid, waitsFor, exits, lock, suspect, strangers>>

Unlinked == lockOf' = NoProc /\ written' = FALSE

-----------------------------------------------------------------------------
(* acquire()                                                               *)

\* openSync(lockPath, 'wx') of the first attempt or of the retry.
Open(p) ==
    /\ stage[p] \in {"opening", "reopening"}
    /\ \/ NoFile /\ lockOf' = p /\ Goes(p, "writing")
       \/ ~NoFile /\ UNCHANGED lockOf
          /\ Goes(p, IF stage[p] = "opening" THEN "looking" ELSE "rereading")
    /\ UNCHANGED written
    /\ UNCHANGED <<pid, waitsFor, exits, suspect, strangers>>

\* writeSync through the open descriptor: a file unlinked meanwhile stays unlinked.
Write(p) ==
    /\ stage[p] = "writing"
    /\ written' = (written \/ lockOf = p)
    /\ Goes(p, "running")
    /\ UNCHANGED <<lockOf, pid, waitsFor, exits, suspect, strangers>>

\* readPidAndName: existsSync.
Look(p) ==
    /\ stage[p] = "looking"
    /\ Goes(p, IF NoFile THEN "unlinking" ELSE "reading")
    /\ UNCHANGED <<pid, waitsFor, exits, lock, suspect, strangers>>

\* readFileSync and, for a well-formed file, isPidAlive.  A file that is gone
\* by now throws out of acquire() and ends the start.
Read(p) ==
    /\ stage[p] = "reading"
    /\ \/ NoFile /\ Goes(p, "refused") /\ UNCHANGED suspect
       \/ Empty /\ Goes(p, "clearing") /\ UNCHANGED suspect
       \/ /\ Readable
          /\ suspect' = [suspect EXCEPT ![p] = pid[lockOf]]
          /\ Goes(p, IF pid[lockOf] \in LivePids THEN "verifying" ELSE "unlinking")
    /\ UNCHANGED <<pid, waitsFor, exits, lock, strangers>>

\* readPidAndName unlinks a malformed file.
Clear(p) ==
    /\ stage[p] \in {"clearing", "reclearing"}
    /\ Unlinked
    /\ Goes(p, IF stage[p] = "clearing" THEN "unlinking" ELSE "refused")
    /\ UNCHANGED <<pid, waitsFor, exits, suspect, strangers>>

\* Mutant of Verify: an identity that cannot be told is taken for a mismatch.
VerifyFailsClosed(p) ==
    /\ stage[p] = "verifying"
    /\ \/ Goes(p, "unlinking")
       \/ Goes(p, "refused")
    /\ UNCHANGED <<pid, waitsFor, exits, lock, suspect, strangers>>

\* isHeldByLiveInstance: only a proven mismatch makes the lock stale.  Another
\* start of the bridge has the recorded name, a stranger has not; of a process
\* that died, or that cannot be queried, the identity is unknown.
Verify(p) ==
    /\ stage[p] = "verifying"
    /\ \/ suspect[p] \in strangers /\ Goes(p, "unlinking")
       \/ Goes(p, "refused")
    /\ suspect' = [suspect EXCEPT ![p] = NoPid]
    /\ UNCHANGED <<pid, waitsFor, exits, lock, strangers>>

\* silentlyUnlink(lockPath): whatever file is there now.
Unlink(p) ==
    /\ stage[p] = "unlinking"
    /\ Unlinked
    /\ Goes(p, "reopening")
    /\ UNCHANGED <<pid, waitsFor, exits, suspect, strangers>>

\* The retry met another file: read (and unlink a malformed one), then give up.
Reread(p) ==
    /\ stage[p] = "rereading"
    /\ Goes(p, IF Empty THEN "reclearing" ELSE "refused")
    /\ UNCHANGED <<pid, waitsFor, exits, lock, suspect, strangers>>

-----------------------------------------------------------------------------
(* Exit                                                                    *)

\* /exit: process.exit() once the reply is sent.
AskExit(p) ==
    /\ stage[p] = "running"
    /\ p \notin pendingExit
    /\ pendingExit' = pendingExit \cup {p}
    /\ UNCHANGED <<stage, pid, waitsFor, again, lock, suspect, strangers>>

\* SIGINT, SIGTERM, SIGHUP or a fatal error: the handler runs release() itself
\* and then process.exit(), whose 'exit' handler runs it again.
Signal(p) ==
    /\ stage[p] = "running"
    /\ p \notin again
    /\ pendingExit' = pendingExit \cup {p}
    /\ again' = again \cup {p}
    /\ UNCHANGED <<stage, pid, waitsFor, lock, suspect, strangers>>

\* What follows a release().
Leaves(p) ==
    /\ Goes(p, IF p \in again THEN "exiting" ELSE "gone")
    /\ again' = again \ {p}

\* release() reads the lock (existsSync and readFileSync in one step) ...
Exit(p) ==
    /\ \/ stage[p] = "running" /\ p \in pendingExit
       \/ stage[p] = "exiting"
    /\ IF Empty \/ (Readable /\ pid[lockOf] = pid[p])
       THEN Goes(p, "releasing") /\ UNCHANGED again
       ELSE Leaves(p)
    /\ pendingExit' = pendingExit \ {p}
    /\ UNCHANGED <<pid, waitsFor, lock, suspect, strangers>>

\* ... and unlinks its own, or one it takes for malformed.
Release(p) ==
    /\ stage[p] = "releasing"
    /\ Unlinked
    /\ Leaves(p)
    /\ UNCHANGED <<pid, waitsFor, pendingExit, suspect, strangers>>

\* Killed: no handler runs.
Crash(p) ==
    /\ Alive(p)
    /\ Goes(p, "gone")
    /\ UNCHANGED <<pid, waitsFor, exits, lock, suspect, strangers>>

\* An unrelated program gets the pid of a dead start, or ends.
StrangerStarts(i) ==
    /\ i \in Pid \ LivePids
    /\ \E p \in Proc : pid[p] = i
    /\ strangers' = strangers \cup {i}
    /\ UNCHANGED <<stage, pid, waitsFor, exits, lock, suspect>>
StrangerEnds(i) ==
    /\ i \in strangers
    /\ strangers' = strangers \ {i}
    /\ UNCHANGED <<stage, pid, waitsFor, exits, lock, suspect>>

-----------------------------------------------------------------------------

Acquire(p) ==
    \/ Open(p) \/ Write(p) \/ Look(p) \/ Read(p) \/ Clear(p)
    \/ Verify(p) \/ Unlink(p) \/ Reread(p)

LockNext ==
    /\ \/ \E p \in Proc, i \in Pid : Start(p, i)
       \/ \E q, p \in Proc, i \in Pid : RestartInstance(q, p, i)
       \/ \E p \in Proc : WaitEnds(p)
       \/ \E p \in Proc : Acquire(p)
       \/ \E p \in Proc : AskExit(p)
       \/ \E p \in Proc : Signal(p)
       \/ \E p \in Proc : Exit(p)
       \/ \E p \in Proc : Release(p)
       \/ \E p \in Proc : Crash(p)
       \/ \E i \in Pid : StrangerStarts(i)
       \/ \E i \in Pid : StrangerEnds(i)
    /\ TakeNote

LockSpec == LockInit /\ [][LockNext]_lockVars

-----------------------------------------------------------------------------
(* Properties                                                              *)

\* What the promise of the lock rests on: starts that come one at a time, and no
\* instance that, on exit, reads a lock into which no pid is written yet.
Orderly == ~crowded /\ ~mistaken

\* A running instance owns the lock file, so no second one is let in and its
\* successor finds it: nobody unlinks the lock of a live instance, whatever pids
\* were reused and however instances crash or exit.  The exceptions are two
\* starts that acquired at the same time, and an exiting instance that read a
\* lock its creator had not written yet: acquire() and release() unlink such a
\* file as malformed.
RunningOwnsLock ==
    \A p \in Proc : stage[p] = "running" /\ Orderly => lockOf = p /\ written

\* What the comment on acquire() says of the exclusive create: it eliminates the
\* race of two starts.  At most one instance runs, then, with no exception.
OneRunsAtMost ==
    \A p, q \in Proc : stage[p] = "running" /\ stage[q] = "running" => p = q
=============================================================================
