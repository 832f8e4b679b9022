---------------------------- MODULE SessionIndex ----------------------------
(***************************************************************************)
(* claude's sessions are found through an index of their files, while      *)
(* claude writes them, moves them to another project's directory and       *)
(* deletes them.  The index is refreshed at most every five seconds, by a  *)
(* scan that looks at each file before and after it parses it; a search    *)
(* looks again at the files it comes upon, and what the index does not     *)
(* know is searched for in the directories (session-index.ts, sessions.ts).*)
(* A file is <<directory, session>>; its stamp stands for the fingerprint. *)
(***************************************************************************)
EXTENDS Naturals, FiniteSets

CONSTANTS
    Cwds, Dirs, DirOf, \* the directories worked in, and where the files of each are: not one to one
    SessionIds,
    MaxStamp,          \* writes, moves and deletions
    MaxAsks

ASSUME SessionIndexAssumption ==
    /\ DirOf \in [Cwds -> Dirs]
    /\ IsFiniteSet(Dirs) /\ IsFiniteSet(SessionIds)
    /\ Cwds # {} /\ SessionIds # {}

VARIABLES
    disk,    \* the files, or NoFile
    stamp,   \* of the latest write
    byPath,  \* the index: an entry per file, or NoEntry
    built, fresh,
    asks, ask
indexVars == <<disk, stamp, byPath, built, fresh, asks, ask>>

SessionPaths == Dirs \X SessionIds
NoFile == [there |-> FALSE]
Gone == [there |-> FALSE, gone |-> TRUE]
NoEntry == [known |-> FALSE]
There(p) == disk[p].there
BuildFingerprint(p) == IF There(p) THEN disk[p].stamp ELSE 0
HoldsCwd(p, c) == There(p) /\ c \in disk[p].cwds

(***************************************************************************)
(* claude                                                                  *)
(***************************************************************************)
Put(d, p, cwds) == [d EXCEPT ![p] = [there |-> TRUE, cwds |-> cwds, stamp |-> stamp + 1]]
Env(d) == /\ stamp < MaxStamp /\ stamp' = stamp + 1 /\ ask.pc # "done"
          /\ disk' = d
          /\ UNCHANGED <<byPath, built, fresh, asks>>
          \* A file that goes while it is looked for need not be found.
          /\ ask' = [ask EXCEPT !.quiet = @ /\ \A p \in SessionPaths : There(p) => d[p].there]

\* The file exists before it holds a record.
SessionStarts(s, c) ==
    /\ \A p \in SessionPaths : p[2] = s => disk[p] = NoFile
    /\ Env(Put(disk, <<DirOf[c], s>>, {}))
SessionWrites(p, c) == There(p) /\ DirOf[c] = p[1] /\ Env(Put(disk, p, disk[p].cwds \cup {c}))
\* EnterWorktree: the transcript moves, or a copy of it stays behind.
SessionMoves(p, c, stays) ==
    LET q == <<DirOf[c], p[2]>>
        moved == Put(disk, q, disk[p].cwds)
    IN  /\ There(p) /\ q # p /\ ~There(q)
        /\ Env(IF stays THEN moved ELSE [moved EXCEPT ![p] = Gone])
SessionDeleted(p) == There(p) /\ Env([disk EXCEPT ![p] = Gone])

(***************************************************************************)
(* The scan of the directories                                             *)
(***************************************************************************)
NoAsk == [pc |-> "idle", op |-> "none", s |-> CHOOSE s \in SessionIds : TRUE, c |-> CHOOSE c \in Cwds : TRUE,
          dirs |-> {}, todo |-> {}, seen |-> {}, at |-> {}, file |-> NoFile, answer |-> {},
          still |-> {}, quiet |-> TRUE]

UpdateEntry(p, fp, cwds) == [byPath EXCEPT ![p] = [known |-> TRUE, fp |-> fp, cwds |-> cwds]]
RemoveEntry(index, gone) == [p \in SessionPaths |-> IF p \in gone THEN NoEntry ELSE index[p]]
PathsOf(s) == {p \in SessionPaths : byPath[p].known /\ p[2] = s}
Query(a) == [a EXCEPT !.pc = IF a.op = "list" THEN "list" ELSE "find", !.todo = PathsOf(a.s), !.file = NoFile]

Refresh(a) == IF fresh THEN Query(a) ELSE [a EXCEPT !.pc = "scan", !.dirs = Dirs, !.todo = {}, !.seen = {}]

\* A list of the directory's sessions, or the content (or liveness) of one; the latter asks the
\* index only once it was built.
Asked(op, s, c) ==
    /\ ask.pc = "idle" /\ asks < MaxAsks
    /\ asks' = asks + 1
    /\ LET a == [NoAsk EXCEPT !.op = op, !.s = s, !.c = c, !.still = {p \in SessionPaths : p[2] = s /\ HoldsCwd(p, c)}]
       IN  ask' = IF op = "list" \/ built THEN Refresh(a) ELSE [a EXCEPT !.pc = "fallback"]
    /\ UNCHANGED <<disk, stamp, byPath, built, fresh>>

\* The projects directory cannot be read: the index stays as it was.
ScanFails ==
    /\ ask.pc = "scan" /\ ask.dirs = Dirs /\ ask.todo = {} /\ ask.seen = {}
    /\ ask' = Query(ask) /\ fresh' = TRUE
    /\ UNCHANGED <<disk, stamp, byPath, built, asks>>

ScanDir(d) ==
    /\ ask.pc = "scan" /\ ask.todo = {} /\ d \in ask.dirs
    /\ LET files == {p \in SessionPaths : p[1] = d /\ There(p)}
       IN  ask' = [ask EXCEPT !.dirs = @ \ {d}, !.todo = files, !.seen = @ \cup files]
    /\ built' = TRUE
    /\ UNCHANGED <<disk, stamp, byPath, fresh, asks>>

ScanLooks(p) ==
    /\ ask.pc = "scan" /\ p \in ask.todo
    /\ LET fp == BuildFingerprint(p)
           skip == fp = 0 \/ (byPath[p].known /\ byPath[p].fp = fp)
       IN  ask' = IF skip THEN [ask EXCEPT !.todo = @ \ {p}] ELSE [ask EXCEPT !.pc = "parse", !.file = [p |-> p, fp |-> fp]]
    /\ UNCHANGED <<disk, stamp, byPath, built, fresh, asks>>

\* parseSessionJsonl: a file that is gone holds nothing.
ParseSession ==
    /\ ask.pc \in {"parse", "reparse"}
    /\ ask' = [ask EXCEPT !.pc = IF @ = "parse" THEN "check" ELSE "update",
                          !.at = IF There(ask.file.p) THEN disk[ask.file.p].cwds ELSE {}]
    /\ UNCHANGED <<disk, stamp, byPath, built, fresh, asks>>

\* Mutant of ScanChecks: the file is not looked at again before the entry is written.
ScanChecksNothing ==
    /\ ask.pc = "check"
    /\ byPath' = UpdateEntry(ask.file.p, BuildFingerprint(ask.file.p), ask.at)
    /\ ask' = [ask EXCEPT !.pc = "scan", !.todo = @ \ {ask.file.p}]
    /\ UNCHANGED <<disk, stamp, built, fresh, asks>>

\* Written to meanwhile: the entry stays as it was until the next scan.
ScanChecks ==
    /\ ask.pc = "check"
    /\ byPath' = IF BuildFingerprint(ask.file.p) = ask.file.fp
                 THEN UpdateEntry(ask.file.p, ask.file.fp, ask.at) ELSE byPath
    /\ ask' = [ask EXCEPT !.pc = "scan", !.todo = @ \ {ask.file.p}]
    /\ UNCHANGED <<disk, stamp, built, fresh, asks>>

ScanEnds ==
    /\ ask.pc = "scan" /\ ask.dirs = {} /\ ask.todo = {}
    /\ byPath' = RemoveEntry(byPath, SessionPaths \ ask.seen)
    /\ fresh' = TRUE
    /\ ask' = LET gone == Query(ask) IN [gone EXCEPT !.todo = @ \cap ask.seen]
    /\ UNCHANGED <<disk, stamp, built, asks>>

TimePasses ==
    /\ fresh /\ ask.pc = "idle"
    /\ fresh' = FALSE
    /\ UNCHANGED <<disk, stamp, byPath, built, asks, ask>>

(***************************************************************************)
(* The queries                                                             *)
(***************************************************************************)
Answer(a, ps) == [a EXCEPT !.pc = "done", !.answer = ps, !.at = {}, !.file = NoFile, !.todo = {}]

ListByCwd ==
    /\ ask.pc = "list"
    /\ ask' = Answer(ask, {p \in SessionPaths : byPath[p].known /\ ask.c \in byPath[p].cwds})
    /\ UNCHANGED <<disk, stamp, byPath, built, fresh, asks>>

\* findBySessionIdAndCwd: a file that is gone leaves the index, one that changed is parsed anew.
FindLooks(p) ==
    /\ ask.pc = "find" /\ p \in ask.todo
    /\ LET fp == BuildFingerprint(p)
           same == fp = byPath[p].fp
       IN  /\ byPath' = IF fp = 0 THEN RemoveEntry(byPath, {p}) ELSE byPath
           /\ ask' = IF fp # 0 /\ ~same THEN [ask EXCEPT !.pc = "reparse", !.file = [p |-> p, fp |-> fp]]
                     ELSE IF fp # 0 /\ ask.c \in byPath[p].cwds THEN Answer(ask, {p})
                     ELSE [ask EXCEPT !.todo = @ \ {p}]
    /\ UNCHANGED <<disk, stamp, built, fresh, asks>>

FindUpdates ==
    /\ ask.pc = "update"
    /\ LET p == ask.file.p
           there == There(p)
       IN  /\ byPath' = IF there THEN UpdateEntry(p, ask.file.fp, ask.at) ELSE RemoveEntry(byPath, {p})
           /\ ask' = IF there /\ ask.c \in ask.at THEN Answer(ask, {p})
                     ELSE [ask EXCEPT !.pc = "find", !.todo = @ \ {p}]
    /\ UNCHANGED <<disk, stamp, built, fresh, asks>>

FindEnds ==
    /\ ask.pc = "find" /\ ask.todo = {}
    /\ ask' = [ask EXCEPT !.pc = "fallback"]
    /\ UNCHANGED <<disk, stamp, byPath, built, fresh, asks>>

\* findSessionFileInProjects: of several files, one that holds the directory, else any first.
FindSessionFileInProjects(s, c) ==
    LET all == {p \in SessionPaths : p[2] = s /\ There(p)}
        own == {p \in all : HoldsCwd(p, c)}
    IN  IF Cardinality(all) > 1 /\ own # {} THEN own ELSE all

\* Mutant of Fallback: only the file in the asked directory's own place.
FallbackDirect ==
    /\ ask.pc = "fallback"
    /\ ask' = IF There(<<DirOf[ask.c], ask.s>>) THEN [ask EXCEPT !.pc = "guard", !.file = [p |-> <<DirOf[ask.c], ask.s>>]]
              ELSE Answer(ask, {})
    /\ UNCHANGED <<disk, stamp, byPath, built, fresh, asks>>

Fallback ==
    /\ ask.pc = "fallback"
    /\ LET direct == <<DirOf[ask.c], ask.s>>
           found == IF There(direct) THEN {direct} ELSE FindSessionFileInProjects(ask.s, ask.c)
       IN  IF found = {} THEN ask' = Answer(ask, {})
           ELSE \E p \in found : ask' = [ask EXCEPT !.pc = "guard", !.file = [p |-> p]]
    /\ UNCHANGED <<disk, stamp, byPath, built, fresh, asks>>

\* fileContainsCwd: the directory's name is no proof.
Guard ==
    /\ ask.pc = "guard"
    /\ ask' = Answer(ask, IF HoldsCwd(ask.file.p, ask.c) THEN {ask.file.p} ELSE {})
    /\ UNCHANGED <<disk, stamp, byPath, built, fresh, asks>>

AskEnds == ask.pc = "done" /\ ask' = NoAsk /\ UNCHANGED <<disk, stamp, byPath, built, fresh, asks>>

IndexInit ==
    /\ disk = [p \in SessionPaths |-> NoFile] /\ stamp = 0
    /\ byPath = [p \in SessionPaths |-> NoEntry] /\ built = FALSE /\ fresh = FALSE
    /\ asks = 0 /\ ask = NoAsk

IndexNext ==
    \/ \E s \in SessionIds, c \in Cwds : SessionStarts(s, c)
    \/ \E p \in SessionPaths, c \in Cwds : SessionWrites(p, c)
    \/ \E p \in SessionPaths, c \in Cwds, b \in BOOLEAN : SessionMoves(p, c, b)
    \/ \E p \in SessionPaths : SessionDeleted(p)
    \/ \E op \in {"list", "read"}, s \in SessionIds, c \in Cwds : Asked(op, s, c)
    \/ ScanFails \/ ScanChecks \/ ScanEnds \/ ParseSession \/ TimePasses
    \/ \E d \in Dirs : ScanDir(d)
    \/ \E p \in SessionPaths : ScanLooks(p) \/ FindLooks(p)
    \/ ListByCwd \/ FindUpdates \/ FindEnds \/ Fallback \/ Guard \/ AskEnds

IndexSpec == IndexInit /\ [][IndexNext]_indexVars
--------------------------------------------------------------------------------
(***************************************************************************)
(* An entry with the fingerprint its file has now holds the directories    *)
(* the file names now, however the writes fall between the looks at the    *)
(* file: the guard of a session trusts it without reading (fullScan,       *)
(* findBySessionIdAndCwd).                                                 *)
(***************************************************************************)
IndexTellsTheFile ==
    \A p \in SessionPaths : There(p) /\ byPath[p].known /\ byPath[p].fp = disk[p].stamp => byPath[p].cwds = disk[p].cwds

(***************************************************************************)
(* While no file goes, a session is read if a file of it named the         *)
(* directory when it was asked for, wherever it was moved before and       *)
(* whatever the index holds, unless an older copy has come to lie in the   *)
(* directory's own place (section 5 of the README); and no file is read    *)
(* that does not name the directory.                                       *)
(***************************************************************************)
OldCopyInPlace(s, c) == There(<<DirOf[c], s>>) /\ ~HoldsCwd(<<DirOf[c], s>>, c)
SessionIsFound ==
    ask.pc = "done" /\ ask.op = "read" /\ ask.quiet =>
        /\ ask.still # {} => ask.answer # {} \/ OldCopyInPlace(ask.s, ask.c)
        /\ \A p \in ask.answer : HoldsCwd(p, ask.c)
================================================================================
