----------------------------- MODULE SessionLog -----------------------------
(***************************************************************************)
(* A session is read while its agent still writes it.  The file is a       *)
(* sequence of cells: a line is two cells of its record and a newline,     *)
(* maybe with a blank (a carriage return) before the newline, and the      *)
(* agent's writes are not the reader's lines.  forEachJsonlLineCore reads  *)
(* it in chunks; claude and pi look for the directory, scan the whole      *)
(* file, and read the part after the user's last message once more; codex  *)
(* and kimi read it once, kimi its subagents' files too; opencode and dsh  *)
(* ask the agent.                                                          *)
(***************************************************************************)
EXTENDS SessionUsage, FiniteSets

CONSTANTS ReaderKinds, ChunkSizes, MaxLines, MaxEvents

ASSUME LogAssumption == ChunkSizes \subseteq Nat \ {0} /\ MaxLines \in Nat /\ MaxEvents \in Nat

VARIABLES
    kind,       \* the agent whose session it is
    chunkSize,  \* of a read
    pad,        \* cells of blank at the end of a line
    lines,      \* the records written or being written, with the file each goes to
    files,      \* the cells of the main agent's and the subagents' file
    unwritten,  \* cells of the last line yet to be written
    spent,      \* per file, what each response used (not a variable of the program)
    reader
logVars == <<kind, chunkSize, pad, lines, files, unwritten, spent, reader>>

Wires == {"main", "sub"}
NL == <<"nl", 0>>
BlankCell == <<"blank", 0>>
CellsOf(i) == <<<<"a", i>>, <<"b", i>>>> \o [n \in 1..pad |-> BlankCell] \o <<NL>>

(***************************************************************************)
(* The agent                                                               *)
(***************************************************************************)
NoRecord == [k |-> "other", id |-> 0, post |-> 0, use |-> NoUse, total |-> NoUse,
             final |-> FALSE, on |-> "main"]

\* The n-th response uses n tokens of each sort; codex counts the cached ones within the input.
UseOf(n) == [in |-> n, cached |-> n, out |-> n, total |-> IF kind = "opencode" THEN 3 * n ELSE 0]
Raw(u) == [u EXCEPT !.in = @ + u.cached, !.total = u.in + u.cached + u.out]
Spoken == Len(spent.main) + Len(spent.sub)
SoFar == SumUse(spent.main)

UserLines == {[NoRecord EXCEPT !.k = "user"]}
ResponseLines ==
    LET u == UseOf(Spoken + 1)
        said == [NoRecord EXCEPT !.k = "resp", !.id = Spoken + 1, !.use = u, !.final = TRUE]
    IN  CASE kind = "claude" -> {said, [said EXCEPT !.use = NoUse, !.final = FALSE]}
          [] kind = "opencode" -> {said, [said EXCEPT !.use = NoUse, !.final = FALSE]}
          [] kind = "kimi" -> {said, [said EXCEPT !.on = "sub"]}
          [] kind = "codex" -> {[said EXCEPT !.k = "count", !.total = Raw(Plus(SoFar, u)), !.use = Raw(u)],
                                [said EXCEPT !.k = "count", !.total = Raw(Plus(SoFar, u)), !.use = NoCount]}
          [] OTHER -> {said}
CompactLines ==
    CASE kind \in {"claude", "pi"} -> {[NoRecord EXCEPT !.k = "compact", !.post = 1]}
      [] kind = "kimi" -> {[NoRecord EXCEPT !.k = "compact", !.post = p] : p \in {0, 1}}
      [] kind = "codex" -> {[NoRecord EXCEPT !.k = "compact"],
                            [NoRecord EXCEPT !.k = "count", !.use = [NoUse EXCEPT !.total = 1], !.total = Raw(SoFar)]}
      [] OTHER -> {}

\* Lines of one file and the next are written in full, one after another.
AgentWrites ==
    /\ Len(lines) < MaxLines /\ unwritten = <<>>
    /\ \E r \in UserLines \cup ResponseLines \cup CompactLines :
        /\ r.k = "count" /\ ~r.final => Len(lines) > 0 /\ lines[Len(lines)].k = "compact"
        /\ lines' = Append(lines, r)
    /\ unwritten' = CellsOf(Len(lines) + 1)
    /\ UNCHANGED <<kind, chunkSize, pad, files, spent, reader>>

\* The next cells reach the file; the response counts once its record has.
AgentFlushes ==
    /\ unwritten # <<>>
    /\ LET r == lines[Len(lines)]
           done == Head(unwritten)[1] = "b"
       IN  /\ files' = [files EXCEPT ![r.on] = Append(@, Head(unwritten))]
           /\ spent' = IF done /\ r.final THEN [spent EXCEPT ![r.on] = Append(@, UseOf(r.id))] ELSE spent
    /\ unwritten' = Tail(unwritten)
    /\ UNCHANGED <<kind, chunkSize, pad, lines, reader>>

(***************************************************************************)
(* The reader of lines                                                     *)
(***************************************************************************)
\* The lines of a text so far, and the one being read: its text, where it begins, what is next.
NoLine(offset) == [lines |-> <<>>, text |-> <<>>, at |-> offset, pos |-> offset]

\* A line that is blank is left out.
Handed(r) == IF r.text = <<>> THEN r.lines ELSE Append(r.lines, [text |-> r.text, at |-> r.at])
ReadCell(r, c) ==
    IF c = NL THEN [lines |-> Handed(r), text |-> <<>>, at |-> r.pos + 1, pos |-> r.pos + 1]
    ELSE [r EXCEPT !.text = IF c = BlankCell THEN @ ELSE Append(@, c), !.pos = @ + 1]

\* Mutant of LinesOf: each line at the offset of its chunk.
LinesOfChunk(s, offset) ==
    LET read[n \in 0..Len(s)] ==
            IF n = 0 THEN NoLine(offset) ELSE [ReadCell(read[n - 1], s[n]) EXCEPT !.at = offset]
    IN  Handed(read[Len(s)])

\* The lines of a text with their offsets.
LinesOf(s, offset) ==
    LET read[n \in 0..Len(s)] == IF n = 0 THEN NoLine(offset) ELSE ReadCell(read[n - 1], s[n])
    IN  Handed(read[Len(s)])

TailOffsetAfter(p) == p.at + Len(p.text) + 1

\* scanJsonlOnce, scanTailEvents: lines that do not parse are skipped.
Parses(p) == Len(p.text) = 2 /\ p.text[1][1] = "a" /\ p.text[2] = <<"b", p.text[1][2]>>
IdOf(p) == p.text[1][2]

FirstPass ==
    CASE kind \in {"claude", "pi"} -> "guard"
      [] kind \in {"codex", "kimi"} -> "scan"
      [] OTHER -> "ask"
NextPass(pass) ==
    CASE pass = "guard" -> "scan"
      [] pass = "scan" /\ kind \in {"claude", "pi"} -> "tail"
      [] pass = "scan" /\ kind = "kimi" -> "sub"
      [] OTHER -> "done"
WireOf(pass) == IF pass = "sub" THEN "sub" ELSE "main"

\* The records of a file whose last cell is written.
Written(w) ==
    LET ids[n \in 0..Len(files[w])] ==
            IF n = 0 THEN <<>>
            ELSE IF files[w][n][1] = "b" THEN Append(ids[n - 1], files[w][n][2]) ELSE ids[n - 1]
    IN  ids[Len(files[w])]

NoReader == [pc |-> "idle", pos |-> 0, start |-> 0, base |-> 0, buf |-> <<>>, tail |-> 0,
             got |-> <<>>, sub |-> <<>>, shown |-> <<>>, whole |-> 0, before |-> [w \in Wires |-> 0]]

Open(r, pass, offset) == [r EXCEPT !.pc = pass, !.pos = offset, !.start = offset, !.base = 0, !.buf = <<>>]

StartRead ==
    /\ reader.pc = "idle"
    /\ reader' = Open([NoReader EXCEPT !.whole = Len(Written("main")),
                                       !.before = [w \in Wires |-> Len(spent[w])]], FirstPass, 0)
    /\ UNCHANGED <<kind, chunkSize, pad, lines, files, unwritten, spent>>

\* What each pass keeps of a line handed to it; the guard stops at the first that names a directory.
Guarded(ps) == \E n \in 1..Len(ps) : Parses(ps[n]) /\ lines[IdOf(ps[n])].k \in {"user", "resp"}
TakeLine(r, p) ==
    IF ~Parses(p) THEN r
    ELSE CASE r.pc = "scan" -> [r EXCEPT !.got = Append(@, IdOf(p)),
                                         !.tail = IF IsUser(lines[IdOf(p)]) THEN TailOffsetAfter(p) ELSE @]
           [] r.pc = "tail" -> [r EXCEPT !.shown = Append(@, IdOf(p))]
           [] r.pc = "sub" -> [r EXCEPT !.sub = Append(@, IdOf(p))]
           [] OTHER -> r
Take(r, handed) ==
    LET taken[n \in 0..Len(handed)] == IF n = 0 THEN r ELSE TakeLine(taken[n - 1], handed[n])
    IN  taken[Len(handed)]

\* A pass is over: at the end of the file, or at the line looked for.
EndPass(r) == Open(r, NextPass(r.pc), IF NextPass(r.pc) = "tail" THEN r.tail ELSE 0)

ReadChunk ==
    /\ reader.pc \in {"guard", "scan", "tail", "sub"}
    /\ LET cells == files[WireOf(reader.pc)]
           upTo == Min({reader.pos + chunkSize, Len(cells)})
           buf == reader.buf \o SubSeq(cells, reader.pos + 1, upTo)
           newlines == {n \in 1..Len(buf) : buf[n] = NL}
           cut == Max(newlines \cup {0})
           offset == reader.start + reader.base
           read == [reader EXCEPT !.pos = upTo, !.buf = SubSeq(buf, cut + 1, Len(buf)), !.base = @ + cut]
           handed == IF upTo <= reader.pos THEN LinesOf(buf, offset)
                     ELSE IF cut = 0 THEN <<>> ELSE LinesOf(SubSeq(buf, 1, cut - 1), offset)
       IN  reader' = IF reader.pc = "guard" /\ Guarded(handed) THEN EndPass(reader)
                     ELSE IF upTo > reader.pos THEN Take(read, handed)
                     ELSE IF reader.pc = "guard" /\ kind = "claude" THEN [reader EXCEPT !.pc = "refused"]
                     ELSE EndPass(Take(reader, handed))
    /\ UNCHANGED <<kind, chunkSize, pad, lines, files, unwritten, spent>>

\* opencode exports the session, dsh answers with its history.
Ask ==
    /\ reader.pc = "ask"
    /\ LET got == Written("main")
           last == Max({n \in 1..Len(got) : IsUser(lines[got[n]])} \cup {1})
       IN  reader' = [reader EXCEPT !.pc = "done", !.got = got,
                                    !.shown = IF kind = "opencode" THEN SubSeq(got, last, Len(got)) ELSE got]
    /\ UNCHANGED <<kind, chunkSize, pad, lines, files, unwritten, spent>>

(***************************************************************************)
(* What the read tells                                                     *)
(***************************************************************************)
Records(ids) == [n \in 1..Len(ids) |-> lines[ids[n]]]
CapEvents(es) == IF Len(es) <= MaxEvents THEN es ELSE SubSeq(es, Len(es) - MaxEvents + 1, Len(es))
EventLines(ids) == SelectSeq(ids, LAMBDA i : lines[i].k \in {"user", "resp"})
ReadEvents == CapEvents(EventLines(IF kind \in {"codex", "kimi"} THEN reader.got ELSE reader.shown))
ReadUsage ==
    LET rs == Records(reader.got)
    IN  CASE kind = "claude" -> ClaudeUsage(rs)
          [] kind = "pi" -> PiUsage(rs)
          [] kind = "codex" -> BuildUsageFromScan(ScanCodexRollout(rs))
          [] kind = "kimi" -> KimiUsage(rs, Records(reader.sub))
          [] kind = "opencode" -> OpencodeUsage(rs)
          [] OTHER -> DshUsage(rs)

LogInit ==
    /\ kind \in ReaderKinds /\ chunkSize \in ChunkSizes /\ pad \in {0, 1}
    /\ lines = <<>> /\ unwritten = <<>>
    /\ files = [w \in Wires |-> <<>>] /\ spent = [w \in Wires |-> <<>>]
    /\ reader = NoReader

LogNext == AgentWrites \/ AgentFlushes \/ StartRead \/ ReadChunk \/ Ask

LogSpec == LogInit /\ [][LogNext]_logVars
--------------------------------------------------------------------------------
(***************************************************************************)
(* The events of a card are the whole lines after the user's last message, *)
(* in their order and without a gap, wherever a chunk or a write ends: the *)
(* offset the first pass leaves to the second is a line's (readSession-    *)
(* Content, two-pass.ts).                                                  *)
(***************************************************************************)
EventsFollowTheUser ==
    reader.pc = "done" =>
        \E m \in reader.whole..Len(Written("main")) :
            LET seen == SubSeq(Written("main"), 1, m)
                users == {n \in 1..Len(reader.got) : IsUser(lines[reader.got[n]])}
                from == IF kind \in {"claude", "pi", "opencode"} THEN Max(users \cup {0}) ELSE 0
                after == IF kind = "opencode" THEN Larger(from, 1) ELSE from + 1
            IN  ReadEvents = CapEvents(EventLines(SubSeq(seen, after, m)))

(***************************************************************************)
(* The usage told is that of whole responses, each counted once: the sum   *)
(* of the session, and the last one's, or zeros while the next is only     *)
(* announced or nothing was answered yet.                                  *)
(***************************************************************************)
ResponsesCountOnce ==
    reader.pc = "done" =>
        \E n \in reader.before.main..Len(spent.main), s \in reader.before.sub..Len(spent.sub) :
            LET main == SubSeq(spent.main, 1, n)
                sub == IF kind = "kimi" THEN SubSeq(spent.sub, 1, s) ELSE <<>>
                bare(u) == [u EXCEPT !.total = 0]
            IN  /\ ReadUsage.cum = CumulativeUsageFields(main \o sub)
                /\ IF kind = "kimi" THEN ReadUsage.last = ReadUsage.cum
                   ELSE bare(ReadUsage.last) \in {bare(LastOf(main))}
                            \cup (IF kind \in {"claude", "opencode"} THEN {NoUse} ELSE {})
================================================================================
