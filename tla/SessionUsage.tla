---------------------------- MODULE SessionUsage ----------------------------
(***************************************************************************)
(* What the readers of src/session make of the records of a session: the   *)
(* usage of the last run and of the whole session, the context in use and  *)
(* the compactions.  A usage is [in, cached, out, total]: the tokens read  *)
(* anew, read from the cache, written, and the agent's own sum; reasoning  *)
(* and cache creation are summed like them and left out, and so are the    *)
(* titles.                                                                 *)
(***************************************************************************)
EXTENDS Naturals, Sequences, SequencesExt, FiniteSetsExt

NoUse == [in |-> 0, cached |-> 0, out |-> 0, total |-> 0]

Larger(a, b) == IF a > b THEN a ELSE b
FieldMax(u, v) == [f \in DOMAIN u |-> Larger(u[f], v[f])]
Plus(u, v) == [f \in DOMAIN u |-> u[f] + v[f]]
Less(u, v) == [f \in DOMAIN u |-> u[f] - v[f]]
SumUse(us) == FoldLeft(Plus, NoUse, us)
IsUser(r) == r.k = "user"
LastOf(us) == IF us = <<>> THEN NoUse ELSE us[Len(us)]
KeptRecords(rs, Test(_)) == SelectSeq(rs, Test)
UsesOf(rs) == LET k == KeptRecords(rs, LAMBDA r : r.k = "resp") IN [n \in 1..Len(k) |-> k[n].use]

\* UsageAccumulator: totals and the last record, and the window the input fills.
ContextWindowOccupancy(u) == u.in + u.cached
CumulativeUsageFields(us) == [SumUse(us) EXCEPT !.total = 0]
Accumulated(us) == [last |-> LastOf(us), cum |-> CumulativeUsageFields(us), count |-> Len(us)]

Usage(a, context, compacts, known) ==
    [known |-> known, last |-> a.last, cum |-> a.cum, context |-> context, compacts |-> compacts]
NoUsage == Usage(Accumulated(<<>>), 0, 0, FALSE)
Spent(u) == u.in + u.cached + u.out

(***************************************************************************)
(* claude: a response spans several lines of one message id, some of which *)
(* hold zeros; per field the largest counts, in the order of appearance.   *)
(***************************************************************************)
FirstIds(rs) ==
    LET new == {k \in 1..Len(rs) : \A j \in 1..(k - 1) : rs[j].id # rs[k].id}
    IN  SetToSortSeq(new, LAMBDA a, b : a < b)

\* Mutant of BestPerId: the first line of a message id counts.
BestPerIdFirst(rs) == LET firsts == FirstIds(rs) IN [n \in 1..Len(firsts) |-> rs[firsts[n]].use]

BestPerId(rs) ==
    LET firsts == FirstIds(rs)
    IN  [n \in 1..Len(firsts) |->
            FoldLeft(LAMBDA u, r : IF r.id = rs[firsts[n]].id THEN FieldMax(u, r.use) ELSE u, NoUse, rs)]

ClaudeUsage(rs) ==
    LET a == Accumulated(BestPerId(KeptRecords(rs, LAMBDA r : r.k = "resp")))
        posts == KeptRecords(rs, LAMBDA r : r.k = "compact" /\ r.post > 0)
        post == IF posts = <<>> THEN 0 ELSE posts[Len(posts)].post
        window == ContextWindowOccupancy(a.last)
    IN  Usage(a, IF post = 0 THEN window ELSE Larger(post, window),
              Len(KeptRecords(rs, LAMBDA r : r.k = "compact")), Spent(a.cum) > 0)

(* pi: every assistant message is one response. *)
PiUsage(rs) ==
    LET a == Accumulated(UsesOf(rs))
    IN  Usage(a, ContextWindowOccupancy(a.last), Len(KeptRecords(rs, LAMBDA r : r.k = "compact")),
              a.cum.in + a.cum.out > 0)

(***************************************************************************)
(* codex: a count holds the usage of the turn (or NoCount, in old files)   *)
(* and of the session, cached tokens included in the input.  A compaction  *)
(* ends with a count of nothing but a total.                               *)
(***************************************************************************)
NoCount == [in |-> 0, cached |-> 0, out |-> 0, total |-> 0, none |-> TRUE]
IsCount(u) == "none" \notin DOMAIN u
Tokens(u) == u.in > 0 \/ u.cached > 0 \/ u.out > 0

ScanStart == [last |-> NoCount, total |-> NoCount, compacts |-> 0, pre |-> 0, post |-> 0]

ScanCount(s, r) ==
    LET raw == IF IsCount(r.use) THEN r.use
               ELSE IF IsCount(s.total) THEN Less(r.total, s.total) ELSE r.total
    IN  [s EXCEPT !.total = r.total,
                  !.last = IF Tokens(raw) THEN raw ELSE @,
                  !.post = IF s.compacts = 0 THEN @
                           ELSE IF raw.total > 0 /\ ~Tokens(raw) THEN raw.total
                           ELSE IF raw.in > 0 THEN 0 ELSE @]

ScanCodexRollout(rs) ==
    FoldLeft(LAMBDA s, r : CASE r.k = "count" -> ScanCount(s, r)
                             [] r.k = "compact" -> [s EXCEPT !.compacts = @ + 1, !.pre = s.last.total]
                             [] OTHER -> s,
             ScanStart, rs)

Uncached(u) == LET c == IF u.cached < u.in THEN u.cached ELSE u.in
               IN  [in |-> u.in - c, cached |-> c, out |-> u.out, total |-> 0]

BuildUsageFromScan(s) ==
    IF ~IsCount(s.last) THEN NoUsage
    ELSE Usage([last |-> Uncached(s.last), cum |-> Uncached(s.total)],
               IF s.compacts > 0 /\ s.post > 0 THEN s.post ELSE s.last.in, s.compacts, TRUE)

(***************************************************************************)
(* kimi: every usage record of the main agent and of its subagents counts; *)
(* the context is the main agent's.  A compaction leaves two records, of   *)
(* which one counts.                                                       *)
(***************************************************************************)
KimiUsage(main, subs) ==
    LET used == UsesOf(main)
        a == Accumulated(used \o UsesOf(subs))
    IN  Usage([last |-> a.cum, cum |-> a.cum], ContextWindowOccupancy(LastOf(used)),
              Len(KeptRecords(main, LAMBDA r : r.k = "compact" /\ r.post > 0)), a.count > 0)

(* opencode: the last step with tokens after the user's last message, and all steps of the session. *)
OpencodeUsage(rs) ==
    LET from == Max({k \in 1..Len(rs) : IsUser(rs[k])} \cup {0})
        last == LastOf(SelectSeq(UsesOf(SubSeq(rs, Larger(from, 1), Len(rs))), LAMBDA u : u.total > 0))
        a == Accumulated(UsesOf(rs))
    IN  Usage([last |-> [last EXCEPT !.total = 0], cum |-> a.cum], ContextWindowOccupancy(last), 0,
              last.total > 0 \/ Spent(a.cum) > 0)

(* dsh: the last assistant message with a usage, and the sum of all. *)
DshUsage(rs) ==
    LET a == Accumulated(UsesOf(rs))
    IN  Usage(a, ContextWindowOccupancy(a.last), 0, a.count > 0)
===============================================================================
