-------------------------- MODULE AgentEventsProofs --------------------------
(***************************************************************************)
(* Proofs about AgentEvents, for every agent, any number of messages and   *)
(* any bounds of the card: the card tells how its run ended, and an        *)
(* approval of a change of files names the files.  The events of a message *)
(* are folded into the card; the lemmas on the folds come first.           *)
(***************************************************************************)
EXTENDS AgentEvents, SequenceTheorems, WellFoundedInduction, TLAPS

-----------------------------------------------------------------------------
(* Folds of sequences.                                                     *)

LEMMA LeastOf ==
    ASSUME NEW T, T \subseteq Nat, T # {}
    PROVE  \E n \in T : \A m \in T : n <= m
<1>. DEFINE R == OpToRel(<, Nat)
<1>1. IsWellFoundedOn(R, Nat)
  BY NatLessThanWellFounded, Zenon
<1>2. \A m, n \in Nat : m < n => <<m, n>> \in R
  BY DEF OpToRel
<1>. HIDE DEF R
<1>3. PICK n \in T : \A m \in T : ~ (<<m, n>> \in R)
  BY <1>1, WFMin
<1>4. \A m \in T : ~ (m < n)
  BY <1>2, <1>3
<1>. QED BY <1>4

LEMMA MaxOfPart ==
    ASSUME NEW n \in Nat, NEW s \in SUBSET (1..n), s # {}
    PROVE  Max(s) \in s /\ \A y \in s : y <= Max(s)
<1>. DEFINE Above == {k \in Nat : \A y \in s : y <= k}
<1>1. n \in Above
  OBVIOUS
<1>2. PICK m \in Above : \A k \in Above : m <= k
  BY <1>1, LeastOf
<1>3. m \in s
  <2>1. PICK x \in s : TRUE
    OBVIOUS
  <2>2. m >= 1
    BY <2>1, <1>2
  <2>3. CASE m \notin s
    <3>1. m - 1 \in Above
      BY <1>2, <2>2, <2>3
    <3>. QED BY <3>1, <1>2
  <2>. QED BY <2>3
<1>4. \E x \in s : \A y \in s : x >= y
  BY <1>2, <1>3
<1>. QED BY <1>4 DEF Max

LEMMA HearsNone ==
    ASSUME NEW c
    PROVE  FoldLeft(Hears, c, <<>>) = c
<1>. DEFINE Step(f, s) == IF s = {} THEN c ELSE Hears(f[s \ {Max(s)}], <<>>[Max(s)])
            fold == CHOOSE f : f = [s \in SUBSET DOMAIN <<>> |-> Step(f, s)]
            g == [s \in {{}} |-> c]
<1>1. FoldLeft(Hears, c, <<>>) = fold[DOMAIN <<>>]
  BY DEF FoldLeft, MapThenFoldSet
<1>2. DOMAIN <<>> = {} /\ SUBSET {} = {{}}
  OBVIOUS
<1>3. g = [s \in SUBSET DOMAIN <<>> |-> Step(g, s)]
  BY <1>2
<1>4. fold = [s \in SUBSET DOMAIN <<>> |-> Step(fold, s)]
  <2>. HIDE DEF g, Step
  <2>. QED BY <1>3
<1>5. fold[{}] = Step(fold, {})
  <2>. HIDE DEF fold, Step
  <2>. QED BY <1>2, <1>4
<1>. HIDE DEF fold
<1>. QED BY <1>1, <1>2, <1>5

LEMMA HearsOne ==
    ASSUME NEW c, NEW e
    PROVE  FoldLeft(Hears, c, <<e>>) = Hears(c, e)
<1>. DEFINE evs == <<e>>
            Step(f, s) == IF s = {} THEN c ELSE Hears(f[s \ {Max(s)}], evs[Max(s)])
            fold == CHOOSE f : f = [s \in SUBSET DOMAIN evs |-> Step(f, s)]
            g == [s \in SUBSET {1} |-> IF s = {} THEN c ELSE Hears(c, e)]
<1>1. FoldLeft(Hears, c, evs) = fold[DOMAIN evs]
  BY DEF FoldLeft, MapThenFoldSet
<1>2. DOMAIN evs = {1} /\ evs[1] = e
  OBVIOUS
<1>3. \A s \in SUBSET {1} : s = {} \/ s = {1}
  OBVIOUS
<1>4. Max({1}) = 1 /\ {1} \ {1} = {}
  BY MaxOfPart, {1} \in SUBSET (1..1)
<1>. HIDE DEF evs
<1>5. g = [s \in SUBSET DOMAIN evs |-> Step(g, s)]
  <2>1. \A s \in SUBSET {1} : g[s] = Step(g, s)
    BY <1>2, <1>3, <1>4
  <2>. QED BY <2>1, <1>2
<1>6. fold = [s \in SUBSET DOMAIN evs |-> Step(fold, s)]
  <2>. HIDE DEF g, Step
  <2>. QED BY <1>5
<1>7. \A s \in SUBSET {1} : fold[s] = Step(fold, s)
  <2>. HIDE DEF fold, Step
  <2>. QED BY <1>6, <1>2
<1>. HIDE DEF fold
<1>8. fold[{}] = c
  BY <1>7
<1>9. fold[{1}] = Hears(c, e)
  BY <1>7, <1>8, <1>4, <1>2
<1>. QED BY <1>1, <1>2, <1>9 DEF evs

LEMMA HearsTwo ==
    ASSUME NEW c, NEW d, NEW e
    PROVE  FoldLeft(Hears, c, <<d, e>>) = Hears(Hears(c, d), e)
<1>. DEFINE evs == <<d, e>>
            Step(f, s) == IF s = {} THEN c ELSE Hears(f[s \ {Max(s)}], evs[Max(s)])
            fold == CHOOSE f : f = [s \in SUBSET DOMAIN evs |-> Step(f, s)]
            g == [s \in SUBSET {1, 2} |-> IF s = {} THEN c
                                          ELSE IF s = {1} THEN Hears(c, d)
                                          ELSE IF s = {2} THEN Hears(c, e)
                                          ELSE Hears(Hears(c, d), e)]
<1>1. FoldLeft(Hears, c, evs) = fold[DOMAIN evs]
  BY DEF FoldLeft, MapThenFoldSet
<1>2. DOMAIN evs = {1, 2} /\ evs[1] = d /\ evs[2] = e
  OBVIOUS
<1>3. \A s \in SUBSET {1, 2} : s \in {{}, {1}, {2}, {1, 2}}
  OBVIOUS
<1>4. Max({1}) = 1 /\ Max({2}) = 2 /\ Max({1, 2}) = 2
  BY MaxOfPart, {1, 2} \in SUBSET (1..2), {1} \in SUBSET (1..2), {2} \in SUBSET (1..2)
<1>5. {1} \ {1} = {} /\ {2} \ {2} = {} /\ {1, 2} \ {2} = {1}
  OBVIOUS
<1>6. {1} # {2} /\ {1, 2} # {1} /\ {1, 2} # {2}
  OBVIOUS
<1>. HIDE DEF evs
<1>7. g = [s \in SUBSET DOMAIN evs |-> Step(g, s)]
  <2>1. \A s \in SUBSET {1, 2} : g[s] = Step(g, s)
    <3>1. g[{}] = c /\ g[{1}] = Hears(c, d) /\ g[{2}] = Hears(c, e) /\ g[{1, 2}] = Hears(Hears(c, d), e)
      BY <1>6
    <3>. HIDE DEF g
    <3>2. g[{}] = Step(g, {})
      BY <3>1
    <3>3. g[{1}] = Step(g, {1})
      BY <3>1, <1>2, <1>4, <1>5
    <3>4. g[{2}] = Step(g, {2})
      BY <3>1, <1>2, <1>4, <1>5
    <3>5. g[{1, 2}] = Step(g, {1, 2})
      BY <3>1, <1>2, <1>4, <1>5
    <3>. HIDE DEF Step
    <3>. QED BY <3>2, <3>3, <3>4, <3>5, <1>3
  <2>. QED BY <2>1, <1>2
<1>8. fold = [s \in SUBSET DOMAIN evs |-> Step(fold, s)]
  <2>. HIDE DEF g, Step
  <2>. QED BY <1>7
<1>9. \A s \in SUBSET {1, 2} : fold[s] = Step(fold, s)
  <2>. HIDE DEF fold, Step
  <2>. QED BY <1>8, <1>2
<1>. HIDE DEF fold
<1>10. fold[{}] = c
  BY <1>9
<1>11. fold[{1}] = Hears(c, d)
  BY <1>9, <1>10, <1>4, <1>5, <1>2
<1>12. fold[{1, 2}] = Hears(Hears(c, d), e)
  BY <1>9, <1>11, <1>4, <1>5, <1>2
<1>. QED BY <1>1, <1>2, <1>12 DEF evs

-----------------------------------------------------------------------------
(* The invariants.                                                         *)

IsCard(c) ==
    DOMAIN c = {"terminal", "init", "blocks", "omitted", "plan", "subtype", "error", "approvals",
                "expired", "reason"}

Subtype == {"success", "error", "interrupted"}
Worst(rs) ==
    IF rs = <<>> THEN "none"
    ELSE IF "error" \in ToSet(rs) THEN "error"
    ELSE IF "interrupted" \in ToSet(rs) THEN "interrupted"
    ELSE "success"

PiPart == [kind : {"text", "thinking"}, text : Seq(Nat)] \cup [kind : {"tool"}, item : Tool]

(* The parts of pi's message.                                              *)
PartsInv == clock \in Nat /\ content \in Seq(PiPart)

(* An approval expires on the card and for the run at once.                *)
Entry == {"id", "view", "expired"}
ExpiryMarked(c) ==
    \E S : c.approvals \in Seq(S) /\ \A a \in S : DOMAIN a = Entry /\ (a.expired => c.expired)

(* While nobody ended it, the card holds the worst of the results given;   *)
(* and throughout, whether an approval expired, which is the one way to    *)
(* have that as its reason.                                                *)
EndInv ==
    /\ IsCard(card)
    /\ results \in Seq(Subtype)
    /\ (endedBy = "nobody") <=> ~ IsOver(card)
    /\ card.expired = lapsed
    /\ card.reason = "approval_timeout" => card.expired
    /\ ExpiryMarked(card)
    /\ ~ IsOver(card) =>
          /\ card.terminal = IF results = <<>> THEN "running" ELSE "finalizing"
          /\ card.subtype = Worst(results)
          /\ card.error <=> "error" \in ToSet(results)
    /\ RunTellsItsEnd

Ask == [id : Request, view : [kind : {"file", "other"}, about : Files], expired : BOOLEAN]

(* The request that does not name its files yet is the one that will be    *)
(* told of them, unless the item came with an empty list.                  *)
FilesInv ==
    /\ agent # "codex" => fileChangeItems = <<>>
    /\ agent = "codex" =>
          /\ card.approvals \in Seq(Ask)
          /\ fileChangeItems = <<>> \/ \E files \in Files : fileChangeItems = <<files>>
          /\ KnownFiles = <<>> => blank \/ fileChangeItems = <<>>
          /\ pendingFileApprovalByItemId \in Request \cup {NoItem}
          /\ clock = 0 => card.approvals = <<>>
          /\ ~ IsOver(card) =>
                \A i \in DOMAIN card.approvals :
                    card.approvals[i].view.kind = "file" /\ card.approvals[i].view.about = <<>>
                        => \/ blank
                           \/ fileChangeItems = <<>> /\ card.approvals[i].id = pendingFileApprovalByItemId

-----------------------------------------------------------------------------
(* What an event leaves alone.                                             *)

SameEnd(c, d) ==
    /\ IsCard(d)
    /\ d.terminal = c.terminal /\ d.init = c.init /\ d.subtype = c.subtype /\ d.error = c.error
    /\ d.expired = c.expired /\ d.reason = c.reason
    /\ ExpiryMarked(c) => ExpiryMarked(d)
SameAsks(c, d) == d.approvals = c.approvals

LEMMA MarkedSame ==
    \A c, d : d.approvals = c.approvals /\ d.expired = c.expired => (ExpiryMarked(c) => ExpiryMarked(d))
BY DEF ExpiryMarked

LEMMA KeepLatestSame ==
    ASSUME NEW s, IsCard(s), NEW bs
    PROVE  SameEnd(s, KeepLatestBlocks(s, bs)) /\ SameAsks(s, KeepLatestBlocks(s, bs))
<1>. DEFINE d == KeepLatestBlocks(s, bs)
<1>1. PICK x, y : d = [s EXCEPT !.blocks = x, !.omitted = y]
  BY DEF KeepLatestBlocks
<1>. HIDE DEF d
<1>2. SameEnd(s, d) /\ SameAsks(s, d)
  BY <1>1, MarkedSame DEF IsCard, SameEnd, SameAsks
<1>. QED BY <1>2 DEF d

LEMMA ContentSame ==
    ASSUME NEW s, IsCard(s), NEW c
    PROVE  SameEnd(s, ReduceContent(s, c)) /\ SameAsks(s, ReduceContent(s, c))
<1>1. PICK bs : ReduceContent(s, c) = KeepLatestBlocks(s, bs)
  BY Zenon DEF ReduceContent
<1>. QED BY <1>1, KeepLatestSame

LEMMA SameSame ==
    ASSUME NEW c, NEW d, NEW e, SameEnd(c, d) /\ SameAsks(c, d), SameEnd(d, e) /\ SameAsks(d, e)
    PROVE  SameEnd(c, e) /\ SameAsks(c, e)
BY DEF SameEnd, SameAsks

(* The fold over the parts of a message is defined, part by part.          *)
LEMMA AssistantSame ==
    ASSUME NEW c, IsCard(c), NEW S, NEW parts \in Seq(S)
    PROVE  SameEnd(c, FoldLeft(ReduceContent, c, parts)) /\ SameAsks(c, FoldLeft(ReduceContent, c, parts))
<1>. DEFINE D == DOMAIN parts
            n == Len(parts)
            Step(f, s) == IF s = {} THEN c ELSE ReduceContent(f[s \ {Max(s)}], parts[Max(s)])
            fold == CHOOSE f : f = [s \in SUBSET D |-> Step(f, s)]
            Upto(k) == {s \in SUBSET D : \A x \in s : x <= k}
            Defined == {k \in Nat : \E f : \A s \in Upto(k) : f[s] = Step(f, s)}
<1>1. FoldLeft(ReduceContent, c, parts) = fold[D]
  BY DEF FoldLeft, MapThenFoldSet
<1>2. n \in Nat /\ D = 1..n
  OBVIOUS
<1>3. \A s \in SUBSET D : s # {} => Max(s) \in s /\ \A y \in s : y <= Max(s)
  BY <1>2, MaxOfPart
<1>4. \A k \in Nat : \A s \in Upto(k + 1) : s # {} => (s \ {Max(s)}) \in Upto(k)
  BY <1>2, <1>3
<1>5. Upto(0) = {{}} /\ Upto(n) = SUBSET D
  BY <1>2
<1>. HIDE DEF D, n
<1>6. 0 \in Defined
  <2>. DEFINE g == [s \in Upto(0) |-> c]
  <2>1. \A s \in Upto(0) : g[s] = Step(g, s)
    BY <1>5
  <2>. HIDE DEF g, Upto, Step
  <2>. QED BY <2>1
<1>7. \A k \in Nat : k \in Defined => k + 1 \in Defined
  <2>. SUFFICES ASSUME NEW k \in Nat, NEW f, \A s \in Upto(k) : f[s] = Step(f, s)
                PROVE  \E g : \A s \in Upto(k + 1) : g[s] = Step(g, s)
    <3>. HIDE DEF Upto, Step
    <3>. QED OBVIOUS
  <2>. DEFINE g == [s \in SUBSET D |-> Step(f, s)]
  <2>1. \A s \in Upto(k) : g[s] = f[s]
    <3>. HIDE DEF Step
    <3>. QED OBVIOUS
  <2>2. \A s \in Upto(k + 1) : g[s] = Step(f, s)
    <3>. HIDE DEF Step
    <3>. QED OBVIOUS
  <2>3. \A s \in Upto(k + 1) : Step(f, s) = Step(g, s)
    <3>. HIDE DEF g, Upto
    <3>. QED BY <2>1, <1>4
  <2>. HIDE DEF g, Step, Upto
  <2>. QED BY <2>2, <2>3
<1>8. n \in Defined
  <2>. SUFFICES ASSUME n \notin Defined PROVE FALSE
    OBVIOUS
  <2>. DEFINE Missing == {k \in Nat : k \notin Defined}
  <2>1. PICK m \in Missing : \A k \in Missing : m <= k
    <3>. HIDE DEF Defined
    <3>1. n \in Missing /\ Missing \subseteq Nat
      BY <1>2
    <3>. QED BY <3>1, LeastOf
  <2>. HIDE DEF Defined
  <2>2. m # 0 /\ m - 1 \in Nat /\ m - 1 \in Defined
    BY <1>6, <2>1
  <2>. QED BY <1>7, <2>1, <2>2
<1>9. fold = [s \in SUBSET D |-> Step(fold, s)]
  <2>1. PICK f : \A s \in SUBSET D : f[s] = Step(f, s)
    <3>. HIDE DEF Step, Upto
    <3>. QED BY <1>5, <1>8
  <2>. DEFINE g == [s \in SUBSET D |-> f[s]]
  <2>2. \A s \in SUBSET D : g[s] = Step(g, s)
    <3>1. \A s \in SUBSET D : Step(f, s) = Step(g, s)
      OBVIOUS
    <3>. HIDE DEF Step
    <3>. QED BY <2>1, <3>1
  <2>3. g = [s \in SUBSET D |-> Step(g, s)]
    <3>. HIDE DEF Step
    <3>. QED BY <2>2
  <2>. HIDE DEF g, Step
  <2>. QED BY <2>3
<1>10. \A s \in SUBSET D : fold[s] = Step(fold, s)
  <2>. HIDE DEF fold, Step
  <2>. QED BY <1>9
<1>. HIDE DEF fold
<1>. DEFINE Same(s) == SameEnd(c, fold[s]) /\ SameAsks(c, fold[s])
            Good == {k \in Nat : \A s \in Upto(k) : Same(s)}
<1>11. Same({})
  BY <1>10 DEF SameEnd, SameAsks
<1>12. \A s \in SUBSET D : s # {} /\ Same(s \ {Max(s)}) => Same(s)
  <2>. SUFFICES ASSUME NEW s \in SUBSET D, s # {}, Same(s \ {Max(s)})
                PROVE  Same(s)
    OBVIOUS
  <2>. DEFINE d == fold[s \ {Max(s)}]
  <2>1. fold[s] = ReduceContent(d, parts[Max(s)])
    BY <1>10
  <2>2. SameEnd(c, d) /\ SameAsks(c, d)
    OBVIOUS
  <2>. HIDE DEF d
  <2>. QED BY <2>1, <2>2, ContentSame, SameSame DEF SameEnd
<1>. HIDE DEF Same
<1>13. 0 \in Good
  BY <1>5, <1>11
<1>14. \A k \in Nat : k \in Good => k + 1 \in Good
  <2>. SUFFICES ASSUME NEW k \in Nat, k \in Good, NEW s \in Upto(k + 1)
                PROVE  Same(s)
    OBVIOUS
  <2>1. s # {} => (s \ {Max(s)}) \in Upto(k)
    BY <1>4
  <2>. QED BY <2>1, <1>11, <1>12
<1>15. n \in Good
  <2>. SUFFICES ASSUME n \notin Good PROVE FALSE
    OBVIOUS
  <2>. DEFINE Missing == {k \in Nat : k \notin Good}
  <2>1. PICK m \in Missing : \A k \in Missing : m <= k
    <3>. HIDE DEF Good
    <3>1. n \in Missing /\ Missing \subseteq Nat
      BY <1>2
    <3>. QED BY <3>1, LeastOf
  <2>. HIDE DEF Good
  <2>2. m # 0 /\ m - 1 \in Nat /\ m - 1 \in Good
    BY <1>13, <2>1
  <2>. QED BY <1>14, <2>1, <2>2
<1>16. Same(D)
  BY <1>5, <1>15
<1>. QED BY <1>1, <1>16 DEF Same

LEMMA TurnDiffSame ==
    ASSUME NEW s, IsCard(s), NEW ev, ev.part \in {"file", "tool", "text", "thinking", "plan"}
    PROVE  SameEnd(s, ReduceTurnDiff(s, ev)) /\ SameAsks(s, ReduceTurnDiff(s, ev))
<1>1. CASE ev.part # "plan"
  <2>1. PICK bs : ReduceTurnDiff(s, ev) = KeepLatestBlocks(s, bs)
    BY <1>1, Zenon DEF ReduceTurnDiff
  <2>. QED BY <2>1, KeepLatestSame
<1>2. CASE ev.part = "plan"
  <2>1. PICK p, bs : ReduceTurnDiff(s, ev) = KeepLatestBlocks([s EXCEPT !.plan = p], bs)
    BY <1>2 DEF ReduceTurnDiff
  <2>. DEFINE d == [s EXCEPT !.plan = p]
  <2>2. SameEnd(s, d) /\ SameAsks(s, d)
    BY MarkedSame DEF IsCard, SameEnd, SameAsks
  <2>. HIDE DEF d
  <2>3. SameEnd(d, KeepLatestBlocks(d, bs)) /\ SameAsks(d, KeepLatestBlocks(d, bs))
    BY <2>2, KeepLatestSame DEF SameEnd
  <2>4. SameEnd(s, KeepLatestBlocks(d, bs)) /\ SameAsks(s, KeepLatestBlocks(d, bs))
    BY <2>2, <2>3, SameSame
  <2>. QED BY <2>1, <2>4 DEF d
<1>. QED BY <1>1, <1>2

LEMMA ToolResultSame ==
    ASSUME NEW s, IsCard(s), NEW ev
    PROVE  SameEnd(s, ReduceToolResult(s, ev)) /\ SameAsks(s, ReduceToolResult(s, ev))
<1>1. PICK bs : ReduceToolResult(s, ev) \in {s, [s EXCEPT !.blocks = bs]}
  BY DEF ReduceToolResult
<1>2. SameEnd(s, s) /\ SameAsks(s, s)
  BY DEF SameEnd, SameAsks
<1>. DEFINE d == [s EXCEPT !.blocks = bs]
<1>3. SameEnd(s, d) /\ SameAsks(s, d)
  BY MarkedSame DEF IsCard, SameEnd, SameAsks
<1>. QED BY <1>1, <1>2, <1>3

LEMMA PlanSame ==
    ASSUME NEW s, IsCard(s), NEW ev
    PROVE  SameEnd(s, ReducePlan(s, ev)) /\ SameAsks(s, ReducePlan(s, ev))
<1>1. PICK p, bs : ReducePlan(s, ev) = KeepLatestBlocks([s EXCEPT !.plan = p], bs)
  BY DEF ReducePlan
<1>. DEFINE d == [s EXCEPT !.plan = p]
<1>2. SameEnd(s, d) /\ SameAsks(s, d)
  BY MarkedSame DEF IsCard, SameEnd, SameAsks
<1>. HIDE DEF d
<1>3. SameEnd(d, KeepLatestBlocks(d, bs)) /\ SameAsks(d, KeepLatestBlocks(d, bs))
  BY <1>2, KeepLatestSame DEF SameEnd
<1>4. SameEnd(s, KeepLatestBlocks(d, bs)) /\ SameAsks(s, KeepLatestBlocks(d, bs))
  BY <1>2, <1>3, SameSame
<1>. QED BY <1>1, <1>4 DEF d

LEMMA WithoutKeeps ==
    ASSUME NEW S, NEW all \in Seq(S), NEW id
    PROVE  WithoutRequest(all, id) \in Seq(S)
<1>. DEFINE Keep(left, a) == IF a.id = id THEN left ELSE Append(left, a)
            D == DOMAIN all
            n == Len(all)
            Step(f, s) == IF s = {} THEN <<>> ELSE Keep(f[s \ {Max(s)}], all[Max(s)])
            fold == CHOOSE f : f = [s \in SUBSET D |-> Step(f, s)]
            Upto(k) == {s \in SUBSET D : \A x \in s : x <= k}
            Defined == {k \in Nat : \E f : \A s \in Upto(k) : f[s] = Step(f, s)}
<1>1. WithoutRequest(all, id) = fold[D]
  BY DEF WithoutRequest, FoldLeft, MapThenFoldSet
<1>2. n \in Nat /\ D = 1..n
  OBVIOUS
<1>3. \A s \in SUBSET D : s # {} => Max(s) \in s /\ \A y \in s : y <= Max(s)
  BY <1>2, MaxOfPart
<1>4. \A k \in Nat : \A s \in Upto(k + 1) : s # {} => (s \ {Max(s)}) \in Upto(k)
  BY <1>2, <1>3
<1>5. Upto(0) = {{}} /\ Upto(n) = SUBSET D
  BY <1>2
<1>. HIDE DEF D, n
<1>6. 0 \in Defined
  <2>. DEFINE g == [s \in Upto(0) |-> <<>>]
  <2>1. \A s \in Upto(0) : g[s] = Step(g, s)
    BY <1>5
  <2>. HIDE DEF g, Upto, Step
  <2>. QED BY <2>1
<1>7. \A k \in Nat : k \in Defined => k + 1 \in Defined
  <2>. SUFFICES ASSUME NEW k \in Nat, NEW f, \A s \in Upto(k) : f[s] = Step(f, s)
                PROVE  \E g : \A s \in Upto(k + 1) : g[s] = Step(g, s)
    <3>. HIDE DEF Upto, Step
    <3>. QED OBVIOUS
  <2>. DEFINE g == [s \in SUBSET D |-> Step(f, s)]
  <2>1. \A s \in Upto(k) : g[s] = f[s]
    <3>. HIDE DEF Step
    <3>. QED OBVIOUS
  <2>2. \A s \in Upto(k + 1) : g[s] = Step(f, s)
    <3>. HIDE DEF Step
    <3>. QED OBVIOUS
  <2>3. \A s \in Upto(k + 1) : Step(f, s) = Step(g, s)
    <3>. HIDE DEF g, Upto
    <3>. QED BY <2>1, <1>4
  <2>. HIDE DEF g, Step, Upto
  <2>. QED BY <2>2, <2>3
<1>8. n \in Defined
  <2>. SUFFICES ASSUME n \notin Defined PROVE FALSE
    OBVIOUS
  <2>. DEFINE Missing == {k \in Nat : k \notin Defined}
  <2>1. PICK m \in Missing : \A k \in Missing : m <= k
    <3>. HIDE DEF Defined
    <3>1. n \in Missing /\ Missing \subseteq Nat
      BY <1>2
    <3>. QED BY <3>1, LeastOf
  <2>. HIDE DEF Defined
  <2>2. m # 0 /\ m - 1 \in Nat /\ m - 1 \in Defined
    BY <1>6, <2>1
  <2>. QED BY <1>7, <2>1, <2>2
<1>9. fold = [s \in SUBSET D |-> Step(fold, s)]
  <2>1. PICK f : \A s \in SUBSET D : f[s] = Step(f, s)
    <3>. HIDE DEF Step, Upto
    <3>. QED BY <1>5, <1>8
  <2>. DEFINE g == [s \in SUBSET D |-> f[s]]
  <2>2. \A s \in SUBSET D : g[s] = Step(g, s)
    <3>1. \A s \in SUBSET D : Step(f, s) = Step(g, s)
      OBVIOUS
    <3>. HIDE DEF Step
    <3>. QED BY <2>1, <3>1
  <2>3. g = [s \in SUBSET D |-> Step(g, s)]
    <3>. HIDE DEF Step
    <3>. QED BY <2>2
  <2>. HIDE DEF g, Step
  <2>. QED BY <2>3
<1>10. \A s \in SUBSET D : fold[s] = Step(fold, s)
  <2>. HIDE DEF fold, Step
  <2>. QED BY <1>9
<1>. HIDE DEF fold
<1>. DEFINE Kept(s) == fold[s] \in Seq(S)
            Good == {k \in Nat : \A s \in Upto(k) : Kept(s)}
<1>11. Kept({})
  <2>1. fold[{}] = <<>>
    <3>. HIDE DEF Keep
    <3>. QED BY <1>10
  <2>. QED BY <2>1
<1>12. \A s \in SUBSET D : s # {} /\ Kept(s \ {Max(s)}) => Kept(s)
  <2>. SUFFICES ASSUME NEW s \in SUBSET D, s # {}, Kept(s \ {Max(s)})
                PROVE  Kept(s)
    OBVIOUS
  <2>1. fold[s] = Keep(fold[s \ {Max(s)}], all[Max(s)])
    BY <1>10
  <2>2. Max(s) \in DOMAIN all
    BY <1>3 DEF D
  <2>3. all[Max(s)] \in S
    BY <2>2
  <2>. QED BY <2>1, <2>3
<1>. HIDE DEF Kept
<1>13. 0 \in Good
  BY <1>5, <1>11
<1>14. \A k \in Nat : k \in Good => k + 1 \in Good
  <2>. SUFFICES ASSUME NEW k \in Nat, k \in Good, NEW s \in Upto(k + 1)
                PROVE  Kept(s)
    OBVIOUS
  <2>1. s # {} => (s \ {Max(s)}) \in Upto(k)
    BY <1>4
  <2>. QED BY <2>1, <1>11, <1>12
<1>15. n \in Good
  <2>. SUFFICES ASSUME n \notin Good PROVE FALSE
    OBVIOUS
  <2>. DEFINE Missing == {k \in Nat : k \notin Good}
  <2>1. PICK m \in Missing : \A k \in Missing : m <= k
    <3>. HIDE DEF Good
    <3>1. n \in Missing /\ Missing \subseteq Nat
      BY <1>2
    <3>. QED BY <3>1, LeastOf
  <2>. HIDE DEF Good
  <2>2. m # 0 /\ m - 1 \in Nat /\ m - 1 \in Good
    BY <1>13, <2>1
  <2>. QED BY <1>14, <2>1, <2>2
<1>16. Kept(D)
  BY <1>5, <1>15
<1>. QED BY <1>1, <1>16 DEF Kept

LEMMA ExpiryTold ==
    ASSUME NEW s, IsCard(s), NEW ev, ev.type = "approval_expired"
    PROVE  LET d == ReduceApproval(s, ev) IN
           /\ IsCard(d) /\ d.expired = TRUE
           /\ d.terminal = s.terminal /\ d.subtype = s.subtype /\ d.error = s.error
           /\ ExpiryMarked(s) => ExpiryMarked(d)
           /\ d.approvals = [i \in DOMAIN s.approvals |->
                                IF s.approvals[i].id = ev.id THEN [s.approvals[i] EXCEPT !.expired = TRUE]
                                ELSE s.approvals[i]]
<1>. DEFINE as == [i \in DOMAIN s.approvals |->
                      IF s.approvals[i].id = ev.id THEN [s.approvals[i] EXCEPT !.expired = TRUE]
                      ELSE s.approvals[i]]
<1>1. ReduceApproval(s, ev) = [[s EXCEPT !.approvals = as] EXCEPT !.expired = TRUE]
  BY DEF ReduceApproval
<1>. HIDE DEF as
<1>2. PICK d : d = [[s EXCEPT !.approvals = as] EXCEPT !.expired = TRUE]
  OBVIOUS
<1>3. /\ IsCard(d) /\ d.expired = TRUE
      /\ d.terminal = s.terminal /\ d.subtype = s.subtype /\ d.error = s.error
      /\ d.approvals = as
  BY <1>2 DEF IsCard
<1>4. ExpiryMarked(s) => ExpiryMarked(d)
  <2>. SUFFICES ASSUME ExpiryMarked(s) PROVE ExpiryMarked(d)
    OBVIOUS
  <2>1. PICK S : s.approvals \in Seq(S) /\ \A a \in S : DOMAIN a = Entry
    BY DEF ExpiryMarked
  <2>. DEFINE T == S \cup {[a EXCEPT !.expired = TRUE] : a \in S}
  <2>2. \A a \in T : DOMAIN a = Entry
    BY <2>1 DEF Entry
  <2>3. as \in Seq(T)
    BY <2>1 DEF as
  <2>. HIDE DEF T
  <2>. QED BY <1>3, <2>2, <2>3 DEF ExpiryMarked
<1>. QED BY <1>1, <1>2, <1>3, <1>4 DEF as

LEMMA RequestAsked ==
    ASSUME NEW s, IsCard(s), NEW S, s.approvals \in Seq(S), NEW ev, ev.type = "approval_requested",
           [id |-> ev.id, view |-> ev.view, expired |-> FALSE] \in S
    PROVE  LET as == ReduceApproval(s, ev).approvals IN
           /\ as \in Seq(S)
           /\ \A i \in DOMAIN as :
                 \/ as[i] = [id |-> ev.id, view |-> ev.view, expired |-> FALSE]
                 \/ \E j \in DOMAIN s.approvals : as[i] = s.approvals[j]
<1>. DEFINE all == s.approvals
            new == [id |-> ev.id, view |-> ev.view, expired |-> FALSE]
            replaced == [i \in DOMAIN all |-> IF all[i].id = ev.id THEN new ELSE all[i]]
<1>1. PICK as : /\ as \in {replaced, Append(all, new)}
                /\ ReduceApproval(s, ev) = [s EXCEPT !.approvals = as]
  BY DEF ReduceApproval
<1>2. ReduceApproval(s, ev).approvals = as
  BY <1>1 DEF IsCard
<1>3. all \in Seq(S) /\ new \in S
  OBVIOUS
<1>. HIDE DEF new, all
<1>4. /\ replaced \in Seq(S)
      /\ \A i \in DOMAIN replaced : replaced[i] = new \/ \E j \in DOMAIN all : replaced[i] = all[j]
  BY <1>3
<1>. HIDE DEF replaced
<1>5. /\ Append(all, new) \in Seq(S)
      /\ \A i \in DOMAIN Append(all, new) :
            Append(all, new)[i] = new \/ \E j \in DOMAIN all : Append(all, new)[i] = all[j]
  BY <1>3
<1>6. as \in Seq(S) /\ \A i \in DOMAIN as : as[i] = new \/ \E j \in DOMAIN all : as[i] = all[j]
  BY <1>1, <1>4, <1>5
<1>. QED BY <1>2, <1>6 DEF all, new

LEMMA RequestResolved ==
    ASSUME NEW s, IsCard(s), NEW S, s.approvals \in Seq(S), NEW ev, ev.type = "approval_resolved"
    PROVE  ReduceApproval(s, ev).approvals \in Seq(S)
<1>1. ReduceApproval(s, ev) = [s EXCEPT !.approvals = WithoutRequest(s.approvals, ev.id)]
  BY DEF ReduceApproval
<1>2. ReduceApproval(s, ev).approvals = WithoutRequest(s.approvals, ev.id)
  BY <1>1 DEF IsCard
<1>. QED BY <1>2, WithoutKeeps

LEMMA ViewUpdated ==
    ASSUME NEW s, IsCard(s), NEW ev, ev.type = "approval_view_updated"
    PROVE  ReduceApproval(s, ev).approvals =
              [i \in DOMAIN s.approvals |->
                  IF s.approvals[i].id = ev.id THEN [s.approvals[i] EXCEPT !.view = ev.view]
                  ELSE s.approvals[i]]
<1>. DEFINE as == [i \in DOMAIN s.approvals |->
                      IF s.approvals[i].id = ev.id THEN [s.approvals[i] EXCEPT !.view = ev.view]
                      ELSE s.approvals[i]]
<1>1. ReduceApproval(s, ev) = [s EXCEPT !.approvals = as]
  BY DEF ReduceApproval
<1>2. ReduceApproval(s, ev).approvals = as
  <2>. HIDE DEF as
  <2>. QED BY <1>1 DEF IsCard
<1>. QED BY <1>2

(* Only the approvals change, and none of them expires.                    *)
LEMMA ApprovalEnd ==
    ASSUME NEW s, IsCard(s), NEW ev,
           ev.type \in {"approval_requested", "approval_resolved", "approval_view_updated"}
    PROVE  SameEnd(s, ReduceApproval(s, ev))
<1>. DEFINE d == ReduceApproval(s, ev)
<1>1. PICK as : d = [s EXCEPT !.approvals = as]
  BY DEF ReduceApproval
<1>2. ExpiryMarked(s) => ExpiryMarked(d)
  <2>. SUFFICES ASSUME ExpiryMarked(s) PROVE ExpiryMarked(d)
    OBVIOUS
  <2>1. PICK S : s.approvals \in Seq(S) /\ \A a \in S : DOMAIN a = Entry /\ (a.expired => s.expired)
    BY DEF ExpiryMarked
  <2>2. d.expired = s.expired
    BY <1>1 DEF IsCard
  <2>3. CASE ev.type = "approval_requested"
    <3>. DEFINE new == [id |-> ev.id, view |-> ev.view, expired |-> FALSE]
                T == S \cup {new}
    <3>1. \A a \in T : DOMAIN a = Entry /\ (a.expired => s.expired)
      BY <2>1 DEF Entry
    <3>2. s.approvals \in Seq(T) /\ new \in T
      BY <2>1
    <3>. HIDE DEF T
    <3>3. d.approvals \in Seq(T)
      BY <2>3, <3>2, RequestAsked
    <3>. QED BY <2>2, <3>1, <3>3 DEF ExpiryMarked
  <2>4. CASE ev.type = "approval_resolved"
    <3>1. d.approvals \in Seq(S)
      BY <2>1, <2>4, RequestResolved
    <3>. HIDE DEF d
    <3>. QED BY <2>1, <2>2, <3>1 DEF ExpiryMarked
  <2>5. CASE ev.type = "approval_view_updated"
    <3>. DEFINE T == S \cup {[a EXCEPT !.view = ev.view] : a \in S}
    <3>1. \A a \in T : DOMAIN a = Entry /\ (a.expired => s.expired)
      BY <2>1 DEF Entry
    <3>2. d.approvals = [i \in DOMAIN s.approvals |->
                            IF s.approvals[i].id = ev.id THEN [s.approvals[i] EXCEPT !.view = ev.view]
                            ELSE s.approvals[i]]
      BY <2>5, ViewUpdated
    <3>3. d.approvals \in Seq(T)
      <4>. HIDE DEF d
      <4>. QED BY <2>1, <3>2
    <3>. HIDE DEF d, T
    <3>. QED BY <2>2, <3>1, <3>3 DEF ExpiryMarked
  <2>. QED BY <2>3, <2>4, <2>5
<1>. HIDE DEF d
<1>3. SameEnd(s, d)
  BY <1>1, <1>2 DEF IsCard, SameEnd
<1>. QED BY <1>3 DEF d

-----------------------------------------------------------------------------
(* What the card hears.                                                    *)

Quiet(ev) ==
    \/ ev.type = "turn_diff" /\ ev.part \in {"file", "tool", "text", "thinking", "plan"}
    \/ ev.type = "assistant" /\ \E S : ev.content \in Seq(S)
    \/ ev.type \in {"user", "plan"}

LEMMA HearsQuiet ==
    ASSUME NEW c, IsCard(c), NEW ev, Quiet(ev)
    PROVE  SameEnd(c, Hears(c, ev)) /\ SameAsks(c, Hears(c, ev))
<1>1. SameEnd(c, c) /\ SameAsks(c, c)
  BY DEF SameEnd, SameAsks
<1>2. ev.type # "result" /\ (Hears(c, ev) = IF IsOver(c) THEN c ELSE ReduceRunState(c, ev))
  BY DEF Hears, Quiet
<1>3. CASE ev.type = "turn_diff"
  BY <1>1, <1>2, <1>3, TurnDiffSame DEF ReduceRunState, Quiet
<1>4. CASE ev.type = "assistant"
  <2>1. ReduceRunState(c, ev) \in {c, FoldLeft(ReduceContent, c, ev.content)}
    <3>1. ReduceRunState(c, ev) \in {c, ReduceAssistant(c, ev)}
      BY <1>4 DEF ReduceRunState
    <3>2. ReduceAssistant(c, ev) = FoldLeft(ReduceContent, c, ev.content)
      BY Zenon DEF ReduceAssistant
    <3>. QED BY <3>1, <3>2, Zenon
  <2>2. PICK S : ev.content \in Seq(S)
    BY <1>4 DEF Quiet
  <2>3. LET d == FoldLeft(ReduceContent, c, ev.content) IN SameEnd(c, d) /\ SameAsks(c, d)
    BY <2>2, AssistantSame
  <2>. QED BY <1>1, <1>2, <2>1, <2>3, Zenon
<1>5. CASE ev.type = "user"
  BY <1>1, <1>2, <1>5, ToolResultSame DEF ReduceRunState
<1>6. CASE ev.type = "plan"
  BY <1>1, <1>2, <1>6, PlanSame DEF ReduceRunState
<1>. QED BY <1>3, <1>4, <1>5, <1>6 DEF Quiet

LEMMA HearsApproval ==
    ASSUME NEW c, IsCard(c), NEW ev,
           ev.type \in {"approval_requested", "approval_resolved", "approval_view_updated"}
    PROVE  /\ SameEnd(c, Hears(c, ev))
           /\ Hears(c, ev) = IF IsOver(c) THEN c ELSE ReduceApproval(c, ev)
<1>1. Hears(c, ev) = IF IsOver(c) THEN c ELSE ReduceApproval(c, ev)
  BY DEF Hears, ReduceRunState
<1>2. SameEnd(c, c)
  BY DEF SameEnd
<1>. QED BY <1>1, <1>2, ApprovalEnd

LEMMA HearsResult ==
    ASSUME NEW c, IsCard(c), NEW st \in Subtype
    PROVE  LET d == Hears(c, ResultOf(st)) IN
           /\ SameAsks(c, d)
           /\ IsOver(c) \/ ~ c.init => d = c
           /\ ~ IsOver(c) /\ c.init =>
                 /\ IsCard(d) /\ d.terminal = "finalizing" /\ d.init
                 /\ d.subtype = IF "error" \in {c.subtype, st} THEN "error"
                                ELSE IF "interrupted" \in {c.subtype, st} THEN "interrupted"
                                ELSE "success"
                 /\ d.error = (c.error \/ st = "error")
                 /\ d.expired = c.expired /\ d.reason = c.reason
                 /\ ExpiryMarked(c) => ExpiryMarked(d)
<1>1. ResultOf(st).type = "result" /\ ResultOf(st).subtype = st
  BY DEF ResultOf
<1>2. IsOver(c) \/ ~ c.init => Hears(c, ResultOf(st)) = c
  BY <1>1 DEF Hears
<1>3. CASE ~ IsOver(c) /\ c.init
  <2>1. Hears(c, ResultOf(st)) = ReduceResult(c, ResultOf(st))
    BY <1>1, <1>3 DEF Hears, ReduceRunState
  <2>2. PICK bs, sub, err :
           /\ ReduceResult(c, ResultOf(st)) =
                 [c EXCEPT !.terminal = "finalizing", !.blocks = bs, !.subtype = sub, !.error = err]
           /\ sub = IF "error" \in {c.subtype, st} THEN "error"
                    ELSE IF "interrupted" \in {c.subtype, st} THEN "interrupted"
                    ELSE "success"
           /\ err = (c.error \/ st = "error")
    BY <1>1, <1>3 DEF ReduceResult
  <2>3. PICK d : d = [c EXCEPT !.terminal = "finalizing", !.blocks = bs, !.subtype = sub, !.error = err]
    OBVIOUS
  <2>4. /\ IsCard(d) /\ d.terminal = "finalizing" /\ d.init = c.init /\ d.subtype = sub /\ d.error = err
        /\ d.expired = c.expired /\ d.reason = c.reason /\ d.approvals = c.approvals
    BY <2>3 DEF IsCard
  <2>5. ExpiryMarked(c) => ExpiryMarked(d)
    BY <2>4, MarkedSame
  <2>. QED BY <1>3, <2>1, <2>2, <2>3, <2>4, <2>5 DEF SameAsks
<1>4. CASE IsOver(c) \/ ~ c.init
  BY <1>2, <1>4 DEF SameAsks
<1>. QED BY <1>2, <1>3, <1>4

-----------------------------------------------------------------------------
(* How the run ended.                                                      *)

LEMMA WorstOf ==
    ASSUME NEW rs \in Seq(Subtype), NEW st \in Subtype
    PROVE  /\ Worst(Append(rs, st)) = IF "error" \in {Worst(rs), st} THEN "error"
                                      ELSE IF "interrupted" \in {Worst(rs), st} THEN "interrupted"
                                      ELSE "success"
           /\ "error" \in ToSet(Append(rs, st)) <=> ("error" \in ToSet(rs) \/ st = "error")
           /\ Append(rs, st) # <<>> /\ Append(rs, st) \in Seq(Subtype)
<1>1. ToSet(Append(rs, st)) = ToSet(rs) \cup {st}
  BY DEF ToSet
<1>2. Append(rs, st) # <<>> /\ Append(rs, st) \in Seq(Subtype)
  <2>1. Len(Append(rs, st)) = Len(rs) + 1 /\ Len(rs) \in Nat
    OBVIOUS
  <2>2. Append(rs, st) # <<>>
    BY <2>1
  <2>. QED BY <2>2
<1>3. rs = <<>> => ToSet(rs) = {}
  BY DEF ToSet
<1>4. ToSet(rs) \subseteq Subtype
  BY DEF ToSet
<1>. DEFINE all == Append(rs, st)
<1>. HIDE DEF all
<1>5. Worst(all) = IF "error" \in {Worst(rs), st} THEN "error"
                   ELSE IF "interrupted" \in {Worst(rs), st} THEN "interrupted"
                   ELSE "success"
  BY <1>1, <1>2, <1>3, <1>4 DEF Worst, Subtype, all
<1>. QED BY <1>1, <1>2, <1>5 DEF all

(* What is said of the end holds while the card says the same of it.       *)
LEMMA EndKept ==
    ASSUME EndInv, SameEnd(card, card'), UNCHANGED <<results, phase, endedBy, lapsed>>
    PROVE  EndInv'
<1>1. IsCard(card') /\ (IsOver(card') <=> IsOver(card))
  BY DEF SameEnd, IsOver
<1>2. RunTellsItsEnd'
  BY DEF EndInv, RunTellsItsEnd, SameEnd
<1>. QED BY <1>1, <1>2 DEF EndInv, SameEnd

LEMMA ResultKept ==
    ASSUME EndInv, phase = "streaming", NEW st \in Subtype, NEW d, SameEnd(card, d),
           card' = Hears(d, ResultOf(st)), Gives(st), UNCHANGED <<phase, endedBy, lapsed>>
    PROVE  EndInv'
<1>1. IsCard(d) /\ d.init = card.init /\ (IsOver(d) <=> IsOver(card))
  BY DEF SameEnd, IsOver
<1>2. CASE IsOver(card) \/ ~ card.init
  <2>1. card' = d
    BY <1>1, <1>2, HearsResult
  <2>2. results' = results
    BY <1>2 DEF Gives
  <2>. QED BY <2>1, <2>2, EndKept
<1>3. CASE ~ IsOver(card) /\ card.init
  <2>1. /\ IsCard(card') /\ card'.terminal = "finalizing"
        /\ card'.subtype = IF "error" \in {d.subtype, st} THEN "error"
                           ELSE IF "interrupted" \in {d.subtype, st} THEN "interrupted"
                           ELSE "success"
        /\ card'.error = (d.error \/ st = "error")
        /\ card'.expired = d.expired /\ card'.reason = d.reason
        /\ ExpiryMarked(d) => ExpiryMarked(card')
    <3>1. ~ IsOver(d) /\ d.init
      BY <1>1, <1>3
    <3>. DEFINE e == Hears(d, ResultOf(st))
    <3>2. /\ IsCard(e) /\ e.terminal = "finalizing"
          /\ e.subtype = IF "error" \in {d.subtype, st} THEN "error"
                         ELSE IF "interrupted" \in {d.subtype, st} THEN "interrupted"
                         ELSE "success"
          /\ e.error = (d.error \/ st = "error")
          /\ e.expired = d.expired /\ e.reason = d.reason
          /\ ExpiryMarked(d) => ExpiryMarked(e)
      BY <1>1, <3>1, HearsResult
    <3>. HIDE DEF e
    <3>3. card' = e
      BY DEF e
    <3>. QED BY <3>2, <3>3
  <2>2. results' = Append(results, st)
    BY <1>3 DEF Gives
  <2>3. /\ d.subtype = Worst(results) /\ (d.error <=> "error" \in ToSet(results))
        /\ d.expired = lapsed /\ (d.reason = "approval_timeout" => d.expired) /\ ExpiryMarked(d)
    BY <1>3 DEF EndInv, SameEnd
  <2>4. ~ IsOver(card')
    BY <2>1 DEF IsOver
  <2>5. results \in Seq(Subtype) /\ endedBy = "nobody"
    BY <1>3 DEF EndInv
  <2>6. /\ results' \in Seq(Subtype) /\ results' # <<>>
        /\ Worst(results') = card'.subtype
        /\ "error" \in ToSet(results') <=> card'.error
    BY <2>1, <2>2, <2>3, <2>5, WorstOf
  <2>7. RunTellsItsEnd'
    BY <2>5 DEF RunTellsItsEnd
  <2>. QED BY <2>1, <2>3, <2>4, <2>5, <2>6, <2>7 DEF EndInv
<1>. QED BY <1>2, <1>3

LEMMA FinishTold ==
    ASSUME NEW c, IsCard(c), NEW t, t \notin {"running", "finalizing"}, NEW reason, NEW err,
           NEW d, d = FinishRun(c, t, reason, err)
    PROVE  /\ IsCard(d) /\ IsOver(d)
           /\ d.expired = c.expired /\ d.approvals = c.approvals
           /\ d.terminal = IF IsOver(c) THEN c.terminal ELSE t
           /\ d.reason = IF reason # "none" THEN reason
                         ELSE IF IsOver(c) THEN c.reason
                         ELSE IF t = "interrupted" /\ c.expired THEN "approval_timeout" ELSE "none"
<1>1. CASE IsOver(c)
  <2>1. PICK e, r : /\ d = [c EXCEPT !.error = e, !.reason = r]
                    /\ r = IF reason # "none" THEN reason ELSE c.reason
    BY <1>1 DEF FinishRun
  <2>2. /\ IsCard(d) /\ d.expired = c.expired /\ d.approvals = c.approvals /\ d.terminal = c.terminal
        /\ d.reason = r
    BY <2>1 DEF IsCard
  <2>3. IsOver(d)
    BY <1>1, <2>2 DEF IsOver
  <2>. QED BY <1>1, <2>1, <2>2, <2>3
<1>2. CASE ~ IsOver(c)
  <2>1. PICK bs, e, r : /\ d = [c EXCEPT !.terminal = t, !.blocks = bs, !.error = e, !.reason = r]
                        /\ r = IF reason # "none" THEN reason
                               ELSE IF t = "interrupted" /\ c.expired THEN "approval_timeout" ELSE "none"
    BY <1>2 DEF FinishRun
  <2>2. /\ IsCard(d) /\ d.expired = c.expired /\ d.approvals = c.approvals /\ d.terminal = t
        /\ d.reason = r
    BY <2>1 DEF IsCard
  <2>3. IsOver(d)
    BY <2>2 DEF IsOver
  <2>. QED BY <1>2, <2>1, <2>2, <2>3
<1>. QED BY <1>1, <1>2

(* The end of a run, whoever sets it, but for what it tells.               *)
LEMMA EndKeeps ==
    ASSUME EndInv, NEW t \in {"done", "error", "interrupted", "idle_timeout"}, NEW reason \in {"none", "user_stop"},
           NEW err, card' = FinishRun(card, t, reason, err), endedBy' # "nobody", UNCHANGED <<results, lapsed>>,
           RunTellsItsEnd'
    PROVE  EndInv'
<1>1. IsCard(card) /\ t \notin {"running", "finalizing"}
  BY DEF EndInv
<1>2. /\ IsCard(card') /\ IsOver(card') /\ card'.expired = card.expired /\ card'.approvals = card.approvals
      /\ card'.reason = IF reason # "none" THEN reason
                    ELSE IF IsOver(card) THEN card.reason
                    ELSE IF t = "interrupted" /\ card.expired THEN "approval_timeout" ELSE "none"
  BY <1>1, FinishTold
<1>3. ExpiryMarked(card')
  BY <1>2, MarkedSame DEF EndInv
<1>4. card'.reason = "approval_timeout" => card'.expired
  BY <1>2 DEF EndInv
<1>. QED BY <1>2, <1>3, <1>4 DEF EndInv

LEMMA StreamEndTold ==
    ASSUME EndInv, StreamEnds
    PROVE  EndInv'
<1>. USE DEF StreamEnds
<1>1. CASE IsOver(card)
  <2>1. card' = card /\ endedBy' = endedBy /\ UNCHANGED <<results, lapsed>>
    BY <1>1 DEF IsOver
  <2>. QED BY <2>1, <1>1 DEF EndInv, RunTellsItsEnd
<1>2. CASE ~ IsOver(card)
  <2>1. card.terminal \in {"running", "finalizing"} /\ endedBy' = "stream" /\ results' = results /\ lapsed' = lapsed
    BY <1>2 DEF IsOver
  <2>2. PICK t, err : card' = FinishRun(card, t, "none", err)
                      /\ t = IF card.terminal = "running" THEN "error"
                             ELSE IF card.subtype = "error" \/ card.error THEN "error"
                             ELSE IF card.subtype = "interrupted" THEN "interrupted" ELSE "done"
    BY <2>1
  <2>3. t \in {"error", "interrupted", "done"}
    BY <2>2
  <2>4. card'.terminal = t
    <3>1. IsCard(card) /\ t \notin {"running", "finalizing"}
      BY <2>3 DEF EndInv
    <3>2. PICK reason : card' = FinishRun(card, t, reason, err)
      BY <2>2
    <3>. QED BY ONLY <1>2, <3>1, <3>2, FinishTold
  <2>5. RunTellsItsEnd'
    BY <1>2, <2>1, <2>2, <2>4 DEF RunTellsItsEnd, EndInv, Worst
  <2>. QED BY <2>1, <2>2, <2>3, <2>5, EndKeeps
<1>. QED BY <1>1, <1>2

(* The first end stays, and a stop that comes later only adds its reason.  *)
LEMMA OtherEndTold ==
    ASSUME EndInv, StreamThrows \/ UserStops \/ WatchdogFires
    PROVE  EndInv'
<1>1. UNCHANGED <<results, lapsed>>
  BY DEF StreamThrows, UserStops, WatchdogFires
<1>2. CASE UserStops
  <2>1. /\ card' = FinishRun(card, "interrupted", "user_stop", FALSE)
        /\ endedBy' = IF IsOver(card) THEN endedBy ELSE "user"
        /\ card.terminal \in {"running", "finalizing", "interrupted"}
    BY <1>2 DEF UserStops
  <2>2. card'.terminal = (IF IsOver(card) THEN card.terminal ELSE "interrupted") /\ card'.reason = "user_stop"
    <3>1. IsCard(card)
      BY DEF EndInv
    <3>2. PICK reason, err : reason = "user_stop" /\ card' = FinishRun(card, "interrupted", reason, err)
      BY <2>1
    <3>. QED BY <3>1, <3>2, FinishTold
  <2>3. RunTellsItsEnd'
    BY <1>1, <2>1, <2>2 DEF EndInv, RunTellsItsEnd, IsOver
  <2>4. endedBy' # "nobody"
    BY <2>1 DEF EndInv
  <2>. QED BY <1>1, <2>1, <2>3, <2>4, EndKeeps
<1>3. CASE WatchdogFires
  <2>1. card' = FinishRun(card, "idle_timeout", "none", FALSE) /\ endedBy' = "watchdog" /\ ~ IsOver(card)
    BY <1>3 DEF WatchdogFires
  <2>2. card'.terminal = "idle_timeout"
    <3>1. IsCard(card)
      BY DEF EndInv
    <3>2. PICK reason, err : card' = FinishRun(card, "idle_timeout", reason, err)
      BY <2>1
    <3>3. ~ IsOver(card)
      BY <2>1
    <3>. QED BY <3>1, <3>2, <3>3, FinishTold
  <2>3. RunTellsItsEnd'
    BY <2>1, <2>2 DEF RunTellsItsEnd
  <2>. QED BY <1>1, <2>1, <2>3, EndKeeps
<1>4. CASE StreamThrows /\ ~ IsOver(card)
  <2>1. card' = FinishRun(card, "error", "none", TRUE) /\ endedBy' = "throw"
    BY <1>4 DEF StreamThrows
  <2>2. card'.terminal = "error"
    <3>1. IsCard(card)
      BY DEF EndInv
    <3>2. PICK reason, err : card' = FinishRun(card, "error", reason, err)
      BY <2>1
    <3>. QED BY <1>4, <3>1, <3>2, FinishTold
  <2>3. RunTellsItsEnd'
    BY <2>1, <2>2 DEF RunTellsItsEnd
  <2>. QED BY <1>1, <2>1, <2>3, EndKeeps
<1>5. CASE StreamThrows /\ IsOver(card)
  <2>1. card' = card /\ endedBy' = endedBy
    BY <1>5 DEF StreamThrows
  <2>. QED BY <1>1, <1>5, <2>1 DEF EndInv, RunTellsItsEnd
<1>. QED BY <1>2, <1>3, <1>4, <1>5

LEMMA ExpiryKept ==
    ASSUME EndInv, ApprovalExpires
    PROVE  EndInv'
<1>. USE DEF ApprovalExpires
<1>1. PICK i : card' = ReduceRunState(card, [type |-> "approval_expired", id |-> card.approvals[i].id])
  OBVIOUS
<1>2. UNCHANGED <<phase, results, endedBy>> /\ phase = "streaming"
  OBVIOUS
<1>. DEFINE ev == [type |-> "approval_expired", id |-> card.approvals[i].id]
<1>3. ev.type = "approval_expired"
  OBVIOUS
<1>. HIDE DEF ev
<1>4. CASE IsOver(card)
  <2>1. card' = card /\ lapsed' = lapsed
    BY <1>1, <1>4 DEF ReduceRunState
  <2>. QED BY <1>2, <1>4, <2>1 DEF EndInv, RunTellsItsEnd
<1>5. CASE ~ IsOver(card)
  <2>1. card' = ReduceApproval(card, ev)
    BY <1>1, <1>3, <1>5 DEF ReduceRunState, ev
  <2>2. /\ IsCard(card') /\ card'.expired = TRUE /\ lapsed' = TRUE /\ ExpiryMarked(card')
        /\ card'.terminal = card.terminal /\ card'.subtype = card.subtype /\ card'.error = card.error
    <3>1. IsCard(card) /\ ExpiryMarked(card)
      BY DEF EndInv
    <3>2. /\ IsCard(card') /\ card'.expired = TRUE /\ ExpiryMarked(card')
          /\ card'.terminal = card.terminal /\ card'.subtype = card.subtype /\ card'.error = card.error
      BY ONLY <1>3, <2>1, <3>1, ExpiryTold
    <3>. QED BY <1>5, <3>2
  <2>3. ~ IsOver(card')
    BY <1>5, <2>2 DEF IsOver
  <2>. QED BY <1>2, <1>5, <2>2, <2>3 DEF EndInv, RunTellsItsEnd
<1>. QED BY <1>4, <1>5

-----------------------------------------------------------------------------
(* The steps of the translators.                                           *)

LEMMA EmitNone == Emit(<<>>) => card' = card
BY HearsNone DEF Emit

LEMMA EmitOne == \A e : Emit(<<e>>) => card' = Hears(card, e)
BY HearsOne DEF Emit

LEMMA AppendPair ==
    ASSUME NEW a, NEW b
    PROVE  Append(<<a>>, b) = <<a, b>>
<1>1. <<a>> \in Seq({a, b}) /\ <<a, b>> \in Seq({a, b})
  OBVIOUS
<1>2. Append(<<a>>, b) \in Seq({a, b}) /\ Len(Append(<<a>>, b)) = 2
  BY <1>1
<1>3. Append(<<a>>, b)[1] = a /\ Append(<<a>>, b)[2] = b
  BY <1>1
<1>4. \A i \in 1..2 : Append(<<a>>, b)[i] = <<a, b>>[i]
  BY <1>3
<1>5. Len(<<a, b>>) = 2
  OBVIOUS
<1>. QED BY <1>1, <1>2, <1>4, <1>5, SeqEqual

LEMMA EmitTwo ==
    ASSUME NEW d, NEW e
    PROVE  Emit(<<d, e>>) => card' = Hears(Hears(card, d), e)
<1>1. \A x, y : FoldLeft(Hears, card, <<x, y>>) = Hears(Hears(card, x), y)
  BY HearsTwo, Zenon
<1>. QED BY <1>1 DEF Emit

(* A step that tells nothing of the end, and one that asks nothing either. *)
Untold == SameEnd(card, card') /\ UNCHANGED <<results, phase, endedBy, lapsed>>
Silent == Untold /\ SameAsks(card, card')

LEMMA SilentStays ==
    ASSUME IsCard(card), Wire, results' = results, card' = card
    PROVE  Silent
BY DEF Silent, Untold, SameEnd, SameAsks, Wire

LEMMA SilentQuiet ==
    ASSUME IsCard(card), Wire, results' = results
    PROVE  \A e : Quiet(e) /\ Emit(<<e>>) => Silent
BY EmitOne, HearsQuiet DEF Silent, Untold, Wire

LEMMA UntoldApproval ==
    ASSUME IsCard(card), Wire, results' = results
    PROVE  \A e : /\ e.type \in {"approval_requested", "approval_resolved", "approval_view_updated"}
                  /\ Emit(<<e>>)
                  => Untold
BY EmitOne, HearsApproval DEF Untold, Wire

LEMMA QuietTurnDiff ==
    /\ \A p \in {"file", "tool", "text", "thinking", "plan"} : \A i, t, c : Quiet(TurnDiff(p, i, t, c))
    /\ \A i, c, st : Quiet(ToolDiff(i, c, st))
    /\ \A t : Quiet(Plan(t))
    /\ \A i, st : Quiet(ToolResult(i, st))
BY DEF Quiet, TurnDiff, ToolDiff, Plan, ToolResult

LEMMA QuietAssistant ==
    ASSUME NEW S, NEW c \in Seq(S)
    PROVE  Quiet(Assistant(c))
BY DEF Quiet, Assistant

LEMMA CodexTextsSilent ==
    ASSUME IsCard(card), CodexTexts
    PROVE  Silent
<1>1. CASE TurnStarted
  BY <1>1, SilentStays DEF TurnStarted
<1>2. ASSUME NEW m, AgentMessageDelta(m)
      PROVE  Silent
  BY <1>2, SilentQuiet, QuietTurnDiff DEF AgentMessageDelta
<1>3. ASSUME NEW m, NEW text, AgentMessageCompleted(m, text)
      PROVE  Silent
  <2>1. PICK final : Emit(IF final = <<>> THEN <<>> ELSE <<TurnDiff("text", m, final, TRUE)>>)
    BY <1>3 DEF AgentMessageCompleted
  <2>2. Wire /\ results' = results
    BY <1>3 DEF AgentMessageCompleted
  <2>3. CASE final = <<>>
    BY <2>1, <2>2, <2>3, EmitNone, SilentStays
  <2>4. CASE final # <<>>
    BY <2>1, <2>2, <2>4, SilentQuiet, QuietTurnDiff
  <2>. QED BY <2>3, <2>4
<1>4. ASSUME NEW i, ReasoningDelta(i)
      PROVE  Silent
  BY <1>4, SilentQuiet, QuietTurnDiff DEF ReasoningDelta
<1>5. CASE ReasoningSummaryDelta
  BY <1>5, SilentQuiet, QuietTurnDiff DEF ReasoningSummaryDelta
<1>6. ASSUME NEW summary, ReasoningCompleted(summary)
      PROVE  Silent
  <2>1. CASE summary = <<>>
    BY <1>6, <2>1, SilentStays DEF ReasoningCompleted
  <2>2. CASE summary # <<>>
    BY <1>6, <2>2, SilentQuiet, QuietTurnDiff DEF ReasoningCompleted
  <2>. QED BY <2>1, <2>2
<1>7. CASE PlanDelta
  BY <1>7, SilentQuiet, QuietTurnDiff DEF PlanDelta
<1>8. ASSUME NEW text, PlanCompleted(text)
      PROVE  Silent
  <2>1. CASE text = <<>>
    BY <1>8, <2>1, SilentStays DEF PlanCompleted
  <2>2. CASE text # <<>>
    BY <1>8, <2>2, SilentQuiet, QuietTurnDiff DEF PlanCompleted
  <2>. QED BY <2>1, <2>2
<1>9. CASE TurnPlanUpdated
  BY <1>9, SilentQuiet, QuietTurnDiff DEF TurnPlanUpdated
<1>. QED BY <1>1, <1>2, <1>3, <1>4, <1>5, <1>6, <1>7, <1>8, <1>9 DEF CodexTexts

LEMMA CodexItemsUntold ==
    ASSUME IsCard(card), CodexItems
    PROVE  /\ Untold
           /\ Silent \/ \E files \in Files : FileChangeStarted(files)
<1>1. ASSUME NEW t, ToolStarted(t)
      PROVE  Silent
  BY <1>1, SilentQuiet, QuietTurnDiff DEF ToolStarted
<1>2. ASSUME NEW t, CommandOutputDelta(t)
      PROVE  Silent
  BY <1>2, SilentQuiet, QuietTurnDiff DEF CommandOutputDelta
<1>3. ASSUME NEW t, NEW outcome, NEW wrote, CommandCompleted(t, outcome, wrote)
      PROVE  Silent
  <2>1. Wire /\ results' = results
    BY <1>3 DEF CommandCompleted
  <2>2. CASE t \in startedToolItems \/ t \in toolOutputByItem'
    BY <1>3, <2>1, <2>2, SilentQuiet, QuietTurnDiff DEF CommandCompleted
  <2>3. CASE ~ (t \in startedToolItems \/ t \in toolOutputByItem')
    BY <1>3, <2>1, <2>3, EmitNone, SilentStays DEF CommandCompleted
  <2>. QED BY <2>2, <2>3
<1>4. ASSUME NEW t, NEW outcome, ToolCompleted(t, outcome)
      PROVE  Silent
  <2>1. Wire /\ results' = results
    BY <1>4 DEF ToolCompleted
  <2>2. CASE t \in startedToolItems
    BY <1>4, <2>1, <2>2, SilentQuiet, QuietTurnDiff DEF ToolCompleted
  <2>3. CASE t \notin startedToolItems
    BY <1>4, <2>1, <2>3, EmitNone, SilentStays DEF ToolCompleted
  <2>. QED BY <2>2, <2>3
<1>5. ASSUME NEW files, FileChangeStarted(files)
      PROVE  Untold
  <2>. DEFINE diff == TurnDiff("file", FileItem, files, FALSE)
              told == [type |-> "approval_view_updated", id |-> pendingFileApprovalByItemId,
                       view |-> View("file", files)]
  <2>1. Wire /\ results' = results /\ Quiet(diff)
    BY <1>5, QuietTurnDiff DEF FileChangeStarted
  <2>2. CASE pendingFileApprovalByItemId = NoItem \/ files = <<>>
    <3>1. Emit(Append(<<>>, diff))
      BY <1>5, <2>2 DEF FileChangeStarted
    <3>2. Append(<<>>, diff) = <<diff>>
      OBVIOUS
    <3>3. Emit(<<diff>>)
      BY <3>1, <3>2, Zenon
    <3>. QED BY <2>1, <3>3, SilentQuiet DEF Silent
  <2>3. CASE ~ (pendingFileApprovalByItemId = NoItem \/ files = <<>>)
    <3>1. Emit(Append(<<told>>, diff))
      BY <1>5, <2>3 DEF FileChangeStarted
    <3>2. Append(<<told>>, diff) = <<told, diff>>
      BY AppendPair
    <3>3. Emit(<<told, diff>>)
      BY <3>1, <3>2, Zenon
    <3>. HIDE DEF diff
    <3>4. SameEnd(card, Hears(card, told))
      BY HearsApproval
    <3>. HIDE DEF told
    <3>5. SameEnd(Hears(card, told), card')
      BY <2>1, <3>3, <3>4, EmitTwo, HearsQuiet DEF SameEnd
    <3>. QED BY <2>1, <3>4, <3>5 DEF SameEnd, Untold, Wire
  <2>. QED BY <2>2, <2>3
<1>6. ASSUME NEW files, FileChangeCompleted(files)
      PROVE  Silent
  BY <1>6, SilentQuiet, QuietTurnDiff DEF FileChangeCompleted
<1>. QED BY <1>1, <1>2, <1>3, <1>4, <1>5, <1>6 DEF CodexItems, Silent

LEMMA ResultStep ==
    ASSUME EndInv, Wire, NEW st \in Subtype, Emit(<<ResultOf(st)>>), Gives(st)
    PROVE  EndInv'
<1>1. card' = Hears(card, ResultOf(st))
  BY EmitOne
<1>2. SameEnd(card, card)
  BY DEF SameEnd, EndInv
<1>. QED BY <1>1, <1>2, ResultKept DEF Wire

LEMMA UntoldStep ==
    ASSUME EndInv, Untold
    PROVE  EndInv'
BY EndKept DEF Untold

LEMMA CodexTurnEnd ==
    ASSUME EndInv, CodexTurn
    PROVE  EndInv'
<1>0. IsCard(card)
  BY DEF EndInv
<1>1. ASSUME NEW id, FileApproval(id)
      PROVE  EndInv'
  <2>1. Untold
    BY <1>0, <1>1, UntoldApproval DEF FileApproval, Requested
  <2>. QED BY <2>1, UntoldStep
<1>2. ASSUME NEW id, OtherApproval(id)
      PROVE  EndInv'
  <2>1. Untold
    BY <1>0, <1>2, UntoldApproval DEF OtherApproval, Requested
  <2>. QED BY <2>1, UntoldStep
<1>3. ASSUME NEW id, ServerRequestResolved(id)
      PROVE  EndInv'
  <2>1. Untold
    BY <1>0, <1>3, UntoldApproval DEF ServerRequestResolved
  <2>. QED BY <2>1, UntoldStep
<1>4. ASSUME NEW status \in Subtype, NEW m, TurnCompleted(status, m)
      PROVE  EndInv'
  <2>1. Wire /\ Gives(status)
    BY <1>4 DEF TurnCompleted
  <2>2. PICK final : \/ final = <<>> /\ Emit(<<ResultOf(status)>>)
                     \/ final # <<>> /\ Emit(<<TurnDiff("text", m, final, TRUE), ResultOf(status)>>)
    <3>. DEFINE final == IF m \in Stream \ closed THEN Append(textByItem[m], Chunk) ELSE <<>>
    <3>1. IF final = <<>> THEN Emit(<<ResultOf(status)>>)
          ELSE Emit(<<TurnDiff("text", m, final, TRUE), ResultOf(status)>>)
      BY <1>4 DEF TurnCompleted
    <3>. HIDE DEF final
    <3>. QED BY <3>1
  <2>3. CASE Emit(<<ResultOf(status)>>)
    BY <2>1, <2>3, ResultStep
  <2>4. CASE Emit(<<TurnDiff("text", m, final, TRUE), ResultOf(status)>>)
    <3>. DEFINE diff == TurnDiff("text", m, final, TRUE)
    <3>1. Quiet(diff)
      BY QuietTurnDiff
    <3>. HIDE DEF diff
    <3>2. card' = Hears(Hears(card, diff), ResultOf(status))
      BY <2>4, EmitTwo DEF diff
    <3>3. SameEnd(card, Hears(card, diff))
      BY <1>0, <3>1, HearsQuiet
    <3>. QED BY <2>1, <3>2, <3>3, ResultKept DEF Wire
  <2>. QED BY <2>2, <2>3, <2>4
<1>5. CASE ServerError
  BY <1>5, ResultStep DEF ServerError, Subtype
<1>6. CASE ThreadCompacted
  BY <1>6, ResultStep DEF ThreadCompacted, Subtype
<1>. QED BY <1>1, <1>2, <1>3, <1>4, <1>5, <1>6 DEF CodexTurn, Subtype

LEMMA CodexEnd ==
    ASSUME EndInv, CodexNext
    PROVE  EndInv'
<1>1. IsCard(card)
  BY DEF EndInv
<1>. QED BY <1>1, CodexTextsSilent, CodexItemsUntold, CodexTurnEnd, UntoldStep DEF CodexNext, Silent

LEMMA QuietParts ==
    /\ \A x : Quiet(Assistant(<<x>>))
    /\ \A x, y : Quiet(Assistant(<<x, y>>))
<1>1. ASSUME NEW x PROVE Quiet(Assistant(<<x>>))
  <2>1. <<x>> \in Seq({x})
    OBVIOUS
  <2>. QED BY <2>1, QuietAssistant
<1>2. ASSUME NEW x, NEW y PROVE Quiet(Assistant(<<x, y>>))
  <2>1. <<x, y>> \in Seq({x, y})
    OBVIOUS
  <2>. QED BY <2>1, QuietAssistant
<1>. QED BY <1>1, <1>2

LEMMA AcpEnd ==
    ASSUME EndInv, AcpNext
    PROVE  EndInv'
<1>0. IsCard(card)
  BY DEF EndInv
<1>1. ASSUME NEW stream, NEW kind \in {"text", "thinking"}, Wire, Streams(stream, kind)
      PROVE  EndInv'
  <2>1. results' = results
    BY <1>1 DEF Streams
  <2>2. CASE agent = "kimi"
    <3>1. PICK text : Emit(<<TurnDiff(kind, stream, text, FALSE)>>)
      BY <1>1, <2>2 DEF Streams
    <3>. QED BY <1>0, <1>1, <2>1, <3>1, SilentQuiet, QuietTurnDiff, UntoldStep DEF Silent
  <2>3. CASE agent # "kimi"
    <3>1. Emit(<<Assistant(<<Delta(kind, <<Chunk>>)>>)>>)
      BY <1>1, <2>3 DEF Streams
    <3>. QED BY <1>0, <1>1, <2>1, <3>1, SilentQuiet, QuietParts, UntoldStep DEF Silent
  <2>. QED BY <2>2, <2>3
<1>2. CASE AgentMessageChunk
  BY <1>1, <1>2 DEF AgentMessageChunk
<1>3. CASE AgentThoughtChunk
  BY <1>1, <1>3 DEF AgentThoughtChunk
<1>4. ASSUME NEW t, NEW args, ToolCall(t, args)
      PROVE  EndInv'
  BY <1>0, <1>4, SilentQuiet, QuietParts, UntoldStep DEF ToolCall, Silent
<1>5. ASSUME NEW t, NEW status, ToolCallUpdate(t, status)
      PROVE  EndInv'
  BY <1>0, <1>5, SilentQuiet, QuietTurnDiff, UntoldStep DEF ToolCallUpdate, Silent
<1>6. ASSUME NEW entries, HandlePlan(entries)
      PROVE  EndInv'
  <2>1. Wire /\ results' = results
    BY <1>6 DEF HandlePlan
  <2>2. CASE entries = <<>>
    BY <1>0, <1>6, <2>1, <2>2, EmitNone, SilentStays, UntoldStep DEF HandlePlan, Silent
  <2>3. CASE entries # <<>>
    BY <1>0, <1>6, <2>1, <2>3, SilentQuiet, QuietTurnDiff, UntoldStep DEF HandlePlan, Silent
  <2>. QED BY <2>2, <2>3
<1>7. ASSUME NEW id, NEW t, RequestPermission(id, t)
      PROVE  EndInv'
  <2>1. Wire /\ results' = results
    BY <1>7 DEF RequestPermission
  <2>2. CASE t = NoItem
    BY <1>0, <1>7, <2>1, <2>2, EmitNone, SilentStays, UntoldStep DEF RequestPermission, Silent
  <2>3. CASE t # NoItem
    <3>1. PICK view : Emit(<<Requested(id, view)>>)
      BY <1>7, <2>3 DEF RequestPermission
    <3>. QED BY <1>0, <2>1, <3>1, UntoldApproval, UntoldStep DEF Requested
  <2>. QED BY <2>2, <2>3
<1>8. ASSUME NEW id, NEW parses, RequestQuestion(id, parses)
      PROVE  EndInv'
  <2>1. Wire /\ results' = results
    BY <1>8 DEF RequestQuestion
  <2>2. CASE ~ parses
    BY <1>0, <1>8, <2>1, <2>2, EmitNone, SilentStays, UntoldStep DEF RequestQuestion, Silent
  <2>3. CASE parses
    <3>1. Emit(<<Requested(id, View("question", <<>>))>>)
      BY <1>8, <2>3 DEF RequestQuestion
    <3>. QED BY <1>0, <2>1, <3>1, UntoldApproval, UntoldStep DEF Requested
  <2>. QED BY <2>2, <2>3
<1>9. ASSUME NEW reason, PromptResponse(reason)
      PROVE  EndInv'
  <2>1. PICK subtype \in Subtype : Emit(<<ResultOf(subtype)>>) /\ Gives(subtype)
    BY <1>9 DEF PromptResponse, Subtype
  <2>. QED BY <1>9, <2>1, ResultStep DEF PromptResponse
<1>. QED BY <1>2, <1>3, <1>4, <1>5, <1>6, <1>7, <1>8, <1>9 DEF AcpNext

LEMMA PlainEnd ==
    ASSUME EndInv, PartsInv, PlainNext
    PROVE  EndInv'
<1>0. IsCard(card)
  BY DEF EndInv
<1>1. ASSUME Wire, UNCHANGED <<card, results>>
      PROVE  EndInv'
  BY <1>0, <1>1, SilentStays, UntoldStep DEF Silent
<1>2. CASE MessageStart
  BY <1>1, <1>2 DEF MessageStart
<1>3. ASSUME NEW kind, PartStart(kind)
      PROVE  EndInv'
  BY <1>1, <1>3 DEF PartStart
<1>4. ASSUME NEW kind, PartDelta(kind)
      PROVE  EndInv'
  BY <1>1, <1>4 DEF PartDelta
<1>5. ASSUME NEW kind, NEW lost, PartEnd(kind, lost)
      PROVE  EndInv'
  BY <1>1, <1>5 DEF PartEnd
<1>6. CASE ToolCallStart
  BY <1>1, <1>6 DEF ToolCallStart
<1>7. ASSUME NEW t, ToolCallEnd(t)
      PROVE  EndInv'
  BY <1>1, <1>7 DEF ToolCallEnd
<1>8. ASSUME NEW t, NEW outcome, PiToolResult(t, outcome)
      PROVE  EndInv'
  BY <1>0, <1>8, SilentQuiet, QuietTurnDiff, UntoldStep DEF PiToolResult, Silent
<1>9. ASSUME NEW reason, MessageEnd(reason)
      PROVE  EndInv'
  <2>1. Quiet(Assistant(content))
    BY QuietAssistant DEF PartsInv
  <2>. QED BY <1>0, <1>9, <2>1, SilentQuiet, UntoldStep DEF MessageEnd, Silent
<1>10. CASE AgentSettled
  <2>1. PICK subtype \in Subtype : Emit(<<ResultOf(subtype)>>) /\ Gives(subtype)
    BY <1>10 DEF AgentSettled, Subtype
  <2>. QED BY <1>10, <2>1, ResultStep DEF AgentSettled
<1>11. ASSUME NEW kind, DshChunk(kind)
       PROVE  EndInv'
  BY <1>0, <1>11, SilentQuiet, QuietParts, UntoldStep DEF DshChunk, Silent
<1>12. ASSUME NEW reason, DshTurnEnd(reason)
       PROVE  EndInv'
  <2>1. PICK subtype \in Subtype : Emit(<<ResultOf(subtype)>>) /\ Gives(subtype)
    BY <1>12 DEF DshTurnEnd, Subtype
  <2>. QED BY <1>12, <2>1, ResultStep DEF DshTurnEnd
<1>13. ASSUME NEW S, NEW blocks \in Seq(S), ClaudeAssistant(blocks)
       PROVE  EndInv'
  <2>1. CASE card.init
    <3>1. Quiet(Assistant(blocks))
      BY QuietAssistant, <1>13
    <3>. QED BY <1>0, <1>13, <2>1, <3>1, SilentQuiet, UntoldStep DEF ClaudeAssistant, Silent
  <2>2. CASE ~ card.init
    BY <1>1, <1>13, <2>2 DEF ClaudeAssistant
  <2>. QED BY <2>1, <2>2
<1>14. ASSUME NEW t, NEW outcome, ClaudeToolResult(t, outcome)
       PROVE  EndInv'
  BY <1>0, <1>14, SilentQuiet, QuietTurnDiff, UntoldStep DEF ClaudeToolResult, Silent
<1>15. ASSUME NEW subtype \in {"success", "error"}, ClaudeResult(subtype)
       PROVE  EndInv'
  <2>1. CASE card.init
    BY <1>15, <2>1, ResultStep DEF ClaudeResult, Subtype
  <2>2. CASE ~ card.init
    BY <1>1, <1>15, <2>2 DEF ClaudeResult
  <2>. QED BY <2>1, <2>2
<1>16. ASSUME NEW id, ClaudeRequest(id)
       PROVE  EndInv'
  BY <1>0, <1>16, UntoldApproval, UntoldStep DEF ClaudeRequest, Requested
<1>17. ASSUME NEW id, ClaudeCancels(id)
       PROVE  EndInv'
  BY <1>0, <1>17, UntoldApproval, UntoldStep DEF ClaudeCancels
<1>18. ASSUME NEW blocks \in {<<Delta("text", <<Chunk>>)>>, <<Delta("thinking", <<Chunk>>)>>}
                    \cup {<<Delta("text", <<Chunk>>), ToolUse(t)>> : t \in Tool}
       PROVE  \E S : blocks \in Seq(S)
  <2>1. ASSUME NEW x PROVE \E S : <<x>> \in Seq(S)
    <3>1. <<x>> \in Seq({x})
      OBVIOUS
    <3>. QED BY <3>1
  <2>2. ASSUME NEW x, NEW y PROVE \E S : <<x, y>> \in Seq(S)
    <3>1. <<x, y>> \in Seq({x, y})
      OBVIOUS
    <3>. QED BY <3>1
  <2>3. (\E x : blocks = <<x>>) \/ (\E x, y : blocks = <<x, y>>)
    <3>1. CASE blocks \in {<<Delta("text", <<Chunk>>)>>, <<Delta("thinking", <<Chunk>>)>>}
      BY <3>1
    <3>2. CASE blocks \in {<<Delta("text", <<Chunk>>), ToolUse(t)>> : t \in Tool}
      <4>1. PICK t \in Tool : blocks = <<Delta("text", <<Chunk>>), ToolUse(t)>>
        BY <3>2
      <4>. QED BY <4>1
    <3>. QED BY <3>1, <3>2, Zenon
  <2>4. CASE \E x : blocks = <<x>>
    <3>1. PICK x : blocks = <<x>>
      BY <2>4
    <3>. QED BY <2>1, <3>1, Zenon
  <2>5. CASE \E x, y : blocks = <<x, y>>
    <3>1. PICK x, y : blocks = <<x, y>>
      BY <2>5
    <3>. QED BY <2>2, <3>1, Zenon
  <2>. QED BY <2>3, <2>4, <2>5
<1>19. CASE PiNext
  BY <1>19, <1>2, <1>3, <1>4, <1>5, <1>6, <1>7, <1>8, <1>9, <1>10 DEF PiNext
<1>20. CASE ~ PiNext
  BY <1>20, <1>11, <1>12, <1>13, <1>14, <1>15, <1>16, <1>17, <1>18 DEF PlainNext
<1>. QED BY <1>19, <1>20

LEMMA InitEnd ==
    ASSUME EndInv, InitArrives
    PROVE  EndInv'
<1>1. /\ card' = Hears(card, SystemInit) /\ ~ card.init
      /\ UNCHANGED <<phase, results, lapsed, endedBy>>
  BY EmitOne DEF InitArrives
<1>2. SystemInit.type = "system"
  BY DEF SystemInit
<1>3. CASE IsOver(card)
  <2>1. card' = card
    BY <1>1, <1>2, <1>3 DEF Hears
  <2>2. SameEnd(card, card')
    BY <2>1 DEF SameEnd, EndInv
  <2>. QED BY <1>1, <2>2, EndKept
<1>4. CASE ~ IsOver(card)
  <2>1. card' = [card EXCEPT !.init = TRUE]
    BY <1>1, <1>2, <1>4 DEF Hears, ReduceRunState, ReduceSystem
  <2>2. /\ IsCard(card') /\ card'.terminal = card.terminal /\ card'.subtype = card.subtype
        /\ card'.error = card.error /\ card'.expired = card.expired /\ card'.reason = card.reason
        /\ card'.approvals = card.approvals
    BY <2>1 DEF EndInv, IsCard
  <2>3. ~ IsOver(card')
    BY <1>4, <2>2 DEF IsOver
  <2>4. ExpiryMarked(card')
    BY <2>2, MarkedSame DEF EndInv
  <2>. QED BY <1>1, <1>4, <2>2, <2>3, <2>4 DEF EndInv, RunTellsItsEnd
<1>. QED BY <1>3, <1>4

LEMMA LongerPart ==
    ASSUME NEW K, NEW p \in [kind : K, text : Seq(Nat)], NEW n \in Nat
    PROVE  [p EXCEPT !.text = Append(@, n)] \in [kind : K, text : Seq(Nat)]
<1>1. Append(p.text, n) \in Seq(Nat)
  OBVIOUS
<1>2. \A s \in Seq(Nat) : [p EXCEPT !.text = s] \in [kind : K, text : Seq(Nat)]
  OBVIOUS
<1>. QED BY <1>1, <1>2

LEMMA PartsKept ==
    ASSUME PartsInv, [Next]_vars
    PROVE  PartsInv'
<1>. USE DEF PartsInv
<1>1. clock' \in {clock, clock + 1}
  <2>1. CASE CodexNext
    BY <2>1 DEF CodexNext, CodexTexts, CodexItems, CodexTurn, Wire, TurnStarted, AgentMessageDelta,
                AgentMessageCompleted, ReasoningDelta, ReasoningSummaryDelta, ReasoningCompleted, PlanDelta,
                PlanCompleted, TurnPlanUpdated, ToolStarted, CommandOutputDelta, CommandCompleted, ToolCompleted,
                FileChangeStarted, FileChangeCompleted, FileApproval, OtherApproval, ServerRequestResolved,
                TurnCompleted, ServerError, ThreadCompacted
  <2>2. CASE AcpNext
    BY <2>2 DEF AcpNext, Wire, AgentMessageChunk, AgentThoughtChunk, ToolCall, ToolCallUpdate, HandlePlan,
                RequestPermission, RequestQuestion, PromptResponse
  <2>3. CASE PlainNext
    BY <2>3 DEF PlainNext, PiNext, Wire, MessageStart, PartStart, PartDelta, PartEnd, ToolCallStart, ToolCallEnd,
                MessageEnd, PiToolResult, AgentSettled, DshChunk, DshTurnEnd, ClaudeAssistant, ClaudeToolResult,
                ClaudeResult, ClaudeRequest, ClaudeCancels
  <2>4. CASE InitArrives \/ RunEnds
    BY <2>4 DEF InitArrives, RunEnds, StreamEnds, StreamThrows, UserStops, WatchdogFires, ApprovalExpires
  <2>5. CASE UNCHANGED vars
    BY <2>5 DEF vars, wireVars
  <2>. QED BY <2>1, <2>2, <2>3, <2>4, <2>5 DEF Next
<1>2. Chunk \in Nat /\ Delta("text", <<>>) \in PiPart /\ Delta("thinking", <<>>) \in PiPart
      /\ \A t \in Tool : ToolUse(t) \in PiPart
  BY DEF Chunk, PiPart, Delta, ToolUse
<1>3. \A kind \in {"text", "thinking"} :
         Current(kind) =>
            [content EXCEPT ![currentContentIndex].text = Append(@, Chunk)] \in Seq(PiPart)
  <2>. SUFFICES ASSUME NEW kind \in {"text", "thinking"}, Current(kind)
                PROVE  [content EXCEPT ![currentContentIndex].text = Append(@, Chunk)] \in Seq(PiPart)
    OBVIOUS
  <2>. DEFINE p == content[currentContentIndex]
              q == [p EXCEPT !.text = Append(@, Chunk)]
  <2>1. currentContentIndex \in DOMAIN content /\ p.kind = kind
    BY DEF Current
  <2>2. p \in PiPart
    BY <2>1
  <2>3. p \in [kind : {"text", "thinking"}, text : Seq(Nat)]
    BY <2>1, <2>2 DEF PiPart
  <2>4. q \in PiPart
    BY <1>2, <2>3, LongerPart DEF PiPart
  <2>. HIDE DEF q
  <2>5. [content EXCEPT ![currentContentIndex] = q] \in Seq(PiPart)
    BY <2>1, <2>4
  <2>. QED BY <2>5 DEF q
<1>4. content' \in Seq(PiPart)
  <2>1. CASE PiNext
    <3>1. CASE MessageStart
      BY <3>1 DEF MessageStart
    <3>2. ASSUME NEW kind \in {"text", "thinking"}, PartStart(kind)
          PROVE  content' \in Seq(PiPart)
      BY <1>2, <3>2 DEF PartStart
    <3>3. ASSUME NEW kind \in {"text", "thinking"}, PartDelta(kind)
          PROVE  content' \in Seq(PiPart)
      BY <1>3, <3>3 DEF PartDelta
    <3>4. ASSUME NEW kind \in {"text", "thinking"}, NEW lost, PartEnd(kind, lost)
          PROVE  content' \in Seq(PiPart)
      BY <1>3, <3>4 DEF PartEnd
    <3>5. CASE ToolCallStart
      BY <3>5 DEF ToolCallStart
    <3>6. ASSUME NEW t \in Tool, ToolCallEnd(t)
          PROVE  content' \in Seq(PiPart)
      BY <1>2, <3>6 DEF ToolCallEnd
    <3>7. ASSUME NEW t, NEW outcome, PiToolResult(t, outcome)
          PROVE  content' \in Seq(PiPart)
      BY <3>7 DEF PiToolResult, plainVars, piVars
    <3>8. ASSUME NEW reason, MessageEnd(reason)
          PROVE  content' \in Seq(PiPart)
      BY <3>8 DEF MessageEnd
    <3>9. CASE AgentSettled
      BY <3>9 DEF AgentSettled
    <3>. QED BY <2>1, <3>1, <3>2, <3>3, <3>4, <3>5, <3>6, <3>7, <3>8, <3>9 DEF PiNext
  <2>2. CASE ~ PiNext
    <3>1. content' = content
      BY <2>2 DEF Next, PlainNext, DshChunk, DshTurnEnd, ClaudeAssistant, ClaudeToolResult, ClaudeResult,
                  ClaudeRequest, ClaudeCancels, vars, plainVars, piVars
    <3>. QED BY <3>1
  <2>. QED BY <2>1, <2>2
<1>. QED BY <1>1, <1>4

THEOREM EndAlways == Spec => [](EndInv /\ PartsInv)
<1>1. Init => EndInv /\ PartsInv
  <2>. SUFFICES ASSUME Init PROVE EndInv /\ PartsInv
    OBVIOUS
  <2>1. card = InitialRun /\ results = <<>> /\ endedBy = "nobody" /\ lapsed = FALSE
    BY DEF Init, WireInit
  <2>2. /\ IsCard(card) /\ ~ IsOver(card) /\ card.terminal = "running" /\ card.subtype = "none" /\ card.error = FALSE
        /\ card.expired = FALSE /\ card.reason = "none" /\ card.approvals = <<>>
    BY <2>1 DEF InitialRun, IsCard, IsOver
  <2>3. ToSet(<<>>) = {}
    BY DEF ToSet
  <2>4. EndInv
    <3>1. card.approvals \in Seq({})
      BY <2>2
    <3>2. ExpiryMarked(card)
      BY <3>1 DEF ExpiryMarked
    <3>3. RunTellsItsEnd
      BY <2>1 DEF RunTellsItsEnd
    <3>4. card.reason # "approval_timeout" /\ card.expired = lapsed
      BY <2>1, <2>2
    <3>. QED BY <2>1, <2>2, <2>3, <3>2, <3>3, <3>4 DEF EndInv, Worst
  <2>5. PartsInv
    BY DEF Init, WireInit, PlainInit, PartsInv
  <2>. QED BY <2>4, <2>5
<1>2. EndInv /\ PartsInv /\ [Next]_vars => (EndInv /\ PartsInv)'
  <2>. SUFFICES ASSUME EndInv, PartsInv, [Next]_vars
                PROVE  EndInv'
    BY PartsKept
  <2>1. CASE UNCHANGED vars
    <3>1. SameEnd(card, card') /\ UNCHANGED <<results, phase, endedBy, lapsed>>
      BY <2>1 DEF vars, wireVars, SameEnd, EndInv
    <3>. QED BY <3>1, EndKept
  <2>2. CASE RunEnds
    BY <2>2, StreamEndTold, OtherEndTold, ExpiryKept DEF RunEnds
  <2>. QED BY <2>1, <2>2, CodexEnd, AcpEnd, PlainEnd, InitEnd DEF Next
<1>. QED BY <1>1, <1>2, PTL DEF Spec

(* The card tells how the run ended and why: by the first of a stop, the   *)
(* watchdog, a throw and the end of the stream, there as the worst of the  *)
(* results the agent gave for this run; and an interrupted run shows that  *)
(* an approval expired when and only when one did (runAgentStreamToEnd,    *)
(* interruptCurrentRun and startIdleWatchdog of bridge/index.ts,           *)
(* reduceResultEvent and finishRun of card/run-state.ts).                  *)
THEOREM RunEndIsTold == Spec => []EndIsTold
<1>1. EndInv => EndIsTold
  <2>. SUFFICES ASSUME EndInv PROVE EndIsTold
    OBVIOUS
  <2>1. \A i \in DOMAIN card.approvals : card.approvals[i].expired => card.expired
    <3>1. PICK S : card.approvals \in Seq(S) /\ \A a \in S : a.expired => card.expired
      BY DEF EndInv, ExpiryMarked
    <3>2. \A i \in DOMAIN card.approvals : card.approvals[i] \in S
      BY <3>1
    <3>. QED BY <3>1, <3>2
  <2>2. ExpiryIsTheReason
    BY <2>1 DEF EndInv, ExpiryIsTheReason, InterruptionShown
  <2>. QED BY <2>2 DEF EndInv, EndIsTold
<1>. QED BY <1>1, EndAlways, PTL

-----------------------------------------------------------------------------
(* What an approval of a change of files names.                            *)

LEMMA FilesKept ==
    ASSUME FilesInv, clock \in Nat, clock' \in {clock, clock + 1}, SameAsks(card, card'),
           IsOver(card) => IsOver(card'), UNCHANGED <<agent, fileVars>>
    PROVE  FilesInv'
BY DEF FilesInv, SameAsks, fileVars, KnownFiles

LEMMA SilentFiles ==
    ASSUME FilesInv, clock \in Nat, Wire, Silent, UNCHANGED fileVars
    PROVE  FilesInv'
<1>1. IsOver(card) => IsOver(card')
  BY DEF Silent, Untold, SameEnd, IsOver
<1>. QED BY <1>1, FilesKept DEF Wire, Silent

LEMMA Brought ==
    ASSUME NEW files \in Files, FileItemBrings(files)
    PROVE  /\ fileChangeItems' = <<files>> /\ fileChangeItems' # <<>> /\ KnownFiles' = files
           /\ blank => blank'
           /\ files = <<>> => blank'
<1>1. fileChangeItems' = <<files>> /\ Head(<<files>>) = files /\ <<files>> # <<>>
  BY DEF FileItemBrings
<1>2. KnownFiles' = files
  BY <1>1 DEF KnownFiles
<1>. QED BY <1>1, <1>2, Zenon DEF FileItemBrings

LEMMA KnownOfType ==
    ASSUME FilesInv, agent = "codex"
    PROVE  KnownFiles \in Files
<1>1. CASE fileChangeItems = <<>>
  BY <1>1 DEF KnownFiles, Files
<1>2. ASSUME NEW files \in Files, fileChangeItems = <<files>>
      PROVE  KnownFiles \in Files
  BY <1>2 DEF KnownFiles
<1>. QED BY <1>1, <1>2 DEF FilesInv

LEMMA CodexTextsFiles ==
    ASSUME FilesInv, clock \in Nat, IsCard(card), agent = "codex", CodexTexts
    PROVE  FilesInv'
<1>1. Silent
  BY CodexTextsSilent
<1>2. CASE TurnStarted
  <2>1. /\ card' = card /\ fileChangeItems' = <<>> /\ pendingFileApprovalByItemId' = NoItem
        /\ clock = 0 /\ clock' = 1 /\ agent' = agent
    BY <1>2 DEF TurnStarted, Wire
  <2>2. card.approvals = <<>>
    BY <2>1 DEF FilesInv
  <2>3. DOMAIN card'.approvals = {}
    BY <2>1, <2>2
  <2>4. card'.approvals \in Seq(Ask)
    BY <2>1 DEF FilesInv
  <2>. QED BY <2>1, <2>3, <2>4 DEF FilesInv
<1>3. CASE ~ TurnStarted
  <2>1. Wire /\ UNCHANGED fileVars
    BY <1>3 DEF CodexTexts, AgentMessageDelta, AgentMessageCompleted, ReasoningDelta, ReasoningSummaryDelta,
                ReasoningCompleted, PlanDelta, PlanCompleted, TurnPlanUpdated, codexVars, fileVars
  <2>. QED BY <1>1, <2>1, SilentFiles
<1>. QED BY <1>2, <1>3

(* The approval that waits for the files is told of them as they come.     *)
LEMMA FileStartTold ==
    ASSUME FilesInv, clock \in Nat, IsCard(card), agent = "codex", NEW files \in Files, FileChangeStarted(files)
    PROVE  FilesInv'
<1>. DEFINE id == pendingFileApprovalByItemId
            diff == TurnDiff("file", FileItem, files, FALSE)
            told == [type |-> "approval_view_updated", id |-> id, view |-> View("file", files)]
<1>1. /\ Wire /\ fileChangeItems = <<>> /\ FileItemBrings(files) /\ pendingFileApprovalByItemId' = NoItem
      /\ Quiet(diff)
  BY QuietTurnDiff DEF FileChangeStarted
<1>0. /\ fileChangeItems' = <<files>> /\ fileChangeItems' # <<>> /\ KnownFiles' = files
      /\ blank => blank'
      /\ files = <<>> => blank'
  BY <1>1, Brought
<1>2. clock' = clock + 1 /\ agent' = agent
  BY <1>1 DEF Wire
<1>3. card.approvals \in Seq(Ask) /\ id \in Request \cup {NoItem}
  BY DEF FilesInv
<1>4. CASE id = NoItem \/ files = <<>>
  <2>1. Emit(Append(<<>>, diff))
    BY <1>4 DEF FileChangeStarted
  <2>2. Append(<<>>, diff) = <<diff>>
    OBVIOUS
  <2>3. Emit(<<diff>>)
    BY <2>1, <2>2, Zenon
  <2>4. SameEnd(card, card') /\ SameAsks(card, card')
    BY <1>1, <2>3, EmitOne, HearsQuiet
  <2>5. card'.approvals = card.approvals /\ (IsOver(card') <=> IsOver(card))
    BY <2>4 DEF SameEnd, SameAsks, IsOver
  <2>6. ASSUME ~ IsOver(card), NEW i \in DOMAIN card.approvals,
               card.approvals[i].view.kind = "file", card.approvals[i].view.about = <<>>
        PROVE  blank'
    <3>1. card.approvals[i] \in Ask
      BY <1>3
    <3>2. card.approvals[i].id \in Request
      BY <3>1 DEF Ask
    <3>3. blank \/ card.approvals[i].id = id
      BY <2>6 DEF FilesInv
    <3>. QED BY <1>0, <1>4, <3>2, <3>3, CodexAssumption
  <2>. QED BY <1>0, <1>1, <1>2, <1>3, <2>5, <2>6 DEF FilesInv
<1>5. CASE ~ (id = NoItem \/ files = <<>>)
  <2>1. Emit(Append(<<told>>, diff))
    BY <1>5 DEF FileChangeStarted
  <2>2. Append(<<told>>, diff) = <<told, diff>>
    BY AppendPair
  <2>3. Emit(<<told, diff>>)
    BY <2>1, <2>2, Zenon
  <2>. DEFINE d == Hears(card, told)
  <2>4. told.type = "approval_view_updated" /\ told.id = id /\ told.view = View("file", files)
    OBVIOUS
  <2>. HIDE DEF told, diff
  <2>5. SameEnd(card, d) /\ d = IF IsOver(card) THEN card ELSE ReduceApproval(card, told)
    BY <2>4, HearsApproval
  <2>6. SameEnd(d, card') /\ SameAsks(d, card')
    BY <1>1, <2>3, <2>5, EmitTwo, HearsQuiet DEF SameEnd
  <2>7. card'.approvals = d.approvals /\ (IsOver(card') <=> IsOver(card))
    BY <2>5, <2>6 DEF SameEnd, SameAsks, IsOver
  <2>8. CASE IsOver(card)
    <3>1. card'.approvals = card.approvals
      BY <2>5, <2>7, <2>8
    <3>. QED BY <1>0, <1>1, <1>2, <1>3, <2>7, <2>8, <3>1 DEF FilesInv
  <2>9. CASE ~ IsOver(card)
    <3>. DEFINE as == card.approvals
    <3>1. card'.approvals = [i \in DOMAIN as |-> IF as[i].id = id THEN [as[i] EXCEPT !.view = View("file", files)]
                                                 ELSE as[i]]
      BY <2>4, <2>5, <2>7, <2>9, ViewUpdated
    <3>2. \A a \in Ask : [a EXCEPT !.view = View("file", files)] \in Ask
      BY DEF Ask, View
    <3>3. card'.approvals \in Seq(Ask)
      BY <1>3, <3>1, <3>2
    <3>4. ASSUME NEW i \in DOMAIN card'.approvals,
                 card'.approvals[i].view.kind = "file", card'.approvals[i].view.about = <<>>
          PROVE  blank'
      <4>1. i \in DOMAIN as
        BY <3>1
      <4>2. as[i] \in Ask
        BY <1>3, <4>1
      <4>3. CASE as[i].id = id
        <5>1. card'.approvals[i] = [as[i] EXCEPT !.view = View("file", files)]
          BY <3>1, <4>1, <4>3
        <5>2. card'.approvals[i].view.about = files
          BY <4>2, <5>1 DEF Ask, View
        <5>. QED BY <1>5, <3>4, <5>2
      <4>4. CASE as[i].id # id
        <5>1. card'.approvals[i] = as[i]
          BY <3>1, <4>1, <4>4
        <5>2. blank
          BY <2>9, <3>4, <4>1, <4>4, <5>1 DEF FilesInv
        <5>. QED BY <1>0, <5>2
      <4>. QED BY <4>3, <4>4
    <3>. QED BY <1>0, <1>1, <1>2, <3>3, <3>4 DEF FilesInv
  <2>. QED BY <2>8, <2>9
<1>. QED BY <1>4, <1>5

LEMMA CodexItemsFiles ==
    ASSUME FilesInv, clock \in Nat, IsCard(card), agent = "codex", CodexItems
    PROVE  FilesInv'
<1>1. CASE \E files \in Files : FileChangeStarted(files)
  BY <1>1, FileStartTold
<1>2. CASE ~ \E files \in Files : FileChangeStarted(files)
  <2>1. Silent
    BY <1>2, CodexItemsUntold
  <2>2. CASE \E files \in Files : fileChangeItems # <<>> /\ FileChangeCompleted(files)
    <3>1. PICK files \in Files : fileChangeItems # <<>> /\ FileChangeCompleted(files)
      BY <2>2
    <3>2. /\ FileItemBrings(files) /\ pendingFileApprovalByItemId' = pendingFileApprovalByItemId
          /\ clock' = clock + 1 /\ agent' = agent
      BY <3>1 DEF FileChangeCompleted, Wire
    <3>4. /\ fileChangeItems' = <<files>> /\ fileChangeItems' # <<>> /\ KnownFiles' = files
          /\ blank => blank'
          /\ files = <<>> => blank'
      BY <3>2, Brought
    <3>5. ASSUME ~ IsOver(card), NEW i \in DOMAIN card.approvals,
                 card.approvals[i].view.kind = "file", card.approvals[i].view.about = <<>>
          PROVE  blank
      BY <3>1, <3>5 DEF FilesInv
    <3>3. card'.approvals = card.approvals /\ (IsOver(card') <=> IsOver(card))
      BY <2>1 DEF Silent, Untold, SameEnd, SameAsks, IsOver
    <3>. QED BY <3>1, <3>2, <3>3, <3>4, <3>5 DEF FilesInv
  <2>3. CASE ~ \E files \in Files : fileChangeItems # <<>> /\ FileChangeCompleted(files)
    <3>1. Wire /\ UNCHANGED fileVars
      BY <1>2, <2>3 DEF CodexItems, ToolStarted, CommandOutputDelta, CommandCompleted, ToolCompleted
    <3>. QED BY <2>1, <3>1, SilentFiles
  <2>. QED BY <2>2, <2>3
<1>. QED BY <1>1, <1>2

(* A result says nothing of the approvals.                                 *)
LEMMA ResultFiles ==
    ASSUME FilesInv, clock \in Nat, Wire, UNCHANGED fileVars, NEW st \in Subtype,
           NEW d, SameEnd(card, d), SameAsks(card, d), card' = Hears(d, ResultOf(st))
    PROVE  FilesInv'
<1>1. IsCard(d) /\ (IsOver(d) <=> IsOver(card))
  BY DEF SameEnd, IsOver
<1>2. SameAsks(d, card') /\ (IsOver(d) => card' = d)
  BY <1>1, HearsResult
<1>3. SameAsks(card, card') /\ (IsOver(card) => IsOver(card'))
  BY <1>1, <1>2 DEF SameAsks
<1>. QED BY <1>3, FilesKept DEF Wire

LEMMA FileApprovalFiles ==
    ASSUME FilesInv, clock \in Nat, IsCard(card), agent = "codex", NEW id \in Request, FileApproval(id),
           \A i \in DOMAIN card.approvals : card.approvals[i].view.kind # "file"
    PROVE  FilesInv'
<1>. DEFINE ev == Requested(id, View("file", KnownFiles))
            new == [id |-> ev.id, view |-> ev.view, expired |-> FALSE]
<1>1. /\ Wire /\ Emit(<<ev>>) /\ fileChangeItems' = fileChangeItems /\ blank' = blank
      /\ pendingFileApprovalByItemId' = IF fileChangeItems = <<>> THEN id ELSE pendingFileApprovalByItemId
  BY DEF FileApproval
<1>12. KnownFiles' = KnownFiles
  BY <1>1 DEF KnownFiles
<1>2. clock' = clock + 1 /\ agent' = agent
  BY <1>1 DEF Wire
<1>3. /\ card.approvals \in Seq(Ask) /\ pendingFileApprovalByItemId \in Request \cup {NoItem}
      /\ fileChangeItems = <<>> \/ \E files \in Files : fileChangeItems = <<files>>
      /\ KnownFiles = <<>> => blank \/ fileChangeItems = <<>>
  BY DEF FilesInv
<1>4. ev.type = "approval_requested" /\ ev.id = id /\ ev.view = View("file", KnownFiles)
  BY DEF Requested
<1>5. new \in Ask /\ new.id = id /\ new.view.kind = "file" /\ new.view.about = KnownFiles
  BY <1>4, KnownOfType DEF Ask, View
<1>6. card' = Hears(card, ev)
  BY <1>1, EmitOne
<1>. HIDE DEF ev
<1>7. SameEnd(card, card') /\ card' = IF IsOver(card) THEN card ELSE ReduceApproval(card, ev)
  BY <1>4, <1>6, HearsApproval
<1>8. IsOver(card') <=> IsOver(card)
  BY <1>7 DEF SameEnd, IsOver
<1>9. pendingFileApprovalByItemId' \in Request \cup {NoItem}
  BY <1>1, <1>3
<1>10. CASE IsOver(card)
  <2>1. card'.approvals = card.approvals
    BY <1>7, <1>10
  <2>. QED BY <1>1, <1>2, <1>3, <1>8, <1>9, <1>10, <1>12, <2>1 DEF FilesInv
<1>11. CASE ~ IsOver(card)
  <2>. DEFINE as == card'.approvals
  <2>1. /\ as \in Seq(Ask)
        /\ \A i \in DOMAIN as : as[i] = new \/ \E j \in DOMAIN card.approvals : as[i] = card.approvals[j]
    BY <1>3, <1>4, <1>5, <1>7, <1>11, RequestAsked
  <2>. HIDE DEF new
  <2>2. ASSUME NEW i \in DOMAIN as, as[i].view.kind = "file", as[i].view.about = <<>>
        PROVE  blank' \/ (fileChangeItems' = <<>> /\ as[i].id = pendingFileApprovalByItemId')
    <3>1. as[i] = new
      BY <2>1, <2>2
    <3>. QED BY <1>1, <1>3, <1>5, <2>2, <3>1
  <2>. QED BY <1>1, <1>2, <1>3, <1>9, <1>12, <2>1, <2>2 DEF FilesInv
<1>. QED BY <1>10, <1>11

LEMMA OtherApprovalFiles ==
    ASSUME FilesInv, clock \in Nat, IsCard(card), agent = "codex", NEW id \in Request, OtherApproval(id)
    PROVE  FilesInv'
<1>. DEFINE ev == Requested(id, View("other", <<>>))
            new == [id |-> ev.id, view |-> ev.view, expired |-> FALSE]
<1>1. /\ Wire /\ Emit(<<ev>>)
      /\ fileChangeItems' = fileChangeItems /\ pendingFileApprovalByItemId' = pendingFileApprovalByItemId
      /\ blank' = blank /\ KnownFiles' = KnownFiles
  BY DEF OtherApproval, fileVars, KnownFiles
<1>2. clock' = clock + 1 /\ agent' = agent
  BY <1>1 DEF Wire
<1>3. /\ card.approvals \in Seq(Ask) /\ pendingFileApprovalByItemId \in Request \cup {NoItem}
      /\ fileChangeItems = <<>> \/ \E files \in Files : fileChangeItems = <<files>>
      /\ KnownFiles = <<>> => blank \/ fileChangeItems = <<>>
  BY DEF FilesInv
<1>4. ev.type = "approval_requested" /\ ev.id = id /\ ev.view = View("other", <<>>)
  BY DEF Requested
<1>5. new \in Ask /\ new.view.kind = "other"
  <2>1. <<>> \in Files
    BY DEF Files
  <2>. QED BY <1>4, <2>1 DEF Ask, View
<1>6. card' = Hears(card, ev)
  BY <1>1, EmitOne
<1>. HIDE DEF ev
<1>7. SameEnd(card, card') /\ card' = IF IsOver(card) THEN card ELSE ReduceApproval(card, ev)
  BY <1>4, <1>6, HearsApproval
<1>8. IsOver(card') <=> IsOver(card)
  BY <1>7 DEF SameEnd, IsOver
<1>9. CASE IsOver(card)
  <2>1. card'.approvals = card.approvals
    BY <1>7, <1>9
  <2>. QED BY <1>1, <1>2, <1>3, <1>8, <1>9, <2>1 DEF FilesInv
<1>10. CASE ~ IsOver(card)
  <2>. DEFINE as == card'.approvals
  <2>1. /\ as \in Seq(Ask)
        /\ \A i \in DOMAIN as : as[i] = new \/ \E j \in DOMAIN card.approvals : as[i] = card.approvals[j]
    BY <1>3, <1>4, <1>5, <1>7, <1>10, RequestAsked
  <2>. HIDE DEF new
  <2>2. ASSUME NEW i \in DOMAIN as, as[i].view.kind = "file", as[i].view.about = <<>>
        PROVE  blank' \/ (fileChangeItems' = <<>> /\ as[i].id = pendingFileApprovalByItemId')
    <3>1. PICK j \in DOMAIN card.approvals : as[i] = card.approvals[j]
      BY <1>5, <2>1, <2>2
    <3>. QED BY <1>1, <1>10, <2>2, <3>1 DEF FilesInv
  <2>. QED BY <1>1, <1>2, <1>3, <2>1, <2>2 DEF FilesInv
<1>. QED BY <1>9, <1>10

LEMMA ResolvedFiles ==
    ASSUME FilesInv, clock \in Nat, IsCard(card), agent = "codex", NEW id, ServerRequestResolved(id)
    PROVE  FilesInv'
<1>. DEFINE ev == [type |-> "approval_resolved", id |-> id]
            Open == {a \in Ask : \E j \in DOMAIN card.approvals : a = card.approvals[j]}
<1>1. /\ Wire /\ Emit(<<ev>>)
      /\ fileChangeItems' = fileChangeItems /\ pendingFileApprovalByItemId' = pendingFileApprovalByItemId
      /\ blank' = blank /\ KnownFiles' = KnownFiles
  BY DEF ServerRequestResolved, codexVars, KnownFiles
<1>2. clock' = clock + 1 /\ agent' = agent
  BY <1>1 DEF Wire
<1>3. /\ card.approvals \in Seq(Ask) /\ pendingFileApprovalByItemId \in Request \cup {NoItem}
      /\ fileChangeItems = <<>> \/ \E files \in Files : fileChangeItems = <<files>>
      /\ KnownFiles = <<>> => blank \/ fileChangeItems = <<>>
  BY DEF FilesInv
<1>4. card.approvals \in Seq(Open)
  BY <1>3
<1>5. card' = Hears(card, ev) /\ ev.type = "approval_resolved"
  BY <1>1, EmitOne
<1>. HIDE DEF ev, Open
<1>6. SameEnd(card, card') /\ card' = IF IsOver(card) THEN card ELSE ReduceApproval(card, ev)
  BY <1>5, HearsApproval
<1>7. IsOver(card') <=> IsOver(card)
  BY <1>6 DEF SameEnd, IsOver
<1>8. card'.approvals \in Seq(Open)
  BY <1>4, <1>5, <1>6, RequestResolved
<1>9. \A i \in DOMAIN card'.approvals :
         /\ card'.approvals[i] \in Ask
         /\ \E j \in DOMAIN card.approvals : card'.approvals[i] = card.approvals[j]
  BY <1>8 DEF Open
<1>10. card'.approvals \in Seq(Ask)
  BY <1>8, <1>9
<1>. QED BY <1>1, <1>2, <1>3, <1>7, <1>9, <1>10 DEF FilesInv

LEMMA CodexTurnFiles ==
    ASSUME FilesInv, clock \in Nat, IsCard(card), agent = "codex", CodexTurn
    PROVE  FilesInv'
<1>1. SameEnd(card, card) /\ SameAsks(card, card)
  BY DEF SameEnd, SameAsks
<1>2. ASSUME NEW st \in Subtype, Wire, Emit(<<ResultOf(st)>>), UNCHANGED fileVars
      PROVE  FilesInv'
  <2>1. card' = Hears(card, ResultOf(st))
    BY <1>2, EmitOne
  <2>. QED BY <1>1, <1>2, <2>1, ResultFiles
<1>3. ASSUME NEW status \in Subtype, NEW m, TurnCompleted(status, m)
      PROVE  FilesInv'
  <2>1. Wire /\ UNCHANGED fileVars
    BY <1>3 DEF TurnCompleted
  <2>2. PICK final : Emit(<<ResultOf(status)>>) \/ Emit(<<TurnDiff("text", m, final, TRUE), ResultOf(status)>>)
    <3>. DEFINE final == IF m \in Stream \ closed THEN Append(textByItem[m], Chunk) ELSE <<>>
    <3>1. IF final = <<>> THEN Emit(<<ResultOf(status)>>)
          ELSE Emit(<<TurnDiff("text", m, final, TRUE), ResultOf(status)>>)
      BY <1>3 DEF TurnCompleted
    <3>. HIDE DEF final
    <3>. QED BY <3>1
  <2>3. CASE Emit(<<TurnDiff("text", m, final, TRUE), ResultOf(status)>>)
    <3>. DEFINE diff == TurnDiff("text", m, final, TRUE)
    <3>1. Quiet(diff)
      BY QuietTurnDiff
    <3>. HIDE DEF diff
    <3>2. card' = Hears(Hears(card, diff), ResultOf(status))
      BY <2>3, EmitTwo DEF diff
    <3>3. SameEnd(card, Hears(card, diff)) /\ SameAsks(card, Hears(card, diff))
      BY <3>1, HearsQuiet
    <3>. QED BY <2>1, <3>2, <3>3, ResultFiles
  <2>. QED BY <1>2, <2>1, <2>2, <2>3
<1>4. CASE ServerError
  BY <1>2, <1>4 DEF ServerError, Subtype, codexVars, fileVars
<1>5. CASE ThreadCompacted
  BY <1>2, <1>5 DEF ThreadCompacted, Subtype, codexVars, fileVars
<1>. QED BY <1>3, <1>4, <1>5, FileApprovalFiles, OtherApprovalFiles, ResolvedFiles DEF CodexTurn, Subtype

LEMMA InitFiles ==
    ASSUME FilesInv, clock \in Nat, IsCard(card), InitArrives, UNCHANGED codexVars
    PROVE  FilesInv'
<1>1. card' = Hears(card, SystemInit) /\ clock' = clock /\ UNCHANGED <<agent, fileVars>>
  BY EmitOne DEF InitArrives, codexVars, fileVars
<1>2. SystemInit.type = "system"
  BY DEF SystemInit
<1>3. card' = card \/ card' = [card EXCEPT !.init = TRUE]
  BY <1>1, <1>2 DEF Hears, ReduceRunState, ReduceSystem
<1>4. card'.approvals = card.approvals /\ card'.terminal = card.terminal
  BY <1>3 DEF IsCard
<1>. QED BY <1>1, <1>4, FilesKept DEF SameAsks, IsOver

LEMMA EndsFiles ==
    ASSUME FilesInv, clock \in Nat, IsCard(card), StreamEnds \/ StreamThrows \/ UserStops \/ WatchdogFires,
           UNCHANGED codexVars
    PROVE  FilesInv'
<1>1. clock' = clock /\ UNCHANGED <<agent, fileVars>>
  BY DEF StreamEnds, StreamThrows, UserStops, WatchdogFires, codexVars, fileVars
<1>2. \/ card' = card
      \/ \E t \in {"done", "error", "interrupted", "idle_timeout"} : \E reason, err : card' = FinishRun(card, t, reason, err)
  <2>1. CASE StreamEnds
    <3>1. CASE card.terminal = "finalizing"
      <4>1. PICK t \in {"done", "error", "interrupted"} : card' = FinishRun(card, t, "none", FALSE)
        BY <2>1, <3>1 DEF StreamEnds
      <4>. QED BY <4>1
    <3>2. CASE card.terminal = "running"
      <4>1. card' = FinishRun(card, "error", "none", TRUE)
        BY <2>1, <3>2 DEF StreamEnds
      <4>. QED BY <4>1
    <3>3. CASE card.terminal \notin {"running", "finalizing"}
      BY <2>1, <3>3 DEF StreamEnds
    <3>. QED BY <3>1, <3>2, <3>3
  <2>2. CASE StreamThrows
    BY <2>2 DEF StreamThrows
  <2>3. CASE UserStops
    BY <2>3 DEF UserStops
  <2>4. CASE WatchdogFires
    BY <2>4 DEF WatchdogFires
  <2>. QED BY <2>1, <2>2, <2>3, <2>4
<1>3. CASE card' = card
  BY <1>1, <1>3, FilesKept DEF SameAsks
<1>4. ASSUME NEW t \in {"done", "error", "interrupted", "idle_timeout"}, NEW reason, NEW err,
             card' = FinishRun(card, t, reason, err)
      PROVE  FilesInv'
  <2>1. SameAsks(card, card') /\ IsOver(card')
    BY <1>4, FinishTold DEF SameAsks
  <2>. QED BY <1>1, <2>1, FilesKept
<1>. QED BY <1>2, <1>3, <1>4

LEMMA ExpiryFiles ==
    ASSUME FilesInv, clock \in Nat, IsCard(card), ApprovalExpires, UNCHANGED codexVars
    PROVE  FilesInv'
<1>1. PICK i : card' = ReduceRunState(card, [type |-> "approval_expired", id |-> card.approvals[i].id])
  BY DEF ApprovalExpires
<1>2. clock' = clock /\ UNCHANGED <<agent, fileVars>>
  BY DEF ApprovalExpires, codexVars, fileVars
<1>. DEFINE ev == [type |-> "approval_expired", id |-> card.approvals[i].id]
            as == card.approvals
<1>3. ev.type = "approval_expired"
  OBVIOUS
<1>. HIDE DEF ev
<1>4. CASE IsOver(card)
  <2>1. card' = card
    BY <1>1, <1>4 DEF ReduceRunState
  <2>. QED BY <1>2, <2>1, FilesKept DEF SameAsks
<1>5. CASE ~ IsOver(card) /\ agent = "codex"
  <2>1. card' = ReduceApproval(card, ev)
    BY <1>1, <1>3, <1>5 DEF ReduceRunState, ev
  <2>2. /\ card'.terminal = card.terminal
        /\ card'.approvals = [j \in DOMAIN as |-> IF as[j].id = ev.id THEN [as[j] EXCEPT !.expired = TRUE]
                                                  ELSE as[j]]
    BY <1>3, <2>1, ExpiryTold
  <2>3. as \in Seq(Ask)
    BY <1>5 DEF FilesInv
  <2>4. \A a \in Ask : LET b == [a EXCEPT !.expired = TRUE] IN b \in Ask /\ b.id = a.id /\ b.view = a.view
    BY DEF Ask
  <2>5. /\ card'.approvals \in Seq(Ask) /\ DOMAIN card'.approvals = DOMAIN as
        /\ \A j \in DOMAIN as : card'.approvals[j].id = as[j].id /\ card'.approvals[j].view = as[j].view
    BY <2>2, <2>3, <2>4
  <2>6. as = <<>> => card'.approvals = <<>>
    <3>. DEFINE bs == card'.approvals
    <3>1. bs \in Seq(Ask) /\ (as = <<>> => DOMAIN bs = {})
      BY <2>5
    <3>. HIDE DEF bs
    <3>2. DOMAIN bs = {} => Len(bs) = 0
      BY <3>1
    <3>3. as = <<>> => bs = <<>>
      BY <3>1, <3>2
    <3>. QED BY <3>3 DEF bs
  <2>7. ~ IsOver(card')
    BY <1>5, <2>2 DEF IsOver
  <2>. QED BY <1>2, <1>5, <2>5, <2>6, <2>7 DEF FilesInv, fileVars, KnownFiles
<1>6. CASE agent # "codex"
  BY <1>2, <1>6 DEF FilesInv, fileVars
<1>. QED BY <1>4, <1>5, <1>6

LEMMA AgentStays ==
    ASSUME AcpNext \/ PlainNext
    PROVE  agent' = agent
BY DEF AcpNext, Wire, AgentMessageChunk, AgentThoughtChunk, ToolCall, ToolCallUpdate, HandlePlan,
       RequestPermission, RequestQuestion, PromptResponse,
       PlainNext, PiNext, MessageStart, PartStart, PartDelta, PartEnd, ToolCallStart, ToolCallEnd,
       MessageEnd, PiToolResult, AgentSettled, DshChunk, DshTurnEnd, ClaudeAssistant, ClaudeToolResult,
       ClaudeResult, ClaudeRequest, ClaudeCancels

THEOREM FilesAlways == Spec => []FilesInv
<1>1. Init => FilesInv
  <2>. SUFFICES ASSUME Init PROVE FilesInv
    OBVIOUS
  <2>1. card.approvals = <<>> /\ fileChangeItems = <<>> /\ pendingFileApprovalByItemId = NoItem
    BY DEF Init, WireInit, CodexInit, InitialRun
  <2>. QED BY <2>1 DEF FilesInv
<1>2. EndInv /\ PartsInv /\ FilesInv /\ [Next]_vars => FilesInv'
  <2>. SUFFICES ASSUME EndInv, PartsInv, FilesInv, [Next]_vars
                PROVE  FilesInv'
    OBVIOUS
  <2>1. IsCard(card) /\ clock \in Nat
    BY DEF EndInv, PartsInv
  <2>2. CASE agent = "codex" /\ CodexNext
    BY <2>1, <2>2, CodexTextsFiles, CodexItemsFiles, CodexTurnFiles DEF CodexNext
  <2>3. CASE agent # "codex" /\ (AcpNext \/ PlainNext) /\ UNCHANGED codexVars
    BY <2>3, AgentStays DEF FilesInv, codexVars
  <2>4. CASE InitArrives /\ UNCHANGED codexVars
    BY <2>1, <2>4, InitFiles
  <2>5. CASE RunEnds /\ UNCHANGED codexVars
    BY <2>1, <2>5, EndsFiles, ExpiryFiles DEF RunEnds
  <2>6. CASE UNCHANGED vars
    <3>1. UNCHANGED <<card, agent, clock, fileVars>>
      BY <2>6 DEF vars, wireVars, codexVars, fileVars
    <3>. QED BY <3>1 DEF FilesInv, IsOver, KnownFiles, fileVars
  <2>. QED BY <2>2, <2>3, <2>4, <2>5, <2>6 DEF Next
<1>. QED BY <1>1, <1>2, EndAlways, PTL DEF Spec

(* An approval of a change of files names the files once they are known,   *)
(* whichever of the request and the item came first, unless the item came  *)
(* with an empty list (handleFileApproval and handleItemStarted of         *)
(* runner/codex/app-server/translator.ts).                                 *)
THEOREM FilesAreNamed == Spec => []ApprovalNamesItsFiles
<1>1. FilesInv => ApprovalNamesItsFiles
  BY DEF FilesInv, ApprovalNamesItsFiles
<1>. QED BY <1>1, FilesAlways, PTL
=============================================================================
