----------------------------- MODULE ListsProofs -----------------------------
(***************************************************************************)
(* Proofs about the list cards with their stores, the configuration's      *)
(* card, the index of transcripts and the reader of sessions (the parts    *)
(* MCLists puts side by side), for every tree, text, name, agent,          *)
(* directory, chunk and length of a file and every bound.                  *)
(***************************************************************************)
EXTENDS FileCards, OrderCards, WorkspaceCards, ConfigEdits, SessionIndex, SessionLog,
        SequenceTheorems, FiniteSetTheorems, WellFoundedInduction, TLAPS

-----------------------------------------------------------------------------
(* Sequences of whatever                                                   *)

IsSeq(s) == s \in Seq(ToSet(s))

LEMMA SeqOfAny == ASSUME NEW S, NEW s \in Seq(S) PROVE IsSeq(s)
<1>1. Len(s) \in Nat /\ DOMAIN s = 1 .. Len(s) /\ s \in [1 .. Len(s) -> S]
  BY LenProperties
<1>2. \A i \in 1 .. Len(s) : s[i] \in ToSet(s)
  BY <1>1 DEF ToSet
<1>3. s \in [1 .. Len(s) -> ToSet(s)]
  BY <1>1, <1>2
<1>. QED BY <1>1, <1>3, SeqDef DEF IsSeq

LEMMA SeqDomain ==
    ASSUME NEW s, IsSeq(s)
    PROVE  Len(s) \in Nat /\ DOMAIN s = 1 .. Len(s)
BY LenProperties DEF IsSeq

LEMMA AppendSeq ==
    ASSUME NEW s, IsSeq(s), NEW x
    PROVE  /\ IsSeq(Append(s, x)) /\ Len(Append(s, x)) = Len(s) + 1
           /\ DOMAIN Append(s, x) = 1 .. Len(s) + 1
           /\ \A i \in DOMAIN s : Append(s, x)[i] = s[i] /\ i \in DOMAIN Append(s, x)
           /\ Append(s, x)[Len(s) + 1] = x
           /\ \A i \in DOMAIN Append(s, x) : i \in DOMAIN s \/ i = Len(s) + 1
<1>. DEFINE S == ToSet(s) \cup {x}
<1>1. s \in Seq(S)
  <2>1. \A i \in 1 .. Len(s) : s[i] \in S
    BY SeqDomain DEF ToSet
  <2>2. s \in [1 .. Len(s) -> ToSet(s)] /\ Len(s) \in Nat
    BY LenProperties DEF IsSeq
  <2>3. s \in [1 .. Len(s) -> S]
    BY <2>1, <2>2
  <2>. QED BY <2>2, <2>3, SeqDef
<1>2. Append(s, x) \in Seq(S)
  BY <1>1, AppendProperties
<1>3. IsSeq(Append(s, x))
  BY <1>2, SeqOfAny
<1>. HIDE DEF S
<1>4. x \in S
  BY DEF S
<1>. QED BY <1>1, <1>3, <1>4, AppendProperties, LenProperties

Replaced(s, i, x, t) == t = [s EXCEPT ![i] = x]

LEMMA ReplaceSeq ==
    ASSUME NEW s, IsSeq(s), NEW i \in DOMAIN s, NEW x, NEW t, Replaced(s, i, x, t)
    PROVE  /\ IsSeq(t) /\ Len(t) = Len(s) /\ DOMAIN t = DOMAIN s
           /\ \A j \in DOMAIN s : t[j] = IF j = i THEN x ELSE s[j]
<1>. DEFINE S == ToSet(s) \cup {x}
<1>1. s \in Seq(S)
  BY SeqMonotonic DEF IsSeq
<1>2. x \in S /\ i \in 1 .. Len(s)
  BY SeqDomain
<1>. HIDE DEF S
<1>3. t \in Seq(S) /\ Len(t) = Len(s)
  BY <1>1, <1>2, ExceptSeq DEF Replaced
<1>4. IsSeq(t)
  BY <1>3, SeqOfAny
<1>5. DOMAIN s = 1 .. Len(s)
  BY SeqDomain
<1>6. \A j \in DOMAIN s : t[j] = IF j = i THEN x ELSE s[j]
  BY <1>1, <1>2, <1>5, ExceptSeq DEF Replaced
<1>. QED BY <1>3, <1>4, <1>6

\* Without one of its elements.
Kth(k, j) == IF j < k THEN j ELSE j + 1

LEMMA RemoveSeq ==
    ASSUME NEW S, NEW s \in Seq(S), NEW k \in DOMAIN s, NEW r, r = RemoveAt(s, k)
    PROVE  /\ r \in Seq(S) /\ DOMAIN r = 1 .. Len(s) - 1
           /\ \A j \in DOMAIN r : r[j] = s[Kth(k, j)] /\ Kth(k, j) \in DOMAIN s \ {k}
<1>. DEFINE p == SubSeq(s, 1, k - 1)
            q == SubSeq(s, k + 1, Len(s))
<1>1. /\ Len(s) \in Nat /\ DOMAIN s = 1 .. Len(s) /\ k \in 1 .. Len(s)
      /\ \A i \in 1 .. Len(s) : s[i] \in S
  BY LenProperties, ElementOfSeq
<1>2. /\ p \in Seq(S) /\ Len(p) = k - 1 /\ \A j \in 1 .. k - 1 : p[j] = s[j]
  <2>1. 1 \in Int /\ k - 1 \in Int /\ \A i \in 1 .. k - 1 : s[i] \in S
    BY <1>1
  <2>. QED BY <1>1, <2>1, SubSeqProperties
<1>3. /\ q \in Seq(S) /\ Len(q) = Len(s) - k /\ \A j \in 1 .. Len(s) - k : q[j] = s[k + j]
  <2>1. k + 1 \in Int /\ Len(s) \in Int /\ \A i \in k + 1 .. Len(s) : s[i] \in S
    BY <1>1
  <2>2. /\ q \in Seq(S) /\ Len(q) = IF k + 1 <= Len(s) THEN Len(s) - (k + 1) + 1 ELSE 0
        /\ \A j \in 1 .. Len(s) - (k + 1) + 1 : q[j] = s[k + 1 + j - 1]
    BY <2>1, SubSeqProperties
  <2>. HIDE DEF q
  <2>3. Len(q) = Len(s) - k
    BY <1>1, <2>2
  <2>4. ASSUME NEW j \in 1 .. Len(s) - k PROVE q[j] = s[k + j]
    <3>1. j \in 1 .. Len(s) - (k + 1) + 1 /\ k + 1 + j - 1 = k + j
      BY <1>1
    <3>. QED BY <2>2, <3>1
  <2>. QED BY <2>2, <2>3, <2>4
<1>4. r = p \o q
  BY DEF RemoveAt
<1>. HIDE DEF p, q
<1>5. /\ r \in Seq(S) /\ Len(r) = Len(s) - 1
      /\ \A j \in 1 .. Len(s) - 1 : r[j] = IF j <= k - 1 THEN p[j] ELSE q[j - (k - 1)]
  <2>1. /\ p \o q \in Seq(S) /\ Len(p \o q) = Len(p) + Len(q)
        /\ \A j \in 1 .. Len(p) + Len(q) : (p \o q)[j] = IF j <= Len(p) THEN p[j] ELSE q[j - Len(p)]
    BY <1>2, <1>3, ConcatProperties
  <2>2. Len(p) + Len(q) = Len(s) - 1 /\ Len(p) = k - 1
    BY <1>1, <1>2, <1>3
  <2>. QED BY <1>4, <2>1, <2>2
<1>6. DOMAIN r = 1 .. Len(s) - 1
  BY <1>5, LenProperties
<1>7. ASSUME NEW j \in 1 .. Len(s) - 1
      PROVE  r[j] = s[Kth(k, j)] /\ Kth(k, j) \in DOMAIN s \ {k}
  <2>1. CASE j < k
    BY <1>1, <1>2, <1>5, <2>1 DEF Kth
  <2>2. CASE j >= k
    <3>1. j - (k - 1) \in 1 .. Len(s) - k /\ k + (j - (k - 1)) = j + 1
      BY <1>1, <2>2
    <3>2. r[j] = q[j - (k - 1)]
      BY <1>1, <1>5, <2>2
    <3>. QED BY <1>1, <1>3, <2>2, <3>1, <3>2 DEF Kth
  <2>. QED BY <1>1, <2>1, <2>2
<1>. QED BY <1>5, <1>6, <1>7

-----------------------------------------------------------------------------
(* Files: /ls                                                              *)

FileInv ==
    /\ IsSeq(fileCards) /\ IsSeq(starts) /\ Len(starts) = Len(fileCards)
    /\ fileCwd \in Paths
    /\ \A m \in DOMAIN fileCards : starts[m] \in Paths
    /\ \A p \in patches : /\ p.to \in DOMAIN fileCards
                          /\ p.card # NoCard /\ p.card.root = starts[p.to]
    /\ ReturnLeadsToStart

LEMMA FileInvInit == FileInit => FileInv
<1>. SUFFICES ASSUME FileInit PROVE FileInv
  OBVIOUS
<1>1. IsSeq(fileCards) /\ IsSeq(starts) /\ Len(starts) = Len(fileCards)
  BY EmptySeq DEF FileInit, IsSeq
<1>2. DOMAIN fileCards = {}
  BY DEF FileInit
<1>. QED BY <1>1, <1>2 DEF FileInit, FileInv, ReturnLeadsToStart

\* Every button but that of a file carries the start of its card.
LEMMA ButtonRoot ==
    ASSUME NEW c, NEW v \in Buttons(c), v.cmd # "ls.file"
    PROVE  v.root = c.root
<1>1. CASE v \in HeaderButtons(c)
  <2>1. CASE v = [Button("ls.refresh", c.dir, c.root) EXCEPT !.offset = c.offset, !.q = c.q]
    BY <2>1 DEF Button
  <2>2. CASE v # [Button("ls.refresh", c.dir, c.root) EXCEPT !.offset = c.offset, !.q = c.q]
    <3>1. \/ v = Button("ls.browse", Parent[c.dir], c.root)
          \/ v = Button("ls.browse", c.root, c.root)
          \/ v = Button("ls.switch", c.dir, c.root)
      BY <1>1, <2>2 DEF HeaderButtons
    <3>. QED BY <3>1 DEF Button
  <2>. QED BY <2>1, <2>2
<1>2. CASE v \in EntryButtons(c)
  BY <1>2 DEF EntryButtons, Button
<1>3. CASE v \in SearchAndPages(c)
  <2>. DEFINE jump == [Button("ls.jump", c.dir, c.root) EXCEPT !.q = c.q]
              pages == {[Button("ls.page", c.dir, c.root) EXCEPT !.offset = o, !.q = c.q] :
                          o \in PaginationBar(c, LsPageSize, c.total)}
              clears == {Button("ls.clear", c.dir, c.root) : cleared \in SearchBar(c.q) \ {FALSE}}
              filter == Button("ls.filter", c.dir, c.root)
  <2>1. v = jump => v.root = c.root
    BY DEF Button
  <2>2. v \in pages => v.root = c.root
    BY DEF Button
  <2>3. v = filter => v.root = c.root
    BY DEF Button
  <2>4. v \in clears => v.root = c.root
    <3>1. v \in clears => v = Button("ls.clear", c.dir, c.root)
      OBVIOUS
    <3>2. Button("ls.clear", c.dir, c.root).root = c.root
      BY DEF Button
    <3>. QED BY <3>1, <3>2
  <2>5. SearchAndPages(c) = {filter} \cup clears \cup (IF c.total > LsPageSize THEN pages \cup {jump} ELSE {})
    BY Zenon DEF SearchAndPages
  <2>. HIDE DEF jump, pages, clears, filter
  <2>6. v = filter \/ v \in clears \/ v \in pages \/ v = jump
    BY <1>3, <2>5
  <2>. QED BY <2>1, <2>2, <2>3, <2>4, <2>6
<1>. QED BY <1>1, <1>2, <1>3 DEF Buttons, Button

\* A directory that is listed keeps the start it was given.
LEMMA RootKept ==
    ASSUME NEW path, path = NoPath \/ IsDir(path), NEW offset, NEW root, root # NoPath, NEW q,
           CmdLs(path, offset, root, q) # NoCard
    PROVE  CmdLs(path, offset, root, q).root = root
BY DEF CmdLs, ListCard, IsDir

LEMMA SendCardKeeps ==
    ASSUME FileInv, NEW card, NEW start \in Paths, card # NoCard => card.root = start,
           SendCard(card, start), fileCwd' \in Paths, patches' \subseteq patches
    PROVE  FileInv'
<1>1. CASE UNCHANGED <<fileCards, starts>>
  BY <1>1 DEF FileInv, ReturnLeadsToStart
<1>2. CASE card # NoCard /\ fileCards' = Append(fileCards, card) /\ starts' = Append(starts, start)
  <2>1. /\ IsSeq(fileCards') /\ Len(fileCards') = Len(fileCards) + 1
        /\ \A i \in DOMAIN fileCards : fileCards'[i] = fileCards[i] /\ i \in DOMAIN fileCards'
        /\ fileCards'[Len(fileCards) + 1] = card
        /\ \A i \in DOMAIN fileCards' : i \in DOMAIN fileCards \/ i = Len(fileCards) + 1
    BY <1>2, AppendSeq DEF FileInv
  <2>2. /\ IsSeq(starts') /\ Len(starts') = Len(starts) + 1
        /\ \A i \in DOMAIN starts : starts'[i] = starts[i]
        /\ starts'[Len(starts) + 1] = start
    BY <1>2, AppendSeq DEF FileInv
  <2>3. DOMAIN starts = DOMAIN fileCards /\ Len(starts) = Len(fileCards)
    BY SeqDomain DEF FileInv
  <2>4. ASSUME NEW m \in DOMAIN fileCards'
        PROVE  starts'[m] \in Paths /\ fileCards'[m].root = starts'[m]
    <3>1. CASE m \in DOMAIN fileCards
      BY <2>1, <2>2, <2>3, <3>1 DEF FileInv, ReturnLeadsToStart
    <3>2. CASE m = Len(fileCards) + 1
      BY <1>2, <2>1, <2>2, <2>3, <3>2
    <3>. QED BY <2>1, <3>1, <3>2
  <2>5. \A p \in patches' : /\ p.to \in DOMAIN fileCards'
                            /\ p.card # NoCard /\ p.card.root = starts'[p.to]
    BY <2>1, <2>2, <2>3 DEF FileInv
  <2>. QED BY <2>1, <2>2, <2>3, <2>4, <2>5 DEF FileInv, ReturnLeadsToStart
<1>. QED BY <1>1, <1>2 DEF SendCard

\* The card that takes the place of one keeps its start.
LEMMA UpdateKeeps ==
    ASSUME FileInv, NEW m \in DOMAIN fileCards, NEW card, fileCwd' \in Paths,
           card # NoCard => card.root = fileCards[m].root, UpdateCardInPlace(m, card)
    PROVE  FileInv'
BY DEF FileInv, UpdateCardInPlace, ReturnLeadsToStart

LEMMA FileFrame ==
    ASSUME FileInv, UNCHANGED <<fileCards, patches, starts>>, fileCwd' \in Paths
    PROVE  FileInv'
BY DEF FileInv, ReturnLeadsToStart

LEMMA LsKeeps == ASSUME FileInv, NEW path \in Paths \cup {NoPath}, Ls(path) PROVE FileInv'
<1>. DEFINE card == CmdLs(path, 0, NoPath, NoInput)
            start == IF path = NoPath THEN fileCwd ELSE IF IsDir(path) THEN path ELSE Parent[path]
<1>1. start \in Paths
  BY FileAssumption DEF FileInv
<1>2. card # NoCard => card.root = start
  BY DEF CmdLs, ListCard, FileCard, IsDir
<1>3. SendCard(card, start) /\ fileCwd' \in Paths /\ patches' = patches
  BY DEF Ls, FileInv
<1>. HIDE DEF card, start
<1>. QED BY <1>1, <1>2, <1>3, SendCardKeeps

LEMMA ClickFileKeeps == ASSUME FileInv, NEW m \in DOMAIN fileCards, ClickFile(m) PROVE FileInv'
<1>1. PICK v \in Buttons(fileCards[m]) :
       \/ v.cmd = "ls.switch" /\ HandleLsSwitch(m, v)
       \/ v.cmd = "ls.refresh" /\ HandleLsRefresh(m, v)
       \/ v.cmd = "ls.page" /\ HandleLsPage(m, v, NoInput)
       \/ v.cmd = "ls.jump" /\ \E i \in {Word, DigitsOf(0), DigitsOf(2), DigitsOf(9)} : HandleLsPage(m, v, i)
       \/ v.cmd = "ls.filter" /\ \E i \in {NoInput, Word} : HandleLsFilter(m, v, i, FALSE)
       \/ v.cmd = "ls.clear" /\ HandleLsFilter(m, v, NoInput, TRUE)
       \/ v.cmd = "ls.browse" /\ HandleLsBrowse(m, v)
       \/ v.cmd = "ls.file" /\ CardLsFile(v)
  BY DEF ClickFile
<1>2. v.cmd # "ls.file" => v.root = fileCards[m].root
  BY ButtonRoot
<1>3. fileCards[m].root # NoPath /\ fileCwd \in Paths
  BY FileAssumption DEF FileInv, ReturnLeadsToStart
<1>4. CASE v.cmd = "ls.switch" /\ HandleLsSwitch(m, v)
  <2>1. CASE IsDir(v.path)
    <3>. DEFINE card == CmdLs(v.path, 0, v.root, NoInput)'
    <3>1. UpdateCardInPlace(m, card) /\ tree' = tree /\ fileCwd' = v.path
      BY <1>4, <2>1 DEF HandleLsSwitch, UpdateCardInPlace
    <3>2. card # NoCard => card.root = v.root
      BY <1>2, <1>3, <1>4, <2>1, <3>1 DEF CmdLs, ListCard, IsDir
    <3>3. v.path \in Paths
      BY <2>1 DEF IsDir
    <3>. HIDE DEF card
    <3>. QED BY <1>2, <1>4, <3>1, <3>2, <3>3, UpdateKeeps
  <2>. QED BY <1>3, <1>4, <2>1, FileFrame DEF HandleLsSwitch
<1>5. CASE v.cmd = "ls.refresh" /\ HandleLsRefresh(m, v)
  <2>. DEFINE path == IF IsDir(v.path) THEN v.path ELSE NoPath
              card == CmdLs(path, v.offset, v.root, v.q)
  <2>1. UpdateCardInPlace(m, card) /\ fileCwd' \in Paths
    BY <1>3, <1>5 DEF HandleLsRefresh
  <2>2. card # NoCard => card.root = v.root
    BY <1>2, <1>3, <1>5, RootKept
  <2>. HIDE DEF card
  <2>. QED BY <1>2, <1>5, <2>1, <2>2, UpdateKeeps
<1>6. ASSUME NEW i, HandleLsPage(m, v, i), v.cmd # "ls.file"
      PROVE  FileInv'
  <2>1. CASE UNCHANGED <<tree, fileCards, patches, delivered, starts>>
    BY <1>3, <1>6, <2>1, FileFrame DEF HandleLsPage
  <2>2. CASE IsDir(v.path) /\ UpdateCardInPlace(m, CmdLs(v.path, PagingOffset(v.offset, i, LsPageSize).offset, v.root, v.q))
    BY <1>2, <1>3, <1>6, <2>2, RootKept, UpdateKeeps DEF HandleLsPage
  <2>. QED BY <1>6, <2>1, <2>2 DEF HandleLsPage
<1>7. ASSUME NEW i, NEW cleared, HandleLsFilter(m, v, i, cleared), v.cmd # "ls.file"
      PROVE  FileInv'
  <2>1. CASE UNCHANGED <<tree, fileCards, patches, delivered, starts>>
    BY <1>3, <1>7, <2>1, FileFrame DEF HandleLsFilter
  <2>2. CASE IsDir(v.path) /\ UpdateCardInPlace(m, CmdLs(v.path, 0, v.root, SearchQueryFrom(i, cleared)))
    BY <1>2, <1>3, <1>7, <2>2, RootKept, UpdateKeeps DEF HandleLsFilter
  <2>. QED BY <1>7, <2>1, <2>2 DEF HandleLsFilter
<1>8. CASE v.cmd = "ls.browse" /\ HandleLsBrowse(m, v)
  <2>1. CASE UNCHANGED <<tree, fileCards, patches, delivered, starts>>
    BY <1>3, <1>8, <2>1, FileFrame DEF HandleLsBrowse
  <2>2. CASE IsDir(v.path) /\ UpdateCardInPlace(m, CmdLs(v.path, 0, v.root, NoInput))
    BY <1>2, <1>3, <1>8, <2>2, RootKept, UpdateKeeps DEF HandleLsBrowse
  <2>. QED BY <1>8, <2>1, <2>2 DEF HandleLsBrowse
<1>9. CASE v.cmd = "ls.file" /\ CardLsFile(v)
  BY <1>3, <1>9, FileFrame DEF CardLsFile
<1>. QED BY <1>1, <1>4, <1>5, <1>6, <1>7, <1>8, <1>9

LEMMA PatchLandsKeeps == ASSUME FileInv, NEW p \in patches, PatchLands(p) PROVE FileInv'
<1>1. /\ p.to \in DOMAIN fileCards /\ p.card # NoCard /\ p.card.root = starts[p.to]
      /\ starts[p.to] \in Paths /\ fileCwd \in Paths
  BY DEF FileInv
<1>2. patches' \subseteq patches /\ fileCwd' = fileCwd
  BY DEF PatchLands
<1>3. CASE fileCards' = [fileCards EXCEPT ![p.to] = p.card] /\ UNCHANGED starts
  <2>1. /\ IsSeq(fileCards') /\ Len(fileCards') = Len(fileCards) /\ DOMAIN fileCards' = DOMAIN fileCards
        /\ \A j \in DOMAIN fileCards : fileCards'[j] = IF j = p.to THEN p.card ELSE fileCards[j]
    <3>1. IsSeq(fileCards)
      BY DEF FileInv
    <3>2. Replaced(fileCards, p.to, p.card, fileCards')
      BY <1>3 DEF Replaced
    <3>. QED BY <1>1, <3>1, <3>2, ReplaceSeq
  <2>2. ReturnLeadsToStart'
    BY <1>1, <1>3, <2>1 DEF FileInv, ReturnLeadsToStart
  <2>. QED BY <1>2, <1>3, <2>1, <2>2 DEF FileInv
<1>4. CASE SendCard(p.card, starts[p.to])
  BY <1>1, <1>2, <1>4, SendCardKeeps
<1>. QED BY <1>3, <1>4 DEF PatchLands

LEMMA FileInvNext == FileInv /\ [FileNext]_fileVars => FileInv'
<1>. SUFFICES ASSUME FileInv, [FileNext]_fileVars PROVE FileInv'
  OBVIOUS
<1>1. fileCwd \in Paths
  BY DEF FileInv
<1>2. CASE Ls(NoPath)
  BY <1>2, LsKeeps
<1>3. ASSUME NEW p \in Paths, FileCommand(p) PROVE FileInv'
  <2>1. CASE Ls(p)
    BY <2>1, LsKeeps
  <2>2. CASE Cd(p)
    BY <1>1, <2>2, FileFrame DEF Cd
  <2>3. CASE Download(p)
    BY <1>1, <2>3, FileFrame DEF Download
  <2>. QED BY <1>3, <2>1, <2>2, <2>3 DEF FileCommand
<1>4. ASSUME NEW m \in DOMAIN fileCards, ClickFile(m) PROVE FileInv'
  BY <1>4, ClickFileKeeps
<1>5. ASSUME NEW p \in patches, PatchLands(p) PROVE FileInv'
  BY <1>5, PatchLandsKeeps
<1>6. ASSUME NEW p \in Paths, TreeChanges(p) PROVE FileInv'
  BY <1>1, <1>6, FileFrame DEF TreeChanges
<1>7. CASE UNCHANGED fileVars
  BY <1>1, <1>7, FileFrame DEF fileVars
<1>. QED BY <1>2, <1>3, <1>4, <1>5, <1>6, <1>7 DEF FileNext

-----------------------------------------------------------------------------
(* Orders: /order                                                          *)

Order == [id : Nat, text : Texts \cup {BadText}, alias : Names \cup {NoAlias, BadName},
          used : BOOLEAN]

\* The ids of a list are those of different orders, made and not gone.
OrdersOk(list, n, gone_) ==
    /\ list \in Seq(Order)
    /\ \A k \in DOMAIN list : list[k].id \in 1 .. n /\ list[k].id \notin gone_
    /\ \A j, k \in DOMAIN list : list[j].id = list[k].id => j = k

GoneOrders == deleted \ unremoved

\* What the file has more than a list could not be taken out of the file.
Covered(kept, list, u) == \A k \in DOMAIN kept : kept[k].id \in u \/ Has(list, kept[k].id)

StoreInv ==
    /\ made \in Nat /\ deleted \subseteq 1 .. made
    /\ OrdersOk(orders, made, GoneOrders) /\ OrdersOk(orderFile, made, GoneOrders)
    /\ Covered(orderFile, orders, unremoved)

\* The buttons of a card are of orders that were made.
CardOk(c, n) ==
    \A v \in OrderButtons(c) : v.offset \in Int /\ (v.cmd # "order.page" => v.id \in 1 .. n)

CardsInv ==
    /\ IsSeq(orderCards)
    /\ \A m \in DOMAIN orderCards : CardOk(orderCards[m], made)

OrderInv == StoreInv /\ CardsInv

LEMMA OrderInvInit == OrderInit => OrderInv
<1>. SUFFICES ASSUME OrderInit PROVE OrderInv
  OBVIOUS
<1>1. IsSeq(orderCards) /\ DOMAIN orderCards = {}
  BY EmptySeq DEF OrderInit, IsSeq
<1>2. StoreInv
  BY EmptySeq DEF OrderInit, StoreInv, OrdersOk, Covered
<1>. QED BY <1>1, <1>2 DEF OrderInv, CardsInv

LEMMA FindIsThere ==
    ASSUME NEW list, NEW id, Has(list, id)
    PROVE  Find(list, id) \in DOMAIN list /\ list[Find(list, id)].id = id
BY DEF Has, Find

KeepsIds(list, t) == \A id : Has(list, id) => Has(t, id)

\* A list that took the place of another: without what is gone, with the same orders.
Follows(list, t, n, d) == OrdersOk(t, n, d) /\ KeepsIds(list, t)

\* An order is replaced by one with its id.
LEMMA ReplaceOrder ==
    ASSUME NEW n, NEW d, NEW list, OrdersOk(list, n, d), NEW i \in DOMAIN list,
           NEW x \in Order, x.id = list[i].id, NEW t, Replaced(list, i, x, t)
    PROVE  Follows(list, t, n, d)
<1>1. Len(list) \in Nat /\ DOMAIN list = 1 .. Len(list)
  BY LenProperties DEF OrdersOk
<1>2. /\ t \in Seq(Order) /\ Len(t) = Len(list)
      /\ \A j \in DOMAIN list : t[j] = IF j = i THEN x ELSE list[j]
  BY <1>1, ExceptSeq DEF OrdersOk, Replaced
<1>3. DOMAIN t = DOMAIN list
  BY DEF Replaced
<1>4. OrdersOk(t, n, d)
  BY <1>2, <1>3 DEF OrdersOk
<1>5. \A j \in DOMAIN list : t[j].id = list[j].id
  BY <1>2
<1>6. KeepsIds(list, t)
  BY <1>3, <1>5 DEF KeepsIds, Has
<1>. QED BY <1>4, <1>6 DEF Follows

LEMMA SameFollows == ASSUME NEW n, NEW d, NEW list, OrdersOk(list, n, d) PROVE Follows(list, list, n, d)
BY DEF Follows, KeepsIds

LEMMA AnswersOk ==
    ASSUME NEW n, NEW d, NEW list, OrdersOk(list, n, d), NEW id
    PROVE  /\ Follows(list, UpdateUsedAt(list, id).list, n, d)
           /\ \A text \in Texts \cup {BadText} : Follows(list, UpdateText(list, id, text).list, n, d)
           /\ \A name \in Names \cup {NoAlias, BadName} : Follows(list, SetAlias(list, id, name).list, n, d)
           /\ Follows(list, Error(list).list, n, d)
<1>. DEFINE i == Find(list, id)
<1>0. Follows(list, list, n, d)
  BY SameFollows
<1>1. CASE ~ Has(list, id)
  BY <1>0, <1>1 DEF UpdateUsedAt, UpdateText, SetAlias, Kept, Error
<1>2. CASE Has(list, id)
  <2>1. i \in DOMAIN list /\ list[i] \in Order
    BY <1>2, FindIsThere, LenProperties, ElementOfSeq DEF OrdersOk
  <2>. HIDE DEF i
  <2>2. Follows(list, [list EXCEPT ![i].used = TRUE], n, d)
    <3>1. [list[i] EXCEPT !.used = TRUE] \in Order /\ [list[i] EXCEPT !.used = TRUE].id = list[i].id
      BY <2>1 DEF Order
    <3>2. Replaced(list, i, [list[i] EXCEPT !.used = TRUE], [list EXCEPT ![i].used = TRUE])
      BY DEF Replaced
    <3>. QED BY <2>1, <3>1, <3>2, ReplaceOrder
  <2>3. ASSUME NEW text \in Texts \cup {BadText}
        PROVE  Follows(list, [list EXCEPT ![i].text = text], n, d)
    <3>1. [list[i] EXCEPT !.text = text] \in Order /\ [list[i] EXCEPT !.text = text].id = list[i].id
      BY <2>1 DEF Order
    <3>2. Replaced(list, i, [list[i] EXCEPT !.text = text], [list EXCEPT ![i].text = text])
      BY DEF Replaced
    <3>. QED BY <2>1, <3>1, <3>2, ReplaceOrder
  <2>4. ASSUME NEW name \in Names \cup {NoAlias, BadName}
        PROVE  Follows(list, [list EXCEPT ![i].alias = name], n, d)
    <3>1. [list[i] EXCEPT !.alias = name] \in Order /\ [list[i] EXCEPT !.alias = name].id = list[i].id
      BY <2>1 DEF Order
    <3>2. Replaced(list, i, [list[i] EXCEPT !.alias = name], [list EXCEPT ![i].alias = name])
      BY DEF Replaced
    <3>. QED BY <2>1, <3>1, <3>2, ReplaceOrder
  <2>5. Follows(list, UpdateUsedAt(list, id).list, n, d)
    BY <1>0, <2>2 DEF UpdateUsedAt, Changed, Kept, i
  <2>6. \A text \in Texts \cup {BadText} : Follows(list, UpdateText(list, id, text).list, n, d)
    BY <1>0, <2>3 DEF UpdateText, Changed, Kept, Error, i
  <2>7. \A name \in Names \cup {NoAlias, BadName} : Follows(list, SetAlias(list, id, name).list, n, d)
    BY <1>0, <2>4 DEF SetAlias, Changed, Kept, Error, i
  <2>. QED BY <1>0, <2>5, <2>6, <2>7 DEF Error
<1>. QED BY <1>1, <1>2

\* What is saved has an id of its own, and what is removed is there no more.
LEMMA SaveOk ==
    ASSUME StoreInv, NEW text \in Texts, NEW ok
    PROVE  Follows(orders, SaveOrder(orders, text).list,
                   IF SaveOrder(orders, text).error THEN made ELSE made + 1, GoneOrders)
<1>. DEFINE x == [id |-> made + 1, text |-> text, alias |-> NoAlias, used |-> FALSE]
            t == Append(orders, x)
<1>1. x \in Order /\ x.id = made + 1
  BY DEF Order, StoreInv
<1>. HIDE DEF x
<1>2. /\ orders \in Seq(Order) /\ Len(orders) \in Nat /\ DOMAIN orders = 1 .. Len(orders)
      /\ \A k \in DOMAIN orders : orders[k].id \in 1 .. made
  BY LenProperties DEF StoreInv, OrdersOk
<1>3. /\ t \in Seq(Order) /\ Len(t) = Len(orders) + 1
      /\ \A k \in 1 .. Len(orders) : t[k] = orders[k]
      /\ t[Len(orders) + 1] = x
  BY <1>1, <1>2, AppendProperties
<1>4. DOMAIN t = 1 .. Len(orders) + 1
  BY <1>3, LenProperties
<1>. HIDE DEF t
<1>5. OrdersOk(t, made + 1, GoneOrders)
  <2>1. ASSUME NEW k \in DOMAIN t
        PROVE  t[k].id \in 1 .. made + 1 /\ t[k].id \notin GoneOrders
    BY <1>1, <1>2, <1>3, <1>4 DEF StoreInv, OrdersOk, GoneOrders
  <2>2. ASSUME NEW j \in DOMAIN t, NEW k \in DOMAIN t, t[j].id = t[k].id
        PROVE  j = k
    <3>1. made \in Nat /\ \A a \in DOMAIN orders : orders[a].id # made + 1
      BY <1>2 DEF StoreInv
    <3>2. CASE j = Len(orders) + 1
      BY <1>1, <1>2, <1>3, <1>4, <2>2, <3>1, <3>2
    <3>3. CASE k = Len(orders) + 1
      BY <1>1, <1>2, <1>3, <1>4, <2>2, <3>1, <3>3
    <3>4. CASE j \in DOMAIN orders /\ k \in DOMAIN orders
      BY <1>2, <1>3, <2>2, <3>4 DEF StoreInv, OrdersOk
    <3>. QED BY <1>2, <1>4, <3>2, <3>3, <3>4
  <2>. QED BY <1>3, <2>1, <2>2 DEF OrdersOk
<1>6. KeepsIds(orders, t)
  BY <1>2, <1>3, <1>4 DEF KeepsIds, Has
<1>7. Follows(orders, t, made + 1, GoneOrders) /\ Follows(orders, orders, made, GoneOrders)
  BY <1>5, <1>6, SameFollows DEF StoreInv, Follows
<1>. QED BY <1>7 DEF SaveOrder, Changed, Error, t, x

LEMMA RemoveOk ==
    ASSUME NEW n, NEW d, NEW list, OrdersOk(list, n, d), NEW id, Has(list, id)
    PROVE  /\ OrdersOk(RemoveOrder(list, id).list, n, d \cup {id})
           /\ \A x : x # id /\ Has(list, x) => Has(RemoveOrder(list, id).list, x)
<1>. DEFINE k == Find(list, id)
            r == RemoveAt(list, k)
<1>1. k \in DOMAIN list /\ list[k].id = id /\ list \in Seq(Order)
  BY FindIsThere DEF OrdersOk
<1>. HIDE DEF k
<1>2. /\ r \in Seq(Order) /\ DOMAIN r = 1 .. Len(list) - 1
      /\ \A j \in DOMAIN r : r[j] = list[Kth(k, j)] /\ Kth(k, j) \in DOMAIN list \ {k}
  BY <1>1, RemoveSeq
<1>. HIDE DEF r
<1>3. \A i, j \in DOMAIN r : Kth(k, i) = Kth(k, j) => i = j
  BY <1>1, <1>2, LenProperties DEF Kth
<1>4. OrdersOk(r, n, d \cup {id})
  BY <1>1, <1>2, <1>3 DEF OrdersOk
<1>5. ASSUME NEW x, x # id, Has(list, x) PROVE Has(r, x)
  <2>1. PICK j \in DOMAIN list : list[j].id = x
    BY <1>5 DEF Has
  <2>2. Len(list) \in Nat /\ DOMAIN list = 1 .. Len(list) /\ j # k
    BY <1>1, <1>5, <2>1, LenProperties
  <2>3. PICK i \in 1 .. Len(list) - 1 : Kth(k, i) = j
    <3>1. CASE j < k
      BY <1>1, <2>1, <2>2, <3>1 DEF Kth
    <3>2. CASE j > k
      <4>1. j - 1 \in 1 .. Len(list) - 1 /\ Kth(k, j - 1) = j
        BY <1>1, <2>1, <2>2, <3>2 DEF Kth
      <4>. QED BY <4>1
    <3>. QED BY <1>1, <2>1, <2>2, <3>1, <3>2
  <2>. QED BY <1>2, <2>1, <2>3 DEF Has
<1>. QED BY <1>4, <1>5 DEF RemoveOrder, Changed, r, k

LEMMA MoreMade ==
    ASSUME NEW n \in Nat, NEW d, NEW list, OrdersOk(list, n, d)
    PROVE  OrdersOk(list, n + 1, d)
BY DEF OrdersOk

LEMMA FewerGone ==
    ASSUME NEW n, NEW d, NEW e, e \subseteq d, NEW list, OrdersOk(list, n, d)
    PROVE  OrdersOk(list, n, e)
BY DEF OrdersOk

\* A list that follows one that covers the file covers the file, written or not.
LEMMA ApplyOk ==
    ASSUME NEW n, NEW d, NEW u, NEW list, Covered(orderFile, list, u),
           NEW answer, Follows(list, answer.list, n, d), OrdersOk(orderFile, n, d),
           NEW ok, Apply(answer, ok)
    PROVE  OrdersOk(orders', n, d) /\ OrdersOk(orderFile', n, d) /\ Covered(orderFile', orders', u)
<1>1. OrdersOk(answer.list, n, d)
  BY DEF Follows
<1>2. Covered(orderFile, answer.list, u)
  BY DEF Covered, Follows, KeepsIds
<1>3. Covered(answer.list, answer.list, u)
  BY DEF Covered, Has
<1>4. orders' = answer.list /\ orderFile' \in {orderFile, answer.list}
  BY DEF Apply, Persist
<1>. QED BY <1>1, <1>2, <1>3, <1>4

\* The file is read, or nothing happens to the orders.
LEMMA OrdersKept ==
    ASSUME StoreInv, UNCHANGED <<made, deleted, unremoved, orderFile>>, orders' \in {orders, orderFile}
    PROVE  StoreInv'
<1>1. Covered(orderFile, orderFile, unremoved)
  BY DEF Covered, Has
<1>2. OrdersOk(orders', made, GoneOrders) /\ Covered(orderFile, orders', unremoved)
  BY <1>1 DEF StoreInv
<1>3. GoneOrders' = GoneOrders
  BY DEF GoneOrders
<1>. QED BY <1>2, <1>3 DEF StoreInv

\* The store is changed: of the orders as they are, or as the file has them.
LEMMA OrderAnswered ==
    ASSUME StoreInv, UNCHANGED <<made, deleted, unremoved>>, NEW list \in {orders, orderFile},
           NEW answer, Follows(list, answer.list, made, GoneOrders), NEW ok, Apply(answer, ok)
    PROVE  StoreInv'
<1>1. Covered(orderFile, orderFile, unremoved)
  BY DEF Covered, Has
<1>2. Covered(orderFile, list, unremoved) /\ OrdersOk(orderFile, made, GoneOrders)
  BY <1>1 DEF StoreInv
<1>3. OrdersOk(orders', made, GoneOrders) /\ OrdersOk(orderFile', made, GoneOrders) /\ Covered(orderFile', orders', unremoved)
  BY <1>2, ApplyOk
<1>4. GoneOrders' = GoneOrders
  BY DEF GoneOrders
<1>. QED BY <1>3, <1>4 DEF StoreInv

\* The user is told that an order is gone that the list looked at does not have.
LEMMA ToldGoneKeeps ==
    ASSUME StoreInv, UNCHANGED <<made, unremoved, orderFile>>, orders' \in {orders, orderFile},
           NEW id \in 1 .. made, ~ Has(orders', id), ToldGone(id)
    PROVE  StoreInv'
<1>1. /\ OrdersOk(orders', made, GoneOrders) /\ OrdersOk(orderFile, made, GoneOrders)
      /\ Covered(orderFile, orders', unremoved)
  <2>1. Covered(orderFile, orderFile, unremoved)
    BY DEF Covered, Has
  <2>. QED BY <2>1 DEF StoreInv
<1>2. GoneOrders' \subseteq GoneOrders \cup ({id} \ unremoved)
  BY DEF GoneOrders, ToldGone
<1>3. OrdersOk(orders', made, GoneOrders')
  BY <1>1, <1>2 DEF OrdersOk, Has
<1>4. OrdersOk(orderFile, made, GoneOrders')
  <2>1. \A k \in DOMAIN orderFile : orderFile[k].id = id => id \in unremoved
    BY <1>1 DEF Covered
  <2>. QED BY <1>1, <1>2, <2>1 DEF OrdersOk
<1>5. deleted' \subseteq 1 .. made
  BY DEF ToldGone, StoreInv
<1>. QED BY <1>1, <1>3, <1>4, <1>5 DEF StoreInv

\* A click on a card that changes an order, if it is still there.
LEMMA MutateKeeps ==
    ASSUME StoreInv, NEW m, NEW v, v.id \in 1 .. made, NEW answer, NEW ok,
           Follows(orderFile, answer.list, made, GoneOrders), MutateOrderAndRefreshCard(m, v, answer, ok)
    PROVE  StoreInv'
<1>1. CASE Has(orderFile, v.id)
  BY <1>1, OrderAnswered DEF MutateOrderAndRefreshCard, LoadOrders
<1>2. CASE ~ Has(orderFile, v.id)
  BY <1>2, ToldGoneKeeps DEF MutateOrderAndRefreshCard, LoadOrders
<1>. QED BY <1>1, <1>2

LEMMA OrderDeleteKeeps ==
    ASSUME StoreInv, NEW m, NEW v, v.id \in 1 .. made, NEW ok \in BOOLEAN, HandleOrderDelete(m, v, ok)
    PROVE  StoreInv'
<1>1. CASE ~ Has(orders, v.id)
  BY <1>1, ToldGoneKeeps DEF HandleOrderDelete
<1>2. CASE Has(orders, v.id)
  <2>. DEFINE list == RemoveOrder(orders, v.id).list
  <2>1. OrdersOk(list, made, GoneOrders \cup {v.id})
    BY <1>2, RemoveOk DEF StoreInv
  <2>2. \A x : x # v.id /\ Has(orders, x) => Has(list, x)
    BY <1>2, RemoveOk DEF StoreInv
  <2>3. /\ orders' = list /\ made' = made
        /\ ok => orderFile' = list /\ ToldGone(v.id) /\ unremoved' = unremoved \ {v.id}
        /\ ~ ok => orderFile' = orderFile /\ deleted' = deleted /\ unremoved' = unremoved \cup {v.id}
    BY <1>2 DEF HandleOrderDelete, Apply, Persist, RemoveOrder, Changed
  <2>. HIDE DEF list
  <2>4. CASE ok
    <3>1. GoneOrders' \subseteq GoneOrders \cup {v.id} /\ deleted' \subseteq 1 .. made
      BY <2>3, <2>4 DEF GoneOrders, ToldGone, StoreInv
    <3>2. OrdersOk(list, made, GoneOrders')
      BY <2>1, <3>1, FewerGone
    <3>3. Covered(list, list, unremoved')
      BY DEF Covered, Has
    <3>. QED BY <2>3, <2>4, <3>1, <3>2, <3>3 DEF StoreInv
  <2>5. CASE ~ ok
    <3>1. GoneOrders' \subseteq GoneOrders /\ deleted' \subseteq 1 .. made
      BY <2>3, <2>5 DEF GoneOrders, StoreInv
    <3>2. OrdersOk(list, made, GoneOrders') /\ OrdersOk(orderFile, made, GoneOrders')
      BY <2>1, <3>1, FewerGone DEF StoreInv
    <3>3. Covered(orderFile, list, unremoved')
      BY <2>2, <2>3, <2>5 DEF Covered, StoreInv
    <3>. QED BY <2>3, <2>5, <3>1, <3>2, <3>3 DEF StoreInv
  <2>. QED BY <2>4, <2>5
<1>. QED BY <1>1, <1>2

LEMMA ClickOrderKeeps ==
    ASSUME OrderInv, NEW m \in DOMAIN orderCards, NEW ok \in BOOLEAN, ClickOrder(m, ok)
    PROVE  StoreInv'
<1>0. /\ StoreInv /\ OrdersOk(orders, made, GoneOrders) /\ OrdersOk(orderFile, made, GoneOrders)
      /\ LoadOrders = orderFile
  BY DEF OrderInv, StoreInv, LoadOrders
<1>1. ASSUME NEW v, v.id \in 1 .. made, HandleOrderDelete(m, v, ok) PROVE StoreInv'
  BY <1>0, <1>1, OrderDeleteKeeps
<1>2. ASSUME NEW v, NEW i, HandleOrderPage(m, v, i) PROVE StoreInv'
  BY <1>0, <1>2, OrdersKept DEF HandleOrderPage
<1>3. ASSUME NEW v, v.id \in 1 .. made, NEW cmd, ShowOrderEditCard(m, v, cmd) PROVE StoreInv'
  BY <1>0, <1>3, OrdersKept, ToldGoneKeeps DEF ShowOrderEditCard
<1>4. ASSUME NEW v, v.id \in 1 .. made, NEW n \in Names \cup {NoAlias, BadName},
             HandleOrderAliasInput(m, v, n, ok)
      PROVE  StoreInv'
  BY <1>0, <1>4, AnswersOk, MutateKeeps DEF HandleOrderAliasInput
<1>5. ASSUME NEW v, v.id \in 1 .. made, HandleOrderAliasRemove(m, v, ok) PROVE StoreInv'
  <2>1. /\ Follows(orderFile, SetAlias(LoadOrders, v.id, NoAlias).list, made, GoneOrders)
        /\ Follows(orderFile, Error(LoadOrders).list, made, GoneOrders)
    BY <1>0, AnswersOk
  <2>2. PICK answer \in {SetAlias(LoadOrders, v.id, NoAlias), Error(LoadOrders)} :
          MutateOrderAndRefreshCard(m, v, answer, ok)
    BY <1>5 DEF HandleOrderAliasRemove
  <2>. QED BY <1>0, <1>5, <2>1, <2>2, MutateKeeps
<1>6. ASSUME NEW v, v.id \in 1 .. made, NEW t \in Texts \cup {BadText}, HandleOrderTextInput(m, v, t, ok)
      PROVE  StoreInv'
  BY <1>0, <1>6, AnswersOk, MutateKeeps DEF HandleOrderTextInput
<1>7. ASSUME NEW v, v.id \in 1 .. made, ResolveOrderExecForQueue(v, ok) PROVE StoreInv'
  <2>1. CASE Has(orders, v.id)
    <3>1. UNCHANGED <<made, deleted, unremoved>> /\ Apply(UpdateUsedAt(orders, v.id), ok)
      BY <1>7, <2>1 DEF ResolveOrderExecForQueue
    <3>. QED BY <1>0, <3>1, AnswersOk, OrderAnswered
  <2>2. CASE ~ Has(orders, v.id)
    BY <1>0, <1>7, <2>2, ToldGoneKeeps DEF ResolveOrderExecForQueue
  <2>. QED BY <2>1, <2>2
<1>8. PICK v \in OrderButtons(orderCards[m]) :
       \/ v.cmd = "order.delete" /\ HandleOrderDelete(m, v, ok)
       \/ v.cmd = "order.page" /\ ok /\ \E i \in {NoInput, DigitsOf(2), Word} : HandleOrderPage(m, v, i)
       \/ v.cmd = "order.aliasEdit" /\ ok /\ HandleOrderAliasEdit(m, v)
       \/ v.cmd = "order.textEdit" /\ ok /\ HandleOrderTextEdit(m, v)
       \/ v.cmd = "order.aliasInput" /\ \E n \in Names \cup {NoAlias, BadName} : HandleOrderAliasInput(m, v, n, ok)
       \/ v.cmd = "order.aliasRemove" /\ HandleOrderAliasRemove(m, v, ok)
       \/ v.cmd = "order.textInput" /\ \E t \in Texts \cup {BadText} : HandleOrderTextInput(m, v, t, ok)
       \/ v.cmd = "order.exec" /\ ResolveOrderExecForQueue(v, ok)
  BY DEF ClickOrder
<1>9. v.cmd # "order.page" => v.id \in 1 .. made
  BY DEF OrderInv, CardsInv, CardOk
<1>. QED BY <1>1, <1>2, <1>3, <1>4, <1>5, <1>6, <1>7, <1>8, <1>9
        DEF HandleOrderAliasEdit, HandleOrderTextEdit

LEMMA OrderCommandKeeps ==
    ASSUME StoreInv, NEW ok \in BOOLEAN, NEW n, NEW answer, NEW id, UNCHANGED <<made, deleted, unremoved>>,
           \/ \E text \in Texts : answer = UpdateText(orders, id, text)
           \/ \E name \in Names \cup {NoAlias} : answer = SetAlias(orders, id, name),
           Apply(answer, ok)
    PROVE  StoreInv'
<1>1. OrdersOk(orders, made, GoneOrders)
  BY DEF StoreInv
<1>2. Follows(orders, answer.list, made, GoneOrders)
  BY <1>1, AnswersOk
<1>. QED BY <1>2, OrderAnswered

LEMMA StoreInvNext == OrderInv /\ [OrderNext]_orderVars => StoreInv'
<1>. SUFFICES ASSUME OrderInv, [OrderNext]_orderVars PROVE StoreInv'
  OBVIOUS
<1>0. /\ StoreInv /\ OrdersOk(orders, made, GoneOrders) /\ OrdersOk(orderFile, made, GoneOrders)
      /\ made \in Nat /\ Covered(orderFile, orders, unremoved)
  BY DEF OrderInv, StoreInv
<1>1. CASE OrderList
  BY <1>0, <1>1, OrdersKept DEF OrderList, LoadOrders
<1>2. ASSUME NEW name, ExpandAliasMessage(name) PROVE StoreInv'
  BY <1>0, <1>2, OrdersKept DEF ExpandAliasMessage
<1>3. ASSUME NEW ok \in BOOLEAN, NEW t \in Texts, OrderSave(t, ok) PROVE StoreInv'
  <2>. DEFINE answer == SaveOrder(orders, t)
              n == IF answer.error THEN made ELSE made + 1
  <2>1. Follows(orders, answer.list, n, GoneOrders)
    BY <1>0, SaveOk
  <2>2. OrdersOk(orderFile, n, GoneOrders)
    BY <1>0, MoreMade
  <2>3. Apply(answer, ok) /\ made' = n /\ deleted' = deleted /\ unremoved' = unremoved
    BY <1>3 DEF OrderSave
  <2>4. n \in Nat /\ deleted \subseteq 1 .. n
    BY <1>0 DEF StoreInv
  <2>. HIDE DEF answer, n
  <2>5. OrdersOk(orders', n, GoneOrders) /\ OrdersOk(orderFile', n, GoneOrders) /\ Covered(orderFile', orders', unremoved)
    BY <1>0, <2>1, <2>2, <2>3, ApplyOk
  <2>6. GoneOrders' = GoneOrders
    BY <2>3 DEF GoneOrders
  <2>. QED BY <2>3, <2>4, <2>5, <2>6 DEF StoreInv
<1>4. ASSUME NEW ok \in BOOLEAN, NEW n, NEW t \in Texts, OrderEdit(n, t, ok) PROVE StoreInv'
  BY <1>0, <1>4, OrderCommandKeeps DEF OrderEdit
<1>5. ASSUME NEW ok \in BOOLEAN, NEW n, NEW name \in Names, CmdOrderAliasAdd(n, name, ok) PROVE StoreInv'
  BY <1>0, <1>5, OrderCommandKeeps DEF CmdOrderAliasAdd
<1>6. ASSUME NEW ok \in BOOLEAN, NEW n, CmdOrderAliasRemove(n, ok) PROVE StoreInv'
  BY <1>0, <1>6, OrderCommandKeeps DEF CmdOrderAliasRemove
<1>7. ASSUME NEW ok \in BOOLEAN, NEW m \in DOMAIN orderCards, ClickOrder(m, ok) PROVE StoreInv'
  BY <1>7, ClickOrderKeeps
<1>8. CASE OrderRestart
  BY <1>0, <1>8, OrdersKept DEF OrderRestart, LoadOrders
<1>9. CASE UNCHANGED orderVars
  BY <1>0, <1>9, OrdersKept DEF orderVars
<1>. QED BY <1>1, <1>2, <1>3, <1>4, <1>5, <1>6, <1>7, <1>8, <1>9 DEF OrderNext

\* A page of a list: its first place, and the items from there on.
LEMMA PageTyped ==
    ASSUME NEW S, NEW list \in Seq(S), NEW off \in Int, NEW size \in Nat \ {0}
    PROVE  LET slice == PageSlice(list, off, size) IN
           /\ slice.offset \in Int
           /\ slice.items \in Seq(S) /\ \A k \in DOMAIN slice.items : \E j \in DOMAIN list : slice.items[k] = list[j]
<1>. DEFINE total == Len(list)
            pages == PageCount(total, size)
            high == (pages - 1) * size
            from == ClampInt(off, 0, high)
            last == IF from + size > total THEN total ELSE from + size
            items == SubSeq(list, from + 1, last)
<1>1. total \in Nat /\ DOMAIN list = 1 .. total /\ \A j \in 1 .. total : list[j] \in S
  BY LenProperties, ElementOfSeq
<1>2. pages \in Nat /\ pages >= 1
  <2>1. CASE total = 0
    BY <2>1 DEF PageCount
  <2>2. CASE total # 0
    <3>1. ASSUME NEW a \in Nat, NEW b \in Nat \ {0}, a >= b PROVE a \div b \in Nat /\ a \div b >= 1
      BY <3>1
    <3>2. total + size - 1 \in Nat /\ total + size - 1 >= size
      BY <1>1, <2>2
    <3>3. pages = (total + size - 1) \div size
      BY <2>2 DEF PageCount
    <3>. QED BY <3>1, <3>2, <3>3
  <2>. QED BY <2>1, <2>2
<1>. HIDE DEF pages
<1>3. high \in Nat
  BY <1>2
<1>. HIDE DEF high
<1>4. from \in Nat
  BY <1>3 DEF ClampInt
<1>. HIDE DEF from
<1>5. last \in Int /\ last <= total
  BY <1>1, <1>4
<1>. HIDE DEF last, total
<1>6. /\ items \in Seq(S)
      /\ Len(items) = IF from + 1 <= last THEN last - (from + 1) + 1 ELSE 0
      /\ \A k \in 1 .. last - (from + 1) + 1 : items[k] = list[from + 1 + k - 1]
  <2>1. from + 1 \in Int /\ \A j \in from + 1 .. last : list[j] \in S
    BY <1>1, <1>4, <1>5
  <2>. QED BY <1>5, <2>1, SubSeqProperties
<1>. HIDE DEF items
<1>7. ASSUME NEW k \in DOMAIN items PROVE \E j \in DOMAIN list : items[k] = list[j]
  <2>1. k \in 1 .. Len(items) /\ Len(items) \in Nat
    BY <1>6, LenProperties
  <2>2. k \in 1 .. last - (from + 1) + 1
    BY <1>4, <1>5, <1>6, <2>1
  <2>3. from + 1 + k - 1 \in 1 .. total
    BY <1>1, <1>4, <1>5, <2>2
  <2>. QED BY <1>1, <1>6, <2>2, <2>3
<1>8. PageSlice(list, off, size).offset = from /\ PageSlice(list, off, size).items = items
  BY DEF PageSlice, PageInfo, items, last, from, high, pages, total
<1>. QED BY <1>4, <1>6, <1>7, <1>8

LEMMA ListCardOk ==
    ASSUME NEW n, NEW d, NEW list, OrdersOk(list, n, d), NEW off \in Int
    PROVE  CardOk(OrderListCard(list, off), n)
<1>. DEFINE slice == PageSlice(list, off, OrderPageSize)
            c == OrderListCard(list, off)
<1>0. OrderPageSize \in Nat \ {0} /\ list \in Seq(Order)
  BY OrderAssumption DEF OrdersOk
<1>1. /\ slice.offset \in Int
      /\ slice.items \in Seq(Order) /\ \A k \in DOMAIN slice.items : \E j \in DOMAIN list : slice.items[k] = list[j]
  BY <1>0, PageTyped
<1>. HIDE DEF slice
<1>2. /\ c.kind = "list" /\ c.ids = [k \in DOMAIN slice.items |-> slice.items[k].id]
      /\ c.offset = slice.offset
  BY DEF OrderListCard, slice
<1>. HIDE DEF c
<1>3. \A id \in ToSet(c.ids) : id \in 1 .. n
  BY <1>1, <1>2 DEF ToSet, OrdersOk
<1>4. ASSUME NEW v \in OrderButtons(c)
      PROVE  v.offset \in Int /\ (v.cmd # "order.page" => v.id \in 1 .. n)
  <2>1. CASE \E id \in ToSet(c.ids) : v \in OrderRow(c, id)
    <3>1. PICK id \in ToSet(c.ids) : \E cmd : v = OrderButton(cmd, id, c.offset)
      BY <2>1 DEF OrderRow
    <3>. QED BY <1>1, <1>2, <1>3, <3>1 DEF OrderButton
  <2>2. CASE \E o \in PaginationBar(c, OrderPageSize, c.total) : v = OrderButton("order.page", 0, o)
    <3>1. PICK o \in {c.offset - OrderPageSize, c.offset + OrderPageSize} : v = OrderButton("order.page", 0, o)
      BY <2>2 DEF PaginationBar
    <3>2. o \in Int
      BY <1>0, <1>1, <1>2, <3>1
    <3>. QED BY <3>1, <3>2 DEF OrderButton
  <2>. QED BY <1>2, <2>1, <2>2 DEF OrderButtons
<1>5. CardOk(c, n)
  BY <1>4 DEF CardOk
<1>. QED BY <1>5 DEF c

LEMMA EditCardOk ==
    ASSUME NEW n, NEW id \in 1 .. n, NEW off \in Int, NEW cmd
    PROVE  CardOk(OrderEditCard(cmd, id, off), n)
BY DEF CardOk, OrderButtons, OrderEditCard, OrderButton

\* A card is sent, or shown in the place of another.
LEMMA CardSent ==
    ASSUME CardsInv, made' = made, NEW card, CardOk(card, made),
           \/ orderCards' = Append(orderCards, card)
           \/ \E m \in DOMAIN orderCards : Shows(m, card)
    PROVE  CardsInv'
<1>1. CASE orderCards' = Append(orderCards, card)
  <2>1. /\ IsSeq(orderCards')
        /\ \A i \in DOMAIN orderCards : orderCards'[i] = orderCards[i]
        /\ orderCards'[Len(orderCards) + 1] = card
        /\ \A i \in DOMAIN orderCards' : i \in DOMAIN orderCards \/ i = Len(orderCards) + 1
    BY <1>1, AppendSeq DEF CardsInv
  <2>. QED BY <2>1 DEF CardsInv
<1>2. ASSUME NEW m \in DOMAIN orderCards, Shows(m, card) PROVE CardsInv'
  <2>1. IsSeq(orderCards) /\ Replaced(orderCards, m, card, orderCards')
    BY <1>2 DEF CardsInv, Shows, Replaced
  <2>2. /\ IsSeq(orderCards') /\ DOMAIN orderCards' = DOMAIN orderCards
        /\ \A j \in DOMAIN orderCards : orderCards'[j] = IF j = m THEN card ELSE orderCards[j]
    BY <2>1, ReplaceSeq
  <2>. QED BY <2>2 DEF CardsInv
<1>. QED BY <1>1, <1>2

LEMMA CardsStay ==
    ASSUME CardsInv, orderCards' = orderCards, made' = made \/ made' = made + 1, made \in Nat
    PROVE  CardsInv'
<1>1. 1 .. made \subseteq 1 .. made'
  OBVIOUS
<1>2. \A c : CardOk(c, made) => CardOk(c, made')
  BY <1>1 DEF CardOk
<1>. QED BY <1>2 DEF CardsInv

LEMMA ClickCardsKeeps ==
    ASSUME OrderInv, NEW m \in DOMAIN orderCards, NEW ok \in BOOLEAN, ClickOrder(m, ok)
    PROVE  CardsInv'
<1>0. /\ StoreInv /\ CardsInv /\ OrdersOk(orders, made, GoneOrders) /\ OrdersOk(orderFile, made, GoneOrders)
      /\ LoadOrders = orderFile /\ made \in Nat
  BY DEF OrderInv, StoreInv, LoadOrders
<1>1. ASSUME NEW v, v.offset \in Int, HandleOrderDelete(m, v, ok) PROVE CardsInv'
  <2>1. CASE UNCHANGED <<orderCards, made>>
    BY <1>0, <2>1, CardsStay
  <2>2. CASE Has(orders, v.id) /\ Shows(m, OrderListCard(RemoveOrder(orders, v.id).list, v.offset))
    <3>1. OrdersOk(RemoveOrder(orders, v.id).list, made, GoneOrders \cup {v.id})
      BY <1>0, <2>2, RemoveOk
    <3>2. CardOk(OrderListCard(RemoveOrder(orders, v.id).list, v.offset), made)
      BY <1>1, <3>1, ListCardOk
    <3>3. made' = made
      BY <1>1 DEF HandleOrderDelete
    <3>. QED BY <1>0, <2>2, <3>2, <3>3, CardSent
  <2>. QED BY <1>1, <2>1, <2>2 DEF HandleOrderDelete
<1>2. ASSUME NEW v, v.offset \in Int, NEW i \in {NoInput, DigitsOf(2), Word}, HandleOrderPage(m, v, i)
      PROVE  CardsInv'
  <2>. DEFINE asked == PagingOffset(v.offset, i, OrderPageSize)
  <2>1. asked.ok => asked.offset \in Int
    <3>1. OrderPageSize \in Nat
      BY OrderAssumption
    <3>2. CASE i = NoInput
      BY <1>2, <3>2 DEF PagingOffset, At
    <3>3. CASE i = DigitsOf(2)
      BY <3>1, <3>3 DEF PagingOffset, ParseJumpOffset, At, DigitsOf, NoInput
    <3>4. CASE i = Word
      BY <3>4 DEF PagingOffset, ParseJumpOffset, Refused, Word, NoInput
    <3>. QED BY <1>2, <3>2, <3>3, <3>4
  <2>2. CASE UNCHANGED <<orderCards, made>>
    BY <1>0, <2>2, CardsStay
  <2>3. CASE asked.ok /\ Shows(m, OrderListCard(orderFile, asked.offset)) /\ made' = made
    <3>. HIDE DEF asked
    <3>1. CardOk(OrderListCard(orderFile, asked.offset), made)
      BY <1>0, <2>1, <2>3, ListCardOk
    <3>. QED BY <1>0, <2>3, <3>1, CardSent
  <2>. QED BY <1>0, <1>2, <2>2, <2>3 DEF HandleOrderPage
<1>3. ASSUME NEW v, v.offset \in Int, v.id \in 1 .. made, NEW cmd, ShowOrderEditCard(m, v, cmd) PROVE CardsInv'
  <2>1. CASE UNCHANGED <<orderCards, made>>
    BY <1>0, <2>1, CardsStay
  <2>2. CASE Shows(m, OrderEditCard(cmd, v.id, v.offset)) /\ made' = made
    <3>1. CardOk(OrderEditCard(cmd, v.id, v.offset), made)
      BY <1>3, EditCardOk
    <3>. QED BY <1>0, <2>2, <3>1, CardSent
  <2>. QED BY <1>3, <2>1, <2>2 DEF ShowOrderEditCard
<1>4. ASSUME NEW v, v.offset \in Int, NEW answer, Follows(orderFile, answer.list, made, GoneOrders),
             MutateOrderAndRefreshCard(m, v, answer, ok)
      PROVE  CardsInv'
  <2>1. CASE UNCHANGED <<orderCards, made>>
    BY <1>0, <2>1, CardsStay
  <2>2. CASE Shows(m, OrderListCard(answer.list, v.offset)) /\ made' = made
    <3>1. CardOk(OrderListCard(answer.list, v.offset), made)
      BY <1>4, ListCardOk DEF Follows
    <3>. QED BY <1>0, <2>2, <3>1, CardSent
  <2>. QED BY <1>4, <2>1, <2>2 DEF MutateOrderAndRefreshCard
<1>5. ASSUME NEW v, v.offset \in Int, NEW n \in Names \cup {NoAlias, BadName}, HandleOrderAliasInput(m, v, n, ok)
      PROVE  CardsInv'
  BY <1>0, <1>4, <1>5, AnswersOk DEF HandleOrderAliasInput
<1>6. ASSUME NEW v, v.offset \in Int, HandleOrderAliasRemove(m, v, ok) PROVE CardsInv'
  <2>1. /\ Follows(orderFile, SetAlias(LoadOrders, v.id, NoAlias).list, made, GoneOrders)
        /\ Follows(orderFile, Error(LoadOrders).list, made, GoneOrders)
    BY <1>0, AnswersOk
  <2>2. PICK answer \in {SetAlias(LoadOrders, v.id, NoAlias), Error(LoadOrders)} :
          MutateOrderAndRefreshCard(m, v, answer, ok)
    BY <1>6 DEF HandleOrderAliasRemove
  <2>. QED BY <1>4, <1>6, <2>1, <2>2
<1>7. ASSUME NEW v, v.offset \in Int, NEW t \in Texts \cup {BadText}, HandleOrderTextInput(m, v, t, ok)
      PROVE  CardsInv'
  BY <1>0, <1>4, <1>7, AnswersOk DEF HandleOrderTextInput
<1>8. ASSUME NEW v, ResolveOrderExecForQueue(v, ok) PROVE CardsInv'
  BY <1>0, <1>8, CardsStay DEF ResolveOrderExecForQueue
<1>9. PICK v \in OrderButtons(orderCards[m]) :
       \/ v.cmd = "order.delete" /\ HandleOrderDelete(m, v, ok)
       \/ v.cmd = "order.page" /\ ok /\ \E i \in {NoInput, DigitsOf(2), Word} : HandleOrderPage(m, v, i)
       \/ v.cmd = "order.aliasEdit" /\ ok /\ HandleOrderAliasEdit(m, v)
       \/ v.cmd = "order.textEdit" /\ ok /\ HandleOrderTextEdit(m, v)
       \/ v.cmd = "order.aliasInput" /\ \E n \in Names \cup {NoAlias, BadName} : HandleOrderAliasInput(m, v, n, ok)
       \/ v.cmd = "order.aliasRemove" /\ HandleOrderAliasRemove(m, v, ok)
       \/ v.cmd = "order.textInput" /\ \E t \in Texts \cup {BadText} : HandleOrderTextInput(m, v, t, ok)
       \/ v.cmd = "order.exec" /\ ResolveOrderExecForQueue(v, ok)
  BY DEF ClickOrder
<1>10. v.offset \in Int /\ (v.cmd # "order.page" => v.id \in 1 .. made)
  BY <1>0 DEF CardsInv, CardOk
<1>. QED BY <1>1, <1>2, <1>3, <1>5, <1>6, <1>7, <1>8, <1>9, <1>10
        DEF HandleOrderAliasEdit, HandleOrderTextEdit

LEMMA CardsInvNext == OrderInv /\ [OrderNext]_orderVars => CardsInv'
<1>. SUFFICES ASSUME OrderInv, [OrderNext]_orderVars PROVE CardsInv'
  OBVIOUS
<1>0. CardsInv /\ made \in Nat /\ OrdersOk(orderFile, made, GoneOrders)
  BY DEF OrderInv, StoreInv
<1>1. CASE OrderList
  <2>1. CardOk(OrderListCard(orderFile, 0), made)
    BY <1>0, ListCardOk
  <2>. QED BY <1>0, <1>1, <2>1, CardSent DEF OrderList, LoadOrders
<1>2. ASSUME NEW ok \in BOOLEAN, NEW t \in Texts, OrderSave(t, ok) PROVE CardsInv'
  BY <1>0, <1>2, CardsStay DEF OrderSave
<1>3. ASSUME NEW m \in DOMAIN orderCards, NEW ok \in BOOLEAN, ClickOrder(m, ok) PROVE CardsInv'
  BY <1>3, ClickCardsKeeps
<1>4. CASE UNCHANGED <<orderCards, made>>
  BY <1>0, <1>4, CardsStay
<1>. QED BY <1>1, <1>2, <1>3, <1>4
        DEF OrderNext, orderVars, ExpandAliasMessage, OrderEdit, CmdOrderAliasAdd, CmdOrderAliasRemove, OrderRestart

LEMMA OrderInvNext == OrderInv /\ [OrderNext]_orderVars => OrderInv'
BY StoreInvNext, CardsInvNext DEF OrderInv

-----------------------------------------------------------------------------
(* Workspaces: /ws                                                         *)

Workspaces == [WsNameSet -> [path : WsDirs \cup {"-"}, lastUsedAt : Nat]]

\* Every time is one the clock had, or the next after a later one: there is a
\* latest of them.
Within(data, n) == \A m \in WsNameSet : data[m].lastUsedAt <= n

WsType ==
    /\ saved \in Workspaces /\ wsFile \in Workspaces
    /\ wsCwd \in WsDirs \cup {"-"}
    /\ clock \in 0 .. MaxClock /\ wsClicks \in Nat
    /\ Within(saved, MaxClock + wsClicks) /\ Within(wsFile, MaxClock + wsClicks)

WsInv == WsType /\ LastUsedIsFirst

LEMMA WsInvInit == WsInit => WsInv
<1>. SUFFICES ASSUME WsInit PROVE WsInv
  OBVIOUS
<1>1. \A m \in WsNameSet : saved[m] = Unset /\ wsFile[m] = Unset
  BY DEF WsInit
<1>2. saved \in Workspaces /\ wsFile \in Workspaces
  BY DEF WsInit, Workspaces, Unset
<1>3. clock \in 0 .. MaxClock /\ wsClicks \in Nat /\ wsCwd \in WsDirs \cup {"-"} /\ MaxClock \in Nat
  BY WorkspaceAssumption DEF WsInit
<1>4. Within(saved, MaxClock + wsClicks) /\ Within(wsFile, MaxClock + wsClicks)
  BY <1>1, <1>3 DEF Within, Unset
<1>. QED BY <1>1, <1>2, <1>3, <1>4 DEF WsInv, WsType, LastUsedIsFirst, SavedNames

LEMMA MaxOfBounded ==
    ASSUME NEW n \in Nat, NEW S, S \subseteq 0 .. n, S # {}
    PROVE  Max(S) \in S /\ \A y \in S : Max(S) >= y
<1>. DEFINE T == {n - x : x \in S}
<1>0. \A x \in S : x \in Nat /\ n - x \in Nat
  OBVIOUS
<1>1. T \subseteq Nat /\ T # {}
  BY <1>0
<1>2. PICK t \in T : \A u \in T : ~(u < t)
  <2>1. PICK t \in T : \A u \in T : ~(<<u, t>> \in OpToRel(<, Nat))
    BY <1>1, NatLessThanWellFounded, WFMin
  <2>. QED BY <1>1, <2>1 DEF OpToRel
<1>3. PICK x \in S : t = n - x
  OBVIOUS
<1>4. \A y \in S : x >= y
  <2>. SUFFICES ASSUME NEW y \in S PROVE x >= y
    OBVIOUS
  <2>1. ~(n - y < n - x)
    BY <1>2, <1>3
  <2>. QED BY <1>0, <2>1
<1>. QED BY <1>4 DEF Max

\* The one that is used comes to have a later time than the others.
LEMMA TouchIsLatest ==
    ASSUME WsType, NEW data \in Workspaces, Within(data, MaxClock + wsClicks), NEW n \in WsNameSet
    PROVE  /\ Touch(data, n) \in Workspaces
           /\ Within(Touch(data, n), MaxClock + (wsClicks + 1))
           /\ Touch(data, n)[n].path = data[n].path
           /\ \A m \in WsNameSet \ {n} :
                /\ Touch(data, n)[m] = data[m]
                /\ data[m] # Unset => Touch(data, n)[n].lastUsedAt > data[m].lastUsedAt
<1>. DEFINE others == {data[m].lastUsedAt : m \in {x \in WsNameSet \ {n} : data[x] # Unset}}
            all == others \cup {clock, data[n].lastUsedAt}
            latest == Max(all)
            at == IF \E t \in others : t >= clock THEN latest + 1 ELSE latest
            b == MaxClock + wsClicks
<1>1. \A m \in WsNameSet : data[m].lastUsedAt \in 0 .. b
  BY WorkspaceAssumption DEF Workspaces, Within, WsType
<1>2. clock \in 0 .. b /\ b \in Nat
  BY WorkspaceAssumption DEF WsType
<1>3. all \subseteq 0 .. b /\ all # {} /\ clock \in all
  BY <1>1, <1>2
<1>4. Touch(data, n) = [data EXCEPT ![n].lastUsedAt = at]
  BY DEF Touch
<1>5. \A m \in WsNameSet \ {n} : data[m] # Unset => data[m].lastUsedAt \in others
  OBVIOUS
<1>6. others \subseteq all
  OBVIOUS
<1>. HIDE DEF all, others
<1>7. latest \in 0 .. b /\ \A y \in all : latest >= y
  BY <1>2, <1>3, MaxOfBounded
<1>. HIDE DEF latest, b
<1>8. at \in Nat /\ at <= b + 1 /\ \A y \in others : at > y
  <2>1. ASSUME NEW y \in others PROVE at > y
    <3>1. y \in Nat /\ clock \in Nat /\ latest \in Nat /\ latest >= y /\ latest >= clock
      BY <1>2, <1>3, <1>6, <1>7
    <3>2. CASE \E t \in others : t >= clock
      BY <3>1, <3>2
    <3>3. CASE ~ \E t \in others : t >= clock
      BY <3>1, <3>3
    <3>. QED BY <3>2, <3>3
  <2>. QED BY <1>2, <1>7, <2>1
<1>. HIDE DEF at
<1>9. /\ Touch(data, n)[n].path = data[n].path /\ Touch(data, n)[n].lastUsedAt = at
      /\ \A m \in WsNameSet \ {n} : Touch(data, n)[m] = data[m]
  BY <1>4 DEF Workspaces
<1>10. Touch(data, n) \in Workspaces
  BY <1>4, <1>8 DEF Workspaces
<1>11. MaxClock + (wsClicks + 1) = b + 1
  BY WorkspaceAssumption DEF b, WsType
<1>12. Within(Touch(data, n), b + 1)
  <2>. SUFFICES ASSUME NEW m \in WsNameSet PROVE Touch(data, n)[m].lastUsedAt <= b + 1
    BY DEF Within
  <2>1. CASE m = n
    BY <1>8, <1>9, <2>1
  <2>2. CASE m # n
    <3>1. data[m].lastUsedAt \in 0 .. b
      BY <1>1 DEF b
    <3>. QED BY <1>2, <1>9, <2>2, <3>1 DEF b
  <2>. QED BY <2>1, <2>2
<1>. QED BY <1>5, <1>8, <1>9, <1>10, <1>11, <1>12

\* What the actions leave to show of the store.
StoreOk(data) == data \in Workspaces /\ Within(data, MaxClock + (wsClicks + 1))

LEMMA StoreStays == ASSUME WsType PROVE StoreOk(saved) /\ StoreOk(wsFile)
<1>1. \A a, b \in Nat : a <= MaxClock + b => a <= MaxClock + (b + 1)
  BY WorkspaceAssumption
<1>. QED BY <1>1 DEF WsType, StoreOk, Within, Workspaces

Stored ==
    /\ StoreOk(saved') /\ StoreOk(wsFile')
    /\ wsCwd' \in WsDirs \cup {"-"}
    /\ LastUsedIsFirst'

LEMMA WsSaveKeeps ==
    ASSUME WsInv, NEW n \in WsNameSet, NEW ok \in BOOLEAN, WsSave(n, ok)
    PROVE  Stored
<1>. DEFINE data == [saved EXCEPT ![n] = [path |-> wsCwd, lastUsedAt |-> 0]]
            t == Touch(data, n)
<1>1. data \in Workspaces /\ WsType /\ \A m \in WsNameSet \ {n} : data[m] = saved[m]
  BY DEF WsInv, WsType, Workspaces
<1>2. Within(data, MaxClock + wsClicks)
  <2>. SUFFICES ASSUME NEW m \in WsNameSet PROVE data[m].lastUsedAt <= MaxClock + wsClicks
    BY DEF Within
  <2>1. CASE m = n
    BY <2>1, WorkspaceAssumption DEF WsInv, WsType, Workspaces
  <2>2. CASE m # n
    BY <1>1, <2>2 DEF WsType, Within
  <2>. QED BY <2>1, <2>2
<1>3. saved' = t /\ wsFile' \in {t, wsFile} /\ wsCwd' = wsCwd /\ lastSaved' = n
  BY DEF WsSave, PersistWorkspaces, SaveWorkspace
<1>. HIDE DEF data
<1>4. /\ StoreOk(t)
      /\ \A m \in WsNameSet \ {n} : t[m] = data[m] /\ (data[m] # Unset => t[n].lastUsedAt > data[m].lastUsedAt)
  BY <1>1, <1>2, TouchIsLatest DEF StoreOk
<1>. HIDE DEF t
<1>5. LastUsedIsFirst'
  BY <1>3, <1>4 DEF LastUsedIsFirst, SavedNames
<1>. QED BY <1>1, <1>3, <1>4, <1>5, StoreStays DEF Stored, WsType

LEMMA WsUseKeeps ==
    ASSUME WsInv, NEW n, NEW ok \in BOOLEAN, WsUse(n, ok)
    PROVE  Stored
<1>0. WsType /\ StoreOk(saved) /\ StoreOk(wsFile) /\ wsCwd \in WsDirs \cup {"-"}
  BY StoreStays DEF WsInv, WsType
<1>1. CASE n \in SavedNames /\ saved[n].path \notin gone
  <2>. DEFINE t == Touch(saved, n)
  <2>1. n \in WsNameSet /\ saved[n].path \in WsDirs \cup {"-"}
    BY <1>0, <1>1 DEF SavedNames, WsType, Workspaces
  <2>2. saved' = t /\ wsFile' \in {t, wsFile} /\ wsCwd' \in {saved[n].path, wsCwd} /\ lastSaved' = n
    BY <1>1 DEF WsUse, PersistWorkspaces
  <2>3. /\ StoreOk(t)
        /\ \A m \in WsNameSet \ {n} : t[m] = saved[m] /\ (saved[m] # Unset => t[n].lastUsedAt > saved[m].lastUsedAt)
    BY <1>0, <2>1, TouchIsLatest DEF StoreOk, WsType
  <2>. HIDE DEF t
  <2>4. LastUsedIsFirst'
    BY <2>2, <2>3 DEF LastUsedIsFirst, SavedNames
  <2>. QED BY <1>0, <2>1, <2>2, <2>3, <2>4 DEF Stored
<1>2. CASE UNCHANGED <<saved, wsFile, wsCwd, lastSaved>>
  BY <1>0, <1>2 DEF Stored, WsInv, LastUsedIsFirst, SavedNames
<1>. QED BY <1>1, <1>2 DEF WsUse

LEMMA WsRemoveKeeps ==
    ASSUME WsInv, NEW n, NEW ok \in BOOLEAN, WsRemove(n, ok)
    PROVE  Stored
<1>0. WsType /\ StoreOk(saved) /\ StoreOk(wsFile) /\ wsCwd \in WsDirs \cup {"-"} /\ wsCwd' = wsCwd
  BY StoreStays DEF WsInv, WsType, WsRemove
<1>1. CASE n \in SavedNames
  <2>. DEFINE t == [saved EXCEPT ![n] = Unset]
  <2>1. n \in WsNameSet
    BY <1>1 DEF SavedNames
  <2>2. saved' = t /\ wsFile' \in {t, wsFile} /\ lastSaved' = IF lastSaved = n THEN "-" ELSE lastSaved
    BY <1>1 DEF WsRemove, PersistWorkspaces
  <2>3. t[n] = Unset /\ t \in Workspaces /\ \A m \in WsNameSet \ {n} : t[m] = saved[m]
    BY <1>0, <2>1 DEF WsType, Workspaces, Unset
  <2>. HIDE DEF t
  <2>4. Within(t, MaxClock + (wsClicks + 1))
    <3>. SUFFICES ASSUME NEW m \in WsNameSet PROVE t[m].lastUsedAt <= MaxClock + (wsClicks + 1)
      BY DEF Within
    <3>1. CASE m = n
      BY <1>0, <2>3, <3>1, WorkspaceAssumption DEF Unset, WsType
    <3>2. CASE m # n
      BY <1>0, <2>3, <3>2 DEF StoreOk, Within
    <3>. QED BY <3>1, <3>2
  <2>5. LastUsedIsFirst'
    BY <2>1, <2>2, <2>3, WorkspaceAssumption DEF LastUsedIsFirst, SavedNames, WsInv, WsNameSet
  <2>. QED BY <1>0, <2>2, <2>3, <2>4, <2>5 DEF Stored, StoreOk
<1>2. CASE UNCHANGED <<saved, wsFile, lastSaved>>
  BY <1>0, <1>2 DEF Stored, WsInv, LastUsedIsFirst, SavedNames
<1>. QED BY <1>1, <1>2 DEF WsRemove

LEMMA StoreFrame == ASSUME WsInv, UNCHANGED <<saved, wsFile, wsCwd, lastSaved>> PROVE Stored
BY StoreStays DEF Stored, WsInv, WsType, LastUsedIsFirst, SavedNames

LEMMA WsCommandKeeps == ASSUME WsInv, WsCommand PROVE WsInv'
<1>1. wsClicks' = wsClicks + 1 /\ clock' = clock
  BY DEF WsCommand
<1>2. Stored
  <2>1. CASE WsList0
    BY <2>1, StoreFrame DEF WsList0
  <2>2. ASSUME NEW ok \in BOOLEAN, NEW n \in WsNameSet, WsSave(n, ok) \/ WsUse(n, ok) \/ WsRemove(n, ok)
        PROVE  Stored
    BY <2>2, WsSaveKeeps, WsUseKeeps, WsRemoveKeeps
  <2>3. ASSUME NEW ok \in BOOLEAN, ClickWs(ok) PROVE Stored
    <3>1. ASSUME NEW v, HandleWsUse(v, ok) PROVE Stored
      BY <3>1, WsUseKeeps DEF HandleWsUse
    <3>2. ASSUME NEW v, HandleWsRemove(v, ok) PROVE Stored
      BY <3>2, WsRemoveKeeps DEF HandleWsRemove
    <3>3. ASSUME NEW v, NEW i, HandleWsPage(v, i) PROVE Stored
      BY <3>3, StoreFrame DEF HandleWsPage
    <3>4. ASSUME NEW i, NEW cleared, HandleWsFilter(i, cleared) PROVE Stored
      BY <3>4, StoreFrame DEF HandleWsFilter
    <3>5. ASSUME NEW v, HandleWsSort(v) PROVE Stored
      BY <3>5, StoreFrame DEF HandleWsSort
    <3>. QED BY <2>3, <3>1, <3>2, <3>3, <3>4, <3>5 DEF ClickWs
  <2>4. ASSUME NEW offset, NEW i, HandleActivePage(offset, i) PROVE Stored
    BY <2>4, StoreFrame DEF HandleActivePage
  <2>. QED BY <2>1, <2>2, <2>3, <2>4 DEF WsCommand
<1>3. WsType'
  BY <1>1, <1>2 DEF WsInv, WsType, Stored, StoreOk, Within
<1>. QED BY <1>2, <1>3 DEF WsInv, Stored

LEMMA MeanwhileKeeps == ASSUME WsInv, Meanwhile PROVE WsInv'
<1>0. UNCHANGED <<wsFile, wsCwd, wsClicks>>
  BY DEF Meanwhile
<1>1. CASE clock' \in 1 .. MaxClock /\ UNCHANGED <<saved, lastSaved>>
  BY <1>0, <1>1, WorkspaceAssumption DEF WsInv, WsType, Within, LastUsedIsFirst, SavedNames
<1>2. CASE clock' = clock /\ UNCHANGED <<saved, lastSaved>>
  BY <1>0, <1>2 DEF WsInv, WsType, Within, LastUsedIsFirst, SavedNames
<1>3. CASE /\ clock' = clock /\ saved' = wsFile
           /\ lastSaved' = IF saved = wsFile THEN lastSaved ELSE "-"
  <2>1. WsType'
    BY <1>0, <1>3 DEF WsInv, WsType, Within
  <2>2. "-" \notin WsNameSet
    BY WorkspaceAssumption DEF WsNameSet
  <2>3. LastUsedIsFirst'
    BY <1>3, <2>2 DEF WsInv, LastUsedIsFirst, SavedNames
  <2>. QED BY <2>1, <2>3 DEF WsInv
<1>. QED BY <1>1, <1>2, <1>3 DEF Meanwhile, LoadWorkspaces

LEMMA WsInvNext == WsInv /\ [WsNext]_wsVars => WsInv'
<1>. SUFFICES ASSUME WsInv, [WsNext]_wsVars PROVE WsInv'
  OBVIOUS
<1>1. CASE UNCHANGED wsVars
  BY <1>1 DEF wsVars, WsInv, WsType, Within, LastUsedIsFirst, SavedNames
<1>. QED BY <1>1, WsCommandKeeps, MeanwhileKeeps DEF WsNext

-----------------------------------------------------------------------------
(* The configuration: /config                                              *)

Click(c) == DOMAIN c = {"to", "cmd", "offer", "stage", "card"}

ShownOk(messages, n) == IsSeq(messages) /\ \A m \in DOMAIN messages : messages[m].version \in 0 .. n

\* No message shows a card newer than the one on its way to it.
ClickOk(c, messages, n) ==
    /\ Click(c) /\ c.to \in DOMAIN messages
    /\ c.stage = "patching" => c.card.version \in 0 .. n /\ messages[c.to].version <= c.card.version

\* Only the first click is being dealt with.
ClicksOk(clicks_, messages, n) ==
    /\ IsSeq(clicks_)
    /\ \A i \in DOMAIN clicks_ : ClickOk(clicks_[i], messages, n) /\ (i # 1 => clicks_[i].stage = "waiting")

ConfigInv ==
    /\ version \in Nat
    /\ ShownOk(shown, version) /\ ClicksOk(queue, shown, version)
    /\ NoCardGoesBack

LEMMA ConfigInvInit == ConfigInit => ConfigInv
<1>. SUFFICES ASSUME ConfigInit PROVE ConfigInv
  OBVIOUS
<1>1. version = 0 /\ queue = <<>> /\ backwards = FALSE
  BY DEF ConfigInit
<1>2. IsSeq(queue) /\ DOMAIN queue = {}
  BY <1>1, EmptySeq DEF IsSeq
<1>3. ShownOk(shown, version)
  <2>1. shown \in Seq({[version |-> 0, drawn |-> config]})
    BY DEF ConfigInit
  <2>2. IsSeq(shown) /\ \A m \in DOMAIN shown : shown[m] \in {[version |-> 0, drawn |-> config]}
    BY <2>1, SeqOfAny, ElementOfSeq, LenProperties
  <2>. QED BY <1>1, <2>2 DEF ShownOk
<1>. QED BY <1>1, <1>2, <1>3 DEF ConfigInv, ClicksOk, NoCardGoesBack

\* The first click is done: the others have not begun, whatever is shown by now.
LEMMA DoneOk ==
    ASSUME NEW q, NEW a, NEW n, ClicksOk(q, a, n), 1 \in DOMAIN q,
           NEW b, DOMAIN a \subseteq DOMAIN b, NEW k
    PROVE  ClicksOk(RemoveAt(q, 1), b, k)
<1>. DEFINE S == ToSet(q)
            r == RemoveAt(q, 1)
<1>1. q \in Seq(S)
  BY DEF ClicksOk, IsSeq
<1>. HIDE DEF S
<1>2. /\ r \in Seq(S) /\ DOMAIN r = 1 .. Len(q) - 1
      /\ \A j \in DOMAIN r : r[j] = q[Kth(1, j)] /\ Kth(1, j) \in DOMAIN q \ {1}
  BY <1>1, RemoveSeq
<1>. HIDE DEF r
<1>3. IsSeq(r)
  BY <1>2, SeqOfAny
<1>4. ASSUME NEW j \in DOMAIN r PROVE ClickOk(r[j], b, k) /\ r[j].stage = "waiting"
  BY <1>2 DEF ClicksOk, ClickOk
<1>5. ClicksOk(r, b, k)
  BY <1>3, <1>4 DEF ClicksOk
<1>. QED BY <1>5 DEF r

\* The first click goes on.
LEMMA StageOk ==
    ASSUME NEW q, NEW a, NEW n \in Nat, ClicksOk(q, a, n), 1 \in DOMAIN q,
           NEW k \in Nat, NEW c, ClickOk(c, a, k), NEW r, Replaced(q, 1, c, r)
    PROVE  ClicksOk(r, a, k)
<1>1. /\ IsSeq(r) /\ DOMAIN r = DOMAIN q
      /\ \A j \in DOMAIN q : r[j] = IF j = 1 THEN c ELSE q[j]
  BY ReplaceSeq DEF ClicksOk
<1>2. ASSUME NEW j \in DOMAIN r PROVE ClickOk(r[j], a, k) /\ (j # 1 => r[j].stage = "waiting")
  BY <1>1 DEF ClicksOk, ClickOk
<1>. QED BY <1>1, <1>2 DEF ClicksOk

LEMMA DrawsKeeps ==
    ASSUME ConfigInv, 1 \in DOMAIN queue, Draws(1), UNCHANGED <<shown, backwards>>
    PROVE  ConfigInv'
<1>. DEFINE card == [version |-> version + 1, drawn |-> Display']
            c == [queue[1] EXCEPT !.stage = "patching", !.card = card]
<1>1. /\ Click(queue[1]) /\ queue[1].to \in DOMAIN shown
      /\ shown[queue[1].to].version \in 0 .. version /\ version \in Nat
  BY DEF ConfigInv, ClicksOk, ClickOk, ShownOk
<1>2. Click(c) /\ c.to = queue[1].to /\ c.card = card
  BY <1>1 DEF Click
<1>3. Replaced(queue, 1, c, queue')
  BY DEF Draws, Replaced
<1>4. card.version = version + 1
  OBVIOUS
<1>. HIDE DEF card, c
<1>5. ClickOk(c, shown, version + 1)
  BY <1>1, <1>2, <1>4 DEF ClickOk
<1>6. ClicksOk(queue', shown, version + 1)
  BY <1>1, <1>3, <1>5, StageOk DEF ConfigInv
<1>7. ShownOk(shown, version + 1)
  BY <1>1 DEF ConfigInv, ShownOk
<1>. QED BY <1>1, <1>6, <1>7 DEF ConfigInv, Draws, NoCardGoesBack

LEMMA DoneKeeps ==
    ASSUME ConfigInv, 1 \in DOMAIN queue, Done(1), UNCHANGED <<shown, version, backwards>>
    PROVE  ConfigInv'
BY DoneOk DEF ConfigInv, Done, NoCardGoesBack

LEMMA ConfigFrame ==
    ASSUME ConfigInv, UNCHANGED <<queue, shown, version, backwards>>
    PROVE  ConfigInv'
BY DEF ConfigInv, NoCardGoesBack

LEMMA ClickConfigKeeps == ASSUME ConfigInv, NEW m \in DOMAIN shown, ClickConfig(m) PROVE ConfigInv'
<1>1. PICK c : /\ Click(c) /\ c.to = m /\ c.stage = "waiting"
               /\ queue' = Append(queue, c)
  BY DEF ClickConfig, Click
<1>2. UNCHANGED <<shown, version, backwards>>
  BY DEF ClickConfig
<1>3. IsSeq(queue) /\ Len(queue) \in Nat
  BY SeqDomain DEF ConfigInv, ClicksOk
<1>4. /\ IsSeq(queue')
      /\ \A i \in DOMAIN queue' : i \in DOMAIN queue \/ i = Len(queue) + 1
      /\ \A i \in DOMAIN queue : queue'[i] = queue[i]
      /\ queue'[Len(queue) + 1] = c
  BY <1>1, <1>3, AppendSeq
<1>5. ClickOk(c, shown, version)
  BY <1>1 DEF ClickOk
<1>6. ClicksOk(queue', shown, version)
  BY <1>1, <1>4, <1>5 DEF ClicksOk, ConfigInv
<1>. QED BY <1>2, <1>6 DEF ConfigInv, NoCardGoesBack

\* A new message: those there were stay.
LEMMA MessageOk ==
    ASSUME NEW a, NEW n \in Nat, ShownOk(a, n), NEW x, x.version \in 0 .. n
    PROVE  /\ ShownOk(Append(a, x), n)
           /\ \A m \in DOMAIN a : Append(a, x)[m] = a[m] /\ m \in DOMAIN Append(a, x)
<1>1. IsSeq(a) /\ Len(a) \in Nat
  BY SeqDomain DEF ShownOk
<1>. QED BY <1>1, AppendSeq DEF ShownOk

LEMMA CmdConfigKeeps == ASSUME ConfigInv, CmdConfig PROVE ConfigInv'
<1>. DEFINE x == [version |-> version', drawn |-> Display']
<1>1. version \in Nat /\ version' = version + 1 /\ UNCHANGED <<queue, backwards>>
  BY DEF CmdConfig, ConfigInv
<1>2. shown' = shown \/ shown' = Append(shown, x)
  BY DEF CmdConfig
<1>3. ShownOk(shown, version + 1) /\ x.version \in 0 .. version + 1
  BY <1>1 DEF ConfigInv, ShownOk
<1>. HIDE DEF x
<1>4. /\ ShownOk(shown', version + 1)
      /\ \A m \in DOMAIN shown : shown'[m] = shown[m] /\ m \in DOMAIN shown'
  <2>1. /\ ShownOk(Append(shown, x), version + 1)
        /\ \A m \in DOMAIN shown : Append(shown, x)[m] = shown[m] /\ m \in DOMAIN Append(shown, x)
    <3>1. version + 1 \in Nat
      BY <1>1
    <3>. QED BY <1>3, <3>1, MessageOk
  <2>2. CASE shown' = shown
    BY <1>3, <2>2
  <2>3. CASE shown' = Append(shown, x)
    BY <2>1, <2>3
  <2>. QED BY <1>2, <2>2, <2>3
<1>5. ASSUME NEW i \in DOMAIN queue
      PROVE  ClickOk(queue[i], shown', version + 1)
  <2>1. ClickOk(queue[i], shown, version)
    BY DEF ConfigInv, ClicksOk
  <2>. QED BY <1>1, <1>4, <2>1 DEF ClickOk
<1>6. ClicksOk(queue, shown', version + 1)
  BY <1>5 DEF ConfigInv, ClicksOk
<1>. QED BY <1>1, <1>4, <1>6 DEF ConfigInv, NoCardGoesBack

LEMMA UpdateSettlesKeeps == ASSUME ConfigInv, 1 \in DOMAIN queue, UpdateSettles(1) PROVE ConfigInv'
<1>. DEFINE to == queue[1].to
            card == queue[1].card
<1>1. /\ to \in DOMAIN shown /\ card.version \in 0 .. version /\ shown[to].version <= card.version
      /\ shown[to].version \in 0 .. version /\ version \in Nat
  BY DEF UpdateSettles, ConfigInv, ClicksOk, ClickOk, ShownOk
<1>2. queue' = RemoveAt(queue, 1) /\ version' = version
  BY DEF UpdateSettles, Done
<1>3. CASE shown' = [shown EXCEPT ![to] = card] /\ backwards' = (backwards \/ shown[to].version > card.version)
  <2>1. IsSeq(shown) /\ Replaced(shown, to, card, shown')
    BY <1>3 DEF Replaced, ConfigInv, ShownOk
  <2>2. IsSeq(shown') /\ DOMAIN shown' = DOMAIN shown /\ \A m \in DOMAIN shown : shown'[m] = IF m = to THEN card ELSE shown[m]
    BY <1>1, <2>1, ReplaceSeq
  <2>3. ShownOk(shown', version)
    BY <1>1, <2>2 DEF ConfigInv, ShownOk
  <2>4. ClicksOk(queue', shown', version)
    BY <1>2, <2>2, DoneOk DEF ConfigInv
  <2>5. ~ backwards'
    <3>1. ~ (shown[to].version > card.version)
      BY <1>1
    <3>. QED BY <1>3, <3>1 DEF ConfigInv, NoCardGoesBack
  <2>. QED BY <1>1, <1>2, <2>3, <2>4, <2>5 DEF ConfigInv, NoCardGoesBack
<1>4. CASE (shown' = shown \/ shown' = Append(shown, card)) /\ UNCHANGED backwards
  <2>1. /\ ShownOk(shown', version)
        /\ DOMAIN shown \subseteq DOMAIN shown'
    <3>1. ShownOk(shown, version)
      BY DEF ConfigInv
    <3>2. /\ ShownOk(Append(shown, card), version)
          /\ \A m \in DOMAIN shown : m \in DOMAIN Append(shown, card)
      BY <1>1, <3>1, MessageOk
    <3>3. CASE shown' = shown
      BY <3>1, <3>3
    <3>4. CASE shown' = Append(shown, card)
      BY <3>2, <3>4
    <3>. QED BY <1>4, <3>3, <3>4
  <2>2. ClicksOk(queue', shown', version)
    BY <1>2, <2>1, DoneOk DEF ConfigInv
  <2>. QED BY <1>1, <1>2, <1>4, <2>1, <2>2 DEF ConfigInv, NoCardGoesBack
<1>. QED BY <1>3, <1>4 DEF UpdateSettles

LEMMA ConfigStepKeeps == ASSUME ConfigInv, ConfigStep PROVE ConfigInv'
<1>1. PICK i \in DOMAIN queue :
         \/ RunConfigSet(i) \/ RunConfigSaveNothing(i) \/ \E ok \in BOOLEAN : RunConfigSave(i, ok)
         \/ CatalogFetched(i) \/ UpdateSettles(i)
  BY DEF ConfigStep
<1>2. i = 1
  BY <1>1 DEF RunConfigSet, RunConfigSaveNothing, RunConfigSave, CatalogFetched, UpdateSettles, MayStart,
      ConfigInv, ClicksOk
<1>3. CASE RunConfigSet(1)
  BY <1>2, <1>3, DrawsKeeps DEF RunConfigSet
<1>4. CASE RunConfigSaveNothing(1)
  BY <1>2, <1>4, DoneKeeps DEF RunConfigSaveNothing
<1>5. ASSUME NEW ok \in BOOLEAN, RunConfigSave(1, ok) PROVE ConfigInv'
  <2>1. UNCHANGED <<shown, version, backwards>>
    BY <1>5 DEF RunConfigSave
  <2>2. CASE Done(1)
    BY <1>2, <2>1, <2>2, DoneKeeps
  <2>3. CASE queue' = [queue EXCEPT ![1].stage = "fetching"]
    <3>. DEFINE c == [queue[1] EXCEPT !.stage = "fetching"]
    <3>1. Replaced(queue, 1, c, queue')
      BY <2>3 DEF Replaced
    <3>2. ClickOk(queue[1], shown, version) /\ version \in Nat
      BY <1>2 DEF ConfigInv, ClicksOk
    <3>3. ClickOk(c, shown, version)
      BY <3>2 DEF ClickOk, Click
    <3>. HIDE DEF c
    <3>4. ClicksOk(queue', shown, version)
      BY <1>2, <3>1, <3>2, <3>3, StageOk DEF ConfigInv
    <3>. QED BY <2>1, <3>4 DEF ConfigInv, NoCardGoesBack
  <2>. QED BY <1>5, <2>2, <2>3 DEF RunConfigSave
<1>6. CASE CatalogFetched(1)
  BY <1>2, <1>6, DrawsKeeps DEF CatalogFetched
<1>7. CASE UpdateSettles(1)
  BY <1>2, <1>7, UpdateSettlesKeeps
<1>. QED BY <1>1, <1>2, <1>3, <1>4, <1>5, <1>6, <1>7

LEMMA ConfigInvNext == ConfigInv /\ [ConfigNext]_configVars => ConfigInv'
<1>. SUFFICES ASSUME ConfigInv, [ConfigNext]_configVars PROVE ConfigInv'
  OBVIOUS
<1>1. ASSUME NEW m \in DOMAIN shown, ClickConfig(m) PROVE ConfigInv'
  BY <1>1, ClickConfigKeeps
<1>2. CASE ConfigStep
  BY <1>2, ConfigStepKeeps
<1>3. CASE CmdConfigCard
  BY <1>3, CmdConfigKeeps DEF CmdConfigCard
<1>4. ASSUME NEW offer, CmdConfigSet(offer.key, offer.value) PROVE ConfigInv'
  BY <1>4, CmdConfigKeeps DEF CmdConfigSet
<1>5. CASE HandEdit \/ LoadConfig \/ UNCHANGED configVars
  BY <1>5, ConfigFrame DEF HandEdit, LoadConfig, configVars
<1>. QED BY <1>1, <1>2, <1>3, <1>4, <1>5 DEF ConfigNext

-----------------------------------------------------------------------------
(* The index of transcripts                                                *)

DiskEntry == {NoFile, Gone} \cup [there : {TRUE}, cwds : SUBSET Cwds, stamp : Nat]
IndexEntry == {NoEntry} \cup [known : {TRUE}, fp : Nat, cwds : SUBSET Cwds]
Stages == {"idle", "scan", "parse", "check", "list", "find", "reparse", "update", "fallback", "guard", "done"}
AskType == [pc : Stages, op : {"none", "list", "read"}, s : SessionIds, c : Cwds, dirs : SUBSET Dirs,
        todo : SUBSET SessionPaths, seen : SUBSET SessionPaths, at : SUBSET Cwds,
        file : {NoFile} \cup [p : SessionPaths] \cup [p : SessionPaths, fp : Nat],
        answer : SUBSET SessionPaths, still : SUBSET SessionPaths, quiet : BOOLEAN]

\* An entry is of a time that was, and one of the file as it is holds what the
\* file holds.
EntryOk(p, e) ==
    /\ e \in IndexEntry
    /\ e.known => e.fp \in 1 .. stamp
    /\ There(p) /\ e.known /\ e.fp = disk[p].stamp => e.cwds = disk[p].cwds
IndexOk(index) == /\ DOMAIN index = SessionPaths /\ index = [p \in SessionPaths |-> index[p]]
                  /\ \A p \in SessionPaths : EntryOk(p, index[p])

FileOk(p) == disk[p] \in DiskEntry /\ (There(p) => disk[p].stamp \in 1 .. stamp)
DiskOk == /\ disk \in [SessionPaths -> DiskEntry] /\ stamp \in Nat
          /\ \A p \in SessionPaths : FileOk(p)

\* What was parsed is what the file held with the fingerprint taken before, if
\* it still has it.
ParsedOk(a) ==
    /\ a.pc \in {"parse", "check", "reparse", "update"} => a.file \in [p : SessionPaths, fp : 1 .. stamp]
    /\ a.pc \in {"check", "update"} =>
          (There(a.file.p) /\ disk[a.file.p].stamp = a.file.fp => a.at = disk[a.file.p].cwds)

\* What a search knows of the files as long as none of them goes.
SearchOk(a) ==
    /\ a.pc # "idle" /\ a.quiet => \A p \in a.still : p[2] = a.s /\ HoldsCwd(p, a.c)
    /\ a.pc = "guard" => a.file \in [p : SessionPaths]
    /\ a.pc \in {"reparse", "update", "guard"} /\ a.quiet => There(a.file.p)
    /\ a.pc = "update" /\ a.quiet => a.at \subseteq disk[a.file.p].cwds
    /\ a.pc = "guard" /\ a.quiet /\ a.still # {} =>
          a.file.p = <<DirOf[a.c], a.s>> \/ HoldsCwd(a.file.p, a.c)

FoundOk(a) ==
    a.pc = "done" /\ a.op = "read" /\ a.quiet =>
        /\ a.still # {} => a.answer # {} \/ OldCopyInPlace(a.s, a.c)
        /\ \A p \in a.answer : HoldsCwd(p, a.c)

AskOk(a, index) ==
    /\ a \in AskType /\ (a.pc = "list" => a.op = "list")
    /\ a.pc \in {"find", "reparse", "update"} => \A p \in a.todo : index[p].known
    /\ ParsedOk(a) /\ SearchOk(a) /\ FoundOk(a)

IndexInv == DiskOk /\ IndexOk(byPath) /\ AskOk(ask, byPath)

LEMMA IndexInvImplies == IndexInv => IndexTellsTheFile /\ SessionIsFound
BY DEF IndexInv, IndexOk, EntryOk, AskOk, FoundOk, IndexTellsTheFile, SessionIsFound

LEMMA NoAskOk == ASSUME NEW index PROVE AskOk(NoAsk, index)
BY SessionIndexAssumption DEF AskOk, NoAsk, AskType, Stages, ParsedOk, SearchOk, FoundOk

LEMMA IndexInvInit == IndexInit => IndexInv
<1>. SUFFICES ASSUME IndexInit PROVE IndexInv
  OBVIOUS
<1>1. DiskOk
  BY DEF IndexInit, DiskOk, FileOk, DiskEntry, There, NoFile
<1>2. IndexOk(byPath)
  BY DEF IndexInit, IndexOk, EntryOk, IndexEntry, NoEntry
<1>. QED BY <1>1, <1>2, NoAskOk DEF IndexInit, IndexInv

\* The files stay as they are.
LEMMA IndexStep ==
    ASSUME IndexInv, UNCHANGED <<disk, stamp>>, IndexOk(byPath'), AskOk(ask', byPath')
    PROVE  IndexInv'
BY DEF IndexInv, DiskOk, FileOk, IndexOk, EntryOk, AskOk, ParsedOk, SearchOk, FoundOk, There, HoldsCwd, OldCopyInPlace

LEMMA PathOf == ASSUME NEW s \in SessionIds, NEW c \in Cwds PROVE <<DirOf[c], s>> \in SessionPaths
BY SessionIndexAssumption DEF SessionPaths

\* A file is there or not; its fingerprint tells.
LEMMA FingerprintTells ==
    ASSUME DiskOk, NEW p \in SessionPaths
    PROVE  /\ BuildFingerprint(p) \in 0 .. stamp
           /\ There(p) => /\ BuildFingerprint(p) = disk[p].stamp /\ BuildFingerprint(p) \in 1 .. stamp
                          /\ disk[p].cwds \in SUBSET Cwds
           /\ BuildFingerprint(p) # 0 => There(p)
<1>1. CASE disk[p] \in {NoFile, Gone}
  <2>1. ~ There(p)
    BY <1>1 DEF There, NoFile, Gone
  <2>2. BuildFingerprint(p) = 0 /\ stamp \in Nat
    BY <2>1 DEF BuildFingerprint, DiskOk
  <2>. QED BY <2>1, <2>2
<1>2. CASE disk[p] \in [there : {TRUE}, cwds : SUBSET Cwds, stamp : Nat]
  <2>1. There(p) /\ disk[p].cwds \in SUBSET Cwds
    BY <1>2 DEF There
  <2>2. BuildFingerprint(p) = disk[p].stamp /\ disk[p].stamp \in 1 .. stamp /\ stamp \in Nat
    BY <2>1 DEF BuildFingerprint, DiskOk, FileOk
  <2>. QED BY <2>1, <2>2
<1>. QED BY <1>1, <1>2 DEF DiskOk, DiskEntry

-----------------------------------------------------------------------------
(* claude writes, moves and deletes                                        *)

Overwritten(p, e) ==
    /\ e \in [there : {TRUE}, cwds : SUBSET Cwds, stamp : {stamp + 1}]
    /\ There(p) => disk[p].cwds \subseteq e.cwds

LEMMA EnvKeeps ==
    ASSUME IndexInv, NEW d \in [SessionPaths -> DiskEntry], Env(d),
           \A p \in SessionPaths : d[p] = disk[p] \/ d[p] = Gone \/ Overwritten(p, d[p])
    PROVE  IndexInv'
<1>. DEFINE none == \A p \in SessionPaths : There(p) => d[p].there
<1>1. /\ stamp \in Nat /\ stamp' = stamp + 1 /\ disk' = d /\ byPath' = byPath /\ ask.pc # "done"
      /\ ask' = [ask EXCEPT !.quiet = ask.quiet /\ none]
      /\ DiskOk /\ IndexOk(byPath) /\ AskOk(ask, byPath)
  BY DEF Env, IndexInv, DiskOk
<1>2. DiskOk'
  <2>1. ASSUME NEW p \in SessionPaths PROVE d[p].there => d[p].stamp \in 1 .. stamp + 1
    <3>1. CASE d[p] = disk[p]
      BY <1>1, <3>1 DEF DiskOk, FileOk, There
    <3>2. CASE d[p] = Gone
      BY <3>2 DEF Gone
    <3>3. CASE Overwritten(p, d[p])
      BY <1>1, <3>3 DEF Overwritten
    <3>. QED BY <3>1, <3>2, <3>3
  <2>. QED BY <1>1, <2>1 DEF DiskOk, FileOk, There
\* A file with an older fingerprint is as it was.
<1>3. ASSUME NEW p \in SessionPaths, d[p].there, NEW fp \in 0 .. stamp, d[p].stamp = fp
      PROVE  There(p) /\ d[p] = disk[p]
  <2>1. CASE d[p] = disk[p]
    BY <1>3, <2>1 DEF There
  <2>2. CASE d[p] = Gone
    BY <1>3, <2>2 DEF Gone
  <2>3. CASE Overwritten(p, d[p])
    BY <1>1, <1>3, <2>3 DEF Overwritten
  <2>. QED BY <2>1, <2>2, <2>3
<1>4. IndexOk(byPath)'
  <2>1. ASSUME NEW p \in SessionPaths PROVE EntryOk(p, byPath[p])'
    <3>1. EntryOk(p, byPath[p])
      BY <1>1 DEF IndexOk
    <3>2. byPath[p].known => byPath[p].fp \in 0 .. stamp /\ byPath[p].fp \in 1 .. stamp + 1
      BY <1>1, <3>1 DEF EntryOk
    <3>3. ASSUME d[p].there, byPath[p].known, byPath[p].fp = d[p].stamp
          PROVE  byPath[p].cwds = d[p].cwds
      BY <1>3, <3>1, <3>2, <3>3 DEF EntryOk
    <3>. QED BY <1>1, <3>1, <3>2, <3>3 DEF EntryOk, There
  <2>. QED BY <1>1, <2>1 DEF IndexOk
\* When none goes, what a file was known to hold it holds.
<1>5. ASSUME none, NEW p \in SessionPaths, There(p)
      PROVE  d[p].there /\ disk[p].cwds \subseteq d[p].cwds
  <2>1. CASE d[p] = Gone
    BY <1>5, <2>1 DEF Gone
  <2>. QED BY <1>5, <2>1 DEF Overwritten
<1>6. /\ ask' \in AskType /\ \A f \in {"pc", "op", "s", "c", "todo", "at", "file", "still"} : ask'[f] = ask[f]
      /\ ask'.quiet => ask.quiet /\ none
  BY <1>1 DEF AskOk, AskType
<1>. HIDE DEF none
<1>7. /\ ask'.pc = ask.pc /\ ask'.op = ask.op /\ ask'.s = ask.s /\ ask'.c = ask.c /\ ask'.todo = ask.todo
      /\ ask'.at = ask.at /\ ask'.file = ask.file /\ ask'.still = ask.still
  BY <1>6
<1>8. ParsedOk(ask)'
  <2>1. ParsedOk(ask)
    BY <1>1 DEF AskOk
  <2>2. ask.pc \in {"parse", "check", "reparse", "update"} => ask.file \in [p : SessionPaths, fp : 1 .. stamp + 1]
    BY <1>1, <2>1 DEF ParsedOk
  <2>3. ASSUME ask.pc \in {"check", "update"}, d[ask.file.p].there, d[ask.file.p].stamp = ask.file.fp
        PROVE  ask.at = d[ask.file.p].cwds
    <3>1. ask.file.p \in SessionPaths /\ ask.file.fp \in 0 .. stamp
      BY <1>1, <2>1, <2>3 DEF ParsedOk
    <3>2. There(ask.file.p) /\ d[ask.file.p] = disk[ask.file.p]
      BY <1>3, <2>3, <3>1
    <3>. QED BY <2>1, <2>3, <3>2 DEF ParsedOk
  <2>. QED BY <1>1, <1>7, <2>2, <2>3 DEF ParsedOk, There
<1>9. SearchOk(ask)'
  <2>0. SearchOk(ask) /\ ask \in AskType
    BY <1>1 DEF AskOk
  <2>1. ASSUME ask.pc # "idle", ask'.quiet, NEW p \in ask.still
        PROVE  p[2] = ask.s /\ d[p].there /\ ask.c \in d[p].cwds
    <3>1. p \in SessionPaths /\ p[2] = ask.s /\ HoldsCwd(p, ask.c)
      BY <1>6, <2>0, <2>1 DEF SearchOk, AskType
    <3>. QED BY <1>5, <1>6, <2>1, <3>1 DEF HoldsCwd
  <2>2. ASSUME ask.pc \in {"reparse", "update", "guard"}, ask'.quiet
        PROVE  d[ask.file.p].there /\ disk[ask.file.p].cwds \subseteq d[ask.file.p].cwds
    <3>1. ask.file.p \in SessionPaths
      BY <1>1, <2>0, <2>2 DEF SearchOk, ParsedOk, AskOk
    <3>2. There(ask.file.p)
      BY <1>6, <2>0, <2>2 DEF SearchOk
    <3>. QED BY <1>5, <1>6, <2>2, <3>1, <3>2
  <2>3. ask.pc = "update" /\ ask'.quiet => ask.at \subseteq d[ask.file.p].cwds
    BY <1>6, <2>0, <2>2 DEF SearchOk
  <2>4. ask.pc = "guard" /\ ask'.quiet /\ ask.still # {} =>
          ask.file.p = <<DirOf[ask.c], ask.s>> \/ (d[ask.file.p].there /\ ask.c \in d[ask.file.p].cwds)
    BY <1>6, <2>0, <2>2 DEF SearchOk, HoldsCwd
  <2>. QED BY <1>1, <1>7, <2>0, <2>1, <2>2, <2>3, <2>4 DEF SearchOk, HoldsCwd, There
<1>10. FoundOk(ask)'
  BY <1>1, <1>7 DEF FoundOk
<1>11. AskOk(ask, byPath)'
  BY <1>1, <1>6, <1>7, <1>8, <1>9, <1>10 DEF AskOk
<1>. QED BY <1>2, <1>4, <1>11 DEF IndexInv

LEMMA PutShape ==
    ASSUME DiskOk, NEW p \in SessionPaths, NEW cwds \in SUBSET Cwds, There(p) => disk[p].cwds \subseteq cwds
    PROVE  /\ Put(disk, p, cwds) \in [SessionPaths -> DiskEntry]
           /\ \A q \in SessionPaths : Put(disk, p, cwds)[q] = disk[q] \/ Overwritten(q, Put(disk, p, cwds)[q])
<1>. DEFINE e == [there |-> TRUE, cwds |-> cwds, stamp |-> stamp + 1]
            d == Put(disk, p, cwds)
<1>1. stamp \in Nat /\ disk \in [SessionPaths -> DiskEntry]
  BY DEF DiskOk
<1>2. e \in [there : {TRUE}, cwds : SUBSET Cwds, stamp : {stamp + 1}] /\ e.cwds = cwds
  OBVIOUS
<1>3. d = [disk EXCEPT ![p] = e]
  BY DEF Put
<1>4. e \in DiskEntry /\ Overwritten(p, e)
  <2>1. e \in [there : {TRUE}, cwds : SUBSET Cwds, stamp : Nat]
    BY <1>1
  <2>. QED BY <1>2, <2>1 DEF DiskEntry, Overwritten
<1>. HIDE DEF d, e
<1>5. d \in [SessionPaths -> DiskEntry] /\ d[p] = e /\ \A q \in SessionPaths \ {p} : d[q] = disk[q]
  BY <1>1, <1>3, <1>4
<1>. QED BY <1>4, <1>5 DEF d

LEMMA PutKeeps ==
    ASSUME IndexInv, NEW p \in SessionPaths, NEW cwds \in SUBSET Cwds, There(p) => disk[p].cwds \subseteq cwds,
           Env(Put(disk, p, cwds))
    PROVE  IndexInv'
<1>. DEFINE d == Put(disk, p, cwds)
<1>1. d \in [SessionPaths -> DiskEntry] /\ \A q \in SessionPaths : d[q] = disk[q] \/ Overwritten(q, d[q])
  BY PutShape DEF IndexInv
<1>. HIDE DEF d
<1>. QED BY <1>1, EnvKeeps DEF d

LEMMA EnvironmentKeeps ==
    ASSUME IndexInv,
           \/ \E s \in SessionIds, c \in Cwds : SessionStarts(s, c)
           \/ \E p \in SessionPaths, c \in Cwds : SessionWrites(p, c)
           \/ \E p \in SessionPaths, c \in Cwds, b \in BOOLEAN : SessionMoves(p, c, b)
           \/ \E p \in SessionPaths : SessionDeleted(p)
    PROVE  IndexInv'
<1>0. DiskOk /\ disk \in [SessionPaths -> DiskEntry]
  BY DEF IndexInv, DiskOk
<1>1. ASSUME NEW s \in SessionIds, NEW c \in Cwds, SessionStarts(s, c) PROVE IndexInv'
  <2>1. <<DirOf[c], s>> \in SessionPaths
    BY PathOf
  <2>2. ~ There(<<DirOf[c], s>>)
    BY <1>1, <2>1 DEF SessionStarts, There, NoFile
  <2>. QED BY <1>1, <2>1, <2>2, PutKeeps DEF SessionStarts
<1>2. ASSUME NEW p \in SessionPaths, NEW c \in Cwds, SessionWrites(p, c) PROVE IndexInv'
  <2>1. disk[p].cwds \in SUBSET Cwds
    BY <1>0, <1>2, FingerprintTells DEF SessionWrites
  <2>. QED BY <1>2, <2>1, PutKeeps DEF SessionWrites
<1>3. ASSUME NEW p \in SessionPaths, NEW c \in Cwds, NEW b \in BOOLEAN, SessionMoves(p, c, b) PROVE IndexInv'
  <2>. DEFINE q == <<DirOf[c], p[2]>>
              moved == Put(disk, q, disk[p].cwds)
              left == [moved EXCEPT ![p] = Gone]
  <2>1. q \in SessionPaths /\ There(p) /\ ~ There(q) /\ q # p
    <3>1. p[2] \in SessionIds
      BY DEF SessionPaths
    <3>. QED BY <1>3, <3>1, PathOf DEF SessionMoves
  <2>2. disk[p].cwds \in SUBSET Cwds
    BY <1>0, <2>1, FingerprintTells
  <2>3. Env(moved) \/ Env(left)
    BY <1>3 DEF SessionMoves
  <2>. HIDE DEF q
  <2>4. CASE Env(moved)
    BY <2>1, <2>2, <2>4, PutKeeps
  <2>5. CASE Env(left)
    <3>1. moved \in [SessionPaths -> DiskEntry] /\ \A r \in SessionPaths : moved[r] = disk[r] \/ Overwritten(r, moved[r])
      BY <1>0, <2>1, <2>2, PutShape
    <3>. HIDE DEF moved
    <3>2. left \in [SessionPaths -> DiskEntry] /\ \A r \in SessionPaths : left[r] = Gone \/ left[r] = moved[r]
      BY <3>1 DEF DiskEntry
    <3>. HIDE DEF left
    <3>. QED BY <2>5, <3>1, <3>2, EnvKeeps
  <2>. QED BY <2>3, <2>4, <2>5
<1>4. ASSUME NEW p \in SessionPaths, SessionDeleted(p) PROVE IndexInv'
  <2>. DEFINE d == [disk EXCEPT ![p] = Gone]
  <2>1. d \in [SessionPaths -> DiskEntry] /\ \A r \in SessionPaths : d[r] = disk[r] \/ d[r] = Gone
    BY <1>0 DEF DiskEntry
  <2>2. Env(d)
    BY <1>4 DEF SessionDeleted
  <2>. HIDE DEF d
  <2>. QED BY <2>1, <2>2, EnvKeeps
<1>. QED BY <1>1, <1>2, <1>3, <1>4

-----------------------------------------------------------------------------
(* A question: the scan of the directories, and the search                 *)

\* What an entry may be replaced by.
LEMMA EntryReplaced ==
    ASSUME IndexOk(byPath), NEW p \in SessionPaths, NEW index, NEW e, EntryOk(p, e),
           index = [byPath EXCEPT ![p] = e]
    PROVE  IndexOk(index)
<1>1. /\ DOMAIN index = SessionPaths /\ index[p] = e /\ \A q \in SessionPaths \ {p} : index[q] = byPath[q]
      /\ index = [q \in SessionPaths |-> index[q]]
  BY DEF IndexOk
<1>. QED BY <1>1 DEF IndexOk

LEMMA UpdateEntryOk ==
    ASSUME DiskOk, IndexOk(byPath), NEW p \in SessionPaths, NEW fp \in 1 .. stamp, NEW cwds \in SUBSET Cwds,
           There(p) /\ disk[p].stamp = fp => cwds = disk[p].cwds
    PROVE  IndexOk(UpdateEntry(p, fp, cwds))
<1>. DEFINE e == [known |-> TRUE, fp |-> fp, cwds |-> cwds]
<1>1. EntryOk(p, e)
  BY DEF EntryOk, IndexEntry, DiskOk
<1>2. UpdateEntry(p, fp, cwds) = [byPath EXCEPT ![p] = e]
  BY DEF UpdateEntry
<1>. HIDE DEF e
<1>. QED BY <1>1, <1>2, EntryReplaced

LEMMA RemoveEntryOk ==
    ASSUME NEW index, IndexOk(index), NEW gone_
    PROVE  /\ IndexOk(RemoveEntry(index, gone_))
           /\ \A p \in SessionPaths \ gone_ : RemoveEntry(index, gone_)[p] = index[p]
<1>. DEFINE r == RemoveEntry(index, gone_)
<1>1. /\ DOMAIN r = SessionPaths /\ \A p \in SessionPaths : r[p] = IF p \in gone_ THEN NoEntry ELSE index[p]
      /\ r = [p \in SessionPaths |-> r[p]]
  BY DEF RemoveEntry
<1>2. \A p : EntryOk(p, NoEntry)
  BY DEF EntryOk, IndexEntry, NoEntry
<1>. HIDE DEF r
<1>3. IndexOk(r)
  BY <1>1, <1>2 DEF IndexOk
<1>. QED BY <1>1, <1>3 DEF r

\* The first look at what the index knows.
LEMMA QueryOk ==
    ASSUME NEW a, a \in AskType, a.pc # "idle", SearchOk(a)
    PROVE  AskOk(Query(a), byPath) /\ Query(a).todo = PathsOf(a.s) /\ Query(a) \in AskType
           /\ Query(a).pc \in {"list", "find"}
<1>. DEFINE q == Query(a)
<1>1. /\ q \in AskType /\ q.op = a.op /\ q.s = a.s /\ q.c = a.c /\ q.still = a.still /\ q.quiet = a.quiet
      /\ q.todo = PathsOf(a.s)
      /\ q.pc = IF a.op = "list" THEN "list" ELSE "find"
  <2>1. PathsOf(a.s) \in SUBSET SessionPaths
    BY DEF PathsOf
  <2>. QED BY <2>1 DEF Query, AskType, Stages
<1>. HIDE DEF q
<1>2. AskOk(q, byPath)
  BY <1>1 DEF AskOk, ParsedOk, SearchOk, FoundOk, PathsOf
<1>. QED BY <1>1, <1>2 DEF q

LEMMA AskedKeeps ==
    ASSUME IndexInv, NEW op \in {"list", "read"}, NEW s \in SessionIds, NEW c \in Cwds, Asked(op, s, c)
    PROVE  IndexInv'
<1>. DEFINE still == {p \in SessionPaths : p[2] = s /\ HoldsCwd(p, c)}
            a == [NoAsk EXCEPT !.op = op, !.s = s, !.c = c, !.still = still]
<1>1. /\ a \in AskType /\ a.op = op /\ a.s = s /\ a.c = c /\ a.still = still /\ a.quiet /\ a.pc = "idle"
  BY SessionIndexAssumption DEF NoAsk, AskType, Stages
<1>2. ask' = (IF op = "list" \/ built THEN Refresh(a) ELSE [a EXCEPT !.pc = "fallback"])
      /\ UNCHANGED <<disk, stamp, byPath>>
  BY DEF Asked
<1>3. \A p \in still : p[2] = s /\ HoldsCwd(p, c)
  OBVIOUS
<1>. HIDE DEF a, still
<1>5. AskOk(Query(a), byPath)
  <2>. DEFINE q == Query(a)
  <2>1. /\ q \in AskType /\ q.op = op /\ q.s = s /\ q.c = c /\ q.still = still
        /\ q.todo = PathsOf(s) /\ q.pc = IF op = "list" THEN "list" ELSE "find"
    <3>1. PathsOf(s) \in SUBSET SessionPaths
      BY DEF PathsOf
    <3>. QED BY <1>1, <3>1 DEF Query, AskType, Stages
  <2>. HIDE DEF q
  <2>2. AskOk(q, byPath)
    BY <1>3, <2>1 DEF AskOk, ParsedOk, SearchOk, FoundOk, PathsOf
  <2>. QED BY <2>2 DEF q
<1>6. AskOk([a EXCEPT !.pc = "scan", !.dirs = Dirs, !.todo = {}, !.seen = {}], byPath)
  <2>. DEFINE q == [a EXCEPT !.pc = "scan", !.dirs = Dirs, !.todo = {}, !.seen = {}]
  <2>1. /\ q \in AskType /\ q.pc = "scan" /\ q.s = s /\ q.c = c /\ q.still = still
    BY <1>1 DEF AskType, Stages
  <2>. HIDE DEF q
  <2>2. AskOk(q, byPath)
    BY <1>3, <2>1 DEF AskOk, ParsedOk, SearchOk, FoundOk
  <2>. QED BY <2>2 DEF q
<1>7. AskOk([a EXCEPT !.pc = "fallback"], byPath)
  <2>. DEFINE q == [a EXCEPT !.pc = "fallback"]
  <2>1. /\ q \in AskType /\ q.pc = "fallback" /\ q.s = s /\ q.c = c /\ q.still = still
    BY <1>1 DEF AskType, Stages
  <2>. HIDE DEF q
  <2>2. AskOk(q, byPath)
    BY <1>3, <2>1 DEF AskOk, ParsedOk, SearchOk, FoundOk
  <2>. QED BY <2>2 DEF q
<1>8. AskOk(ask', byPath')
  BY <1>2, <1>5, <1>6, <1>7 DEF Refresh
<1>. QED BY <1>2, <1>8, IndexStep DEF IndexInv

\* The question goes on: who asked for what stays.
SameQuestion(q, a) ==
    q \in AskType /\ q.op = a.op /\ q.s = a.s /\ q.c = a.c /\ q.still = a.still /\ q.quiet = a.quiet

LEMMA PlainStageOk ==
    ASSUME NEW a, SearchOk(a), a.pc # "idle", NEW q, SameQuestion(q, a), q.pc \in {"scan", "fallback"}, NEW index
    PROVE  AskOk(q, index)
BY DEF SameQuestion, AskOk, ParsedOk, SearchOk, FoundOk

LEMMA ParseStageOk ==
    ASSUME NEW a, SearchOk(a), a.pc # "idle", NEW q, SameQuestion(q, a), q.pc = "parse",
           q.file \in [p : SessionPaths, fp : 1 .. stamp], NEW index
    PROVE  AskOk(q, index)
BY DEF SameQuestion, AskOk, ParsedOk, SearchOk, FoundOk

LEMMA AnswerOk ==
    ASSUME NEW a, a \in AskType, SearchOk(a), a.pc # "idle", NEW ps \in SUBSET SessionPaths,
           a.op = "read" /\ a.quiet =>
              /\ a.still # {} => ps # {} \/ OldCopyInPlace(a.s, a.c)
              /\ \A p \in ps : HoldsCwd(p, a.c),
           NEW index
    PROVE  AskOk(Answer(a, ps), index)
<1>. DEFINE q == Answer(a, ps)
<1>1. SameQuestion(q, a) /\ q.pc = "done" /\ q.answer = ps
  BY DEF Answer, SameQuestion, AskType, Stages
<1>. HIDE DEF q
<1>2. AskOk(q, index)
  BY <1>1 DEF SameQuestion, AskOk, ParsedOk, SearchOk, FoundOk
<1>. QED BY <1>2 DEF q

LEMMA IndexFacts ==
    ASSUME IndexInv
    PROVE  /\ DiskOk /\ IndexOk(byPath) /\ AskOk(ask, byPath) /\ ask \in AskType
           /\ ParsedOk(ask) /\ SearchOk(ask) /\ stamp \in Nat
           /\ \A p \in SessionPaths : EntryOk(p, byPath[p])
BY DEF IndexInv, AskOk, DiskOk, IndexOk

LEMMA ScanDirKeeps == ASSUME IndexInv, NEW d \in Dirs, ScanDir(d) PROVE IndexInv'
<1>. DEFINE inDir == {p \in SessionPaths : p[1] = d /\ There(p)}
            q == [ask EXCEPT !.dirs = @ \ {d}, !.todo = inDir, !.seen = @ \cup inDir]
<1>1. ask' = q /\ ask.pc = "scan" /\ UNCHANGED <<disk, stamp, byPath>>
  BY DEF ScanDir
<1>2. SameQuestion(q, ask) /\ q.pc = "scan"
  BY <1>1, IndexFacts DEF SameQuestion, AskType
<1>. HIDE DEF q
<1>3. AskOk(q, byPath)
  BY <1>1, <1>2, IndexFacts, PlainStageOk
<1>. QED BY <1>1, <1>3, IndexFacts, IndexStep

LEMMA ScanLooksKeeps == ASSUME IndexInv, NEW p \in SessionPaths, ScanLooks(p) PROVE IndexInv'
<1>. DEFINE fp == BuildFingerprint(p)
            q == [ask EXCEPT !.todo = @ \ {p}]
            r == [ask EXCEPT !.pc = "parse", !.file = [p |-> p, fp |-> fp]]
<1>1. ask.pc = "scan" /\ UNCHANGED <<disk, stamp, byPath>> /\ (ask' = q \/ (fp # 0 /\ ask' = r))
  BY DEF ScanLooks
<1>2. SameQuestion(q, ask) /\ q.pc = "scan"
  BY <1>1, IndexFacts DEF SameQuestion, AskType
<1>3. fp \in 0 .. stamp /\ stamp \in Nat
  BY IndexFacts, FingerprintTells
<1>. HIDE DEF fp
<1>4. fp # 0 => SameQuestion(r, ask) /\ r.pc = "parse" /\ r.file \in [p : SessionPaths, fp : 1 .. stamp]
  <2>. SUFFICES ASSUME fp # 0 PROVE SameQuestion(r, ask) /\ r.pc = "parse" /\ r.file \in [p : SessionPaths, fp : 1 .. stamp]
    OBVIOUS
  <2>. DEFINE f == [p |-> p, fp |-> fp]
  <2>1. f \in [p : SessionPaths, fp : 1 .. stamp] /\ f \in [p : SessionPaths, fp : Nat]
    BY <1>3
  <2>. HIDE DEF f
  <2>2. SameQuestion([ask EXCEPT !.pc = "parse", !.file = f], ask)
    BY <2>1, IndexFacts DEF SameQuestion, AskType, Stages
  <2>3. /\ [ask EXCEPT !.pc = "parse", !.file = f].pc = "parse"
        /\ [ask EXCEPT !.pc = "parse", !.file = f].file = f
    BY IndexFacts DEF AskType
  <2>. QED BY <2>1, <2>2, <2>3 DEF f
<1>. HIDE DEF q, r
<1>5. AskOk(ask', byPath)
  BY <1>1, <1>2, <1>4, IndexFacts, PlainStageOk, ParseStageOk
<1>. QED BY <1>1, <1>5, IndexFacts, IndexStep

LEMMA ParseSessionKeeps == ASSUME IndexInv, ParseSession PROVE IndexInv'
<1>. DEFINE at == IF There(ask.file.p) THEN disk[ask.file.p].cwds ELSE {}
            q == [ask EXCEPT !.pc = IF @ = "parse" THEN "check" ELSE "update", !.at = at]
<1>1. ask' = q /\ ask.pc \in {"parse", "reparse"} /\ UNCHANGED <<disk, stamp, byPath>>
  BY DEF ParseSession
<1>2. ask.file \in [p : SessionPaths, fp : 1 .. stamp]
  BY <1>1, IndexFacts DEF ParsedOk
<1>3. at \in SUBSET Cwds /\ (There(ask.file.p) => at = disk[ask.file.p].cwds)
  BY <1>2, IndexFacts, FingerprintTells
<1>. HIDE DEF at
<1>4. /\ SameQuestion(q, ask) /\ q.file = ask.file /\ q.at = at /\ q.todo = ask.todo
      /\ q.pc = IF ask.pc = "parse" THEN "check" ELSE "update"
  BY <1>3, IndexFacts DEF SameQuestion, AskType, Stages
<1>. HIDE DEF q
<1>5. AskOk(q, byPath)
  <2>1. ParsedOk(q)
    BY <1>1, <1>2, <1>3, <1>4 DEF ParsedOk
  <2>2. SearchOk(q)
    BY <1>1, <1>3, <1>4, IndexFacts DEF SearchOk, SameQuestion
  <2>3. q.pc = "update" => \A p \in q.todo : byPath[p].known
    BY <1>1, <1>4, IndexFacts DEF AskOk
  <2>. QED BY <1>4, <2>1, <2>2, <2>3 DEF AskOk, FoundOk, SameQuestion
<1>. QED BY <1>1, <1>5, IndexFacts, IndexStep

LEMMA ScanChecksKeeps == ASSUME IndexInv, ScanChecks PROVE IndexInv'
<1>. DEFINE f == ask.file
            q == [ask EXCEPT !.pc = "scan", !.todo = @ \ {f.p}]
<1>1. /\ ask.pc = "check" /\ UNCHANGED <<disk, stamp>> /\ ask' = q
      /\ byPath' \in {byPath, UpdateEntry(f.p, f.fp, ask.at)}
  BY DEF ScanChecks
<1>2. f \in [p : SessionPaths, fp : 1 .. stamp] /\ (There(f.p) /\ disk[f.p].stamp = f.fp => ask.at = disk[f.p].cwds)
  BY <1>1, IndexFacts DEF ParsedOk
<1>3. f.p \in SessionPaths /\ f.fp \in 1 .. stamp /\ ask.at \in SUBSET Cwds
  BY <1>2, IndexFacts DEF AskType
<1>4. SameQuestion(q, ask) /\ q.pc = "scan"
  BY <1>1, IndexFacts DEF SameQuestion, AskType, Stages
<1>. HIDE DEF f, q
<1>5. IndexOk(byPath')
  BY <1>1, <1>2, <1>3, IndexFacts, UpdateEntryOk
<1>6. AskOk(q, byPath')
  BY <1>1, <1>4, IndexFacts, PlainStageOk
<1>. QED BY <1>1, <1>5, <1>6, IndexStep

LEMMA ScanEndsKeeps == ASSUME IndexInv, ScanEnds PROVE IndexInv'
<1>. DEFINE g == Query(ask)
            q == [g EXCEPT !.todo = @ \cap ask.seen]
<1>1. /\ ask.pc = "scan" /\ UNCHANGED <<disk, stamp>> /\ ask' = q
      /\ byPath' = RemoveEntry(byPath, SessionPaths \ ask.seen)
  BY DEF ScanEnds
<1>2. AskOk(g, byPath) /\ g \in AskType /\ g.pc \in {"list", "find"}
  BY <1>1, IndexFacts, QueryOk
<1>. HIDE DEF g
<1>3. SameQuestion(q, g) /\ q.pc = g.pc /\ q.todo = g.todo \cap ask.seen
  BY <1>2 DEF SameQuestion, AskType
<1>. HIDE DEF q
<1>4. IndexOk(byPath') /\ \A p \in SessionPaths \ (SessionPaths \ ask.seen) : byPath'[p] = byPath[p]
  BY <1>1, IndexFacts, RemoveEntryOk
<1>5. \A p \in q.todo : p \in SessionPaths \ (SessionPaths \ ask.seen) /\ p \in g.todo
  BY <1>2, <1>3 DEF AskType
<1>6. AskOk(q, byPath')
  BY <1>2, <1>3, <1>4, <1>5 DEF AskOk, SameQuestion, ParsedOk, SearchOk, FoundOk
<1>. QED BY <1>1, <1>4, <1>6, IndexStep

LEMMA FindLooksKeeps == ASSUME IndexInv, NEW p \in SessionPaths, FindLooks(p) PROVE IndexInv'
<1>. DEFINE fp == BuildFingerprint(p)
            f == [p |-> p, fp |-> fp]
            q == [ask EXCEPT !.todo = @ \ {p}]
            r == [ask EXCEPT !.pc = "reparse", !.file = f]
<1>1. /\ ask.pc = "find" /\ UNCHANGED <<disk, stamp>> /\ p \in ask.todo
      /\ byPath' = IF fp = 0 THEN RemoveEntry(byPath, {p}) ELSE byPath
      /\ \/ fp # 0 /\ ask' = r
         \/ fp # 0 /\ fp = byPath[p].fp /\ ask.c \in byPath[p].cwds /\ ask' = Answer(ask, {p})
         \/ ask' = q
  BY DEF FindLooks
<1>2. /\ fp \in 0 .. stamp /\ stamp \in Nat
      /\ fp # 0 => There(p) /\ fp = disk[p].stamp /\ fp \in 1 .. stamp
  BY IndexFacts, FingerprintTells
<1>3. \A t \in ask.todo : byPath[t].known
  BY <1>1, IndexFacts DEF AskOk
<1>. HIDE DEF fp
<1>4. IndexOk(byPath')
  BY <1>1, IndexFacts, RemoveEntryOk
<1>5. CASE fp # 0 /\ ask' = r
  <2>1. f \in [p : SessionPaths, fp : 1 .. stamp] /\ f \in [p : SessionPaths, fp : Nat] /\ f.p = p
    BY <1>2, <1>5
  <2>. HIDE DEF f
  <2>2. SameQuestion(r, ask) /\ r.pc = "reparse" /\ r.file = f /\ r.todo = ask.todo
    BY <2>1, IndexFacts DEF SameQuestion, AskType, Stages
  <2>. HIDE DEF r
  <2>3. AskOk(r, byPath)
    BY <1>1, <1>2, <1>3, <1>5, <2>1, <2>2, IndexFacts DEF AskOk, SameQuestion, ParsedOk, SearchOk, FoundOk
  <2>. QED BY <1>1, <1>4, <1>5, <2>3, IndexStep
<1>6. CASE fp # 0 /\ fp = byPath[p].fp /\ ask.c \in byPath[p].cwds /\ ask' = Answer(ask, {p})
  <2>1. HoldsCwd(p, ask.c)
    BY <1>1, <1>2, <1>3, <1>6, IndexFacts DEF EntryOk, HoldsCwd
  <2>2. AskOk(Answer(ask, {p}), byPath')
    BY <1>1, <2>1, IndexFacts, AnswerOk
  <2>. QED BY <1>1, <1>4, <1>6, <2>2, IndexStep
<1>7. CASE ask' = q
  <2>1. SameQuestion(q, ask) /\ q.pc = "find" /\ q.todo = ask.todo \ {p}
    BY <1>1, IndexFacts DEF SameQuestion, AskType, Stages
  <2>. HIDE DEF q
  <2>2. \A t \in q.todo : byPath'[t].known
    <3>1. \A t \in SessionPaths \ {p} : byPath'[t] = byPath[t]
      BY <1>1, IndexFacts, RemoveEntryOk
    <3>2. q.todo \subseteq SessionPaths \ {p}
      BY <2>1, IndexFacts DEF AskType
    <3>. QED BY <1>3, <2>1, <3>1, <3>2
  <2>3. AskOk(q, byPath')
    BY <1>1, <2>1, <2>2, IndexFacts DEF AskOk, SameQuestion, ParsedOk, SearchOk, FoundOk
  <2>. QED BY <1>1, <1>4, <1>7, <2>3, IndexStep
<1>. QED BY <1>1, <1>5, <1>6, <1>7

LEMMA FindUpdatesKeeps == ASSUME IndexInv, FindUpdates PROVE IndexInv'
<1>. DEFINE f == ask.file
            q == [ask EXCEPT !.pc = "find", !.todo = @ \ {f.p}]
<1>1. /\ ask.pc = "update" /\ UNCHANGED <<disk, stamp>>
      /\ byPath' = IF There(f.p) THEN UpdateEntry(f.p, f.fp, ask.at) ELSE RemoveEntry(byPath, {f.p})
      /\ \/ There(f.p) /\ ask.c \in ask.at /\ ask' = Answer(ask, {f.p})
         \/ ask' = q
  BY DEF FindUpdates
<1>2. f \in [p : SessionPaths, fp : 1 .. stamp] /\ (There(f.p) /\ disk[f.p].stamp = f.fp => ask.at = disk[f.p].cwds)
  BY <1>1, IndexFacts DEF ParsedOk
<1>3. f.p \in SessionPaths /\ f.fp \in 1 .. stamp /\ ask.at \in SUBSET Cwds
  BY <1>2, IndexFacts DEF AskType
<1>4. \A t \in ask.todo : byPath[t].known
  BY <1>1, IndexFacts DEF AskOk
<1>5. ask.quiet => ask.at \subseteq disk[f.p].cwds
  BY <1>1, IndexFacts DEF SearchOk
<1>. HIDE DEF f
<1>6. IndexOk(byPath')
  BY <1>1, <1>2, <1>3, IndexFacts, UpdateEntryOk, RemoveEntryOk
<1>7. CASE There(f.p) /\ ask.c \in ask.at /\ ask' = Answer(ask, {f.p})
  <2>1. ask.quiet => HoldsCwd(f.p, ask.c)
    BY <1>5, <1>7 DEF HoldsCwd
  <2>2. AskOk(Answer(ask, {f.p}), byPath')
    BY <1>1, <1>3, <2>1, IndexFacts, AnswerOk
  <2>. QED BY <1>1, <1>6, <1>7, <2>2, IndexStep
<1>8. CASE ask' = q
  <2>1. SameQuestion(q, ask) /\ q.pc = "find" /\ q.todo = ask.todo \ {f.p}
    BY IndexFacts DEF SameQuestion, AskType, Stages
  <2>. HIDE DEF q
  <2>2. \A t \in SessionPaths \ {f.p} : byPath'[t] = byPath[t]
    <3>1. CASE There(f.p)
      BY <1>1, <1>3, <3>1, IndexFacts DEF UpdateEntry, IndexOk
    <3>2. CASE ~ There(f.p)
      BY <1>1, <3>2, IndexFacts, RemoveEntryOk
    <3>. QED BY <3>1, <3>2
  <2>3. q.todo \subseteq SessionPaths \ {f.p}
    BY <2>1, IndexFacts DEF AskType
  <2>4. AskOk(q, byPath')
    BY <1>1, <1>4, <2>1, <2>2, <2>3, IndexFacts DEF AskOk, SameQuestion, ParsedOk, SearchOk, FoundOk
  <2>. QED BY <1>1, <1>6, <1>8, <2>4, IndexStep
<1>. QED BY <1>1, <1>7, <1>8

LEMMA ListByCwdKeeps == ASSUME IndexInv, ListByCwd PROVE IndexInv'
<1>. DEFINE ps == {p \in SessionPaths : byPath[p].known /\ ask.c \in byPath[p].cwds}
<1>1. ask' = Answer(ask, ps) /\ ask.pc = "list" /\ ask.op = "list" /\ UNCHANGED <<disk, stamp, byPath>>
  BY IndexFacts DEF ListByCwd, AskOk
<1>2. ps \in SUBSET SessionPaths
  OBVIOUS
<1>. HIDE DEF ps
<1>3. AskOk(Answer(ask, ps), byPath')
  BY <1>1, <1>2, IndexFacts, AnswerOk
<1>. QED BY <1>1, <1>3, IndexFacts, IndexStep

LEMMA FindEndsKeeps == ASSUME IndexInv, FindEnds PROVE IndexInv'
<1>. DEFINE q == [ask EXCEPT !.pc = "fallback"]
<1>1. ask' = q /\ ask.pc = "find" /\ UNCHANGED <<disk, stamp, byPath>>
  BY DEF FindEnds
<1>2. SameQuestion(q, ask) /\ q.pc = "fallback"
  BY IndexFacts DEF SameQuestion, AskType, Stages
<1>. HIDE DEF q
<1>3. AskOk(q, byPath)
  BY <1>1, <1>2, IndexFacts, PlainStageOk
<1>. QED BY <1>1, <1>3, IndexFacts, IndexStep

\* Of the files of a session one that names the directory is taken, if there is one.
LEMMA FindInProjects ==
    ASSUME NEW s \in SessionIds, NEW c \in Cwds
    PROVE  /\ FindSessionFileInProjects(s, c) \subseteq SessionPaths
           /\ \A p \in FindSessionFileInProjects(s, c) : There(p)
           /\ \A own \in SessionPaths : own[2] = s /\ HoldsCwd(own, c) =>
                /\ FindSessionFileInProjects(s, c) # {}
                /\ \A p \in FindSessionFileInProjects(s, c) : HoldsCwd(p, c)
<1>. DEFINE all == {p \in SessionPaths : p[2] = s /\ There(p)}
            own == {p \in all : HoldsCwd(p, c)}
<1>1. FindSessionFileInProjects(s, c) = IF Cardinality(all) > 1 /\ own # {} THEN own ELSE all
  BY DEF FindSessionFileInProjects
<1>2. IsFiniteSet(all)
  <2>1. IsFiniteSet(SessionPaths)
    BY SessionIndexAssumption, FS_Product DEF SessionPaths
  <2>. QED BY <2>1, FS_Subset
<1>3. own \subseteq all /\ all \subseteq SessionPaths /\ \A p \in all : There(p)
  OBVIOUS
<1>4. \A p \in SessionPaths : p[2] = s /\ HoldsCwd(p, c) => p \in own
  BY DEF HoldsCwd
<1>5. \A p \in own : HoldsCwd(p, c)
  OBVIOUS
<1>. HIDE DEF all, own
<1>6. own # {} /\ Cardinality(all) <= 1 => all = own
  <2>. SUFFICES ASSUME own # {}, Cardinality(all) <= 1 PROVE all = own
    OBVIOUS
  <2>1. PICK p \in own : TRUE
    OBVIOUS
  <2>2. Cardinality(all) \in Nat /\ Cardinality(all \ {p}) = Cardinality(all) - 1 /\ IsFiniteSet(all \ {p})
    BY <1>2, <1>3, FS_CardinalityType, FS_RemoveElement
  <2>3. Cardinality(all \ {p}) \in Nat
    BY <2>2, FS_CardinalityType
  <2>4. all \ {p} = {}
    BY <2>2, <2>3, FS_EmptySet
  <2>. QED BY <1>3, <2>4
<1>7. Cardinality(all) \in Nat
  BY <1>2, FS_CardinalityType
<1>8. own # {} => FindSessionFileInProjects(s, c) = own
  BY <1>1, <1>6, <1>7
<1>. QED BY <1>1, <1>3, <1>4, <1>5, <1>8

LEMMA FallbackKeeps == ASSUME IndexInv, Fallback PROVE IndexInv'
<1>. DEFINE direct == <<DirOf[ask.c], ask.s>>
            found == IF There(direct) THEN {direct} ELSE FindSessionFileInProjects(ask.s, ask.c)
<1>0. ask.s \in SessionIds /\ ask.c \in Cwds /\ ask.still \subseteq SessionPaths
  BY IndexFacts DEF AskType
<1>1. /\ ask.pc = "fallback" /\ UNCHANGED <<disk, stamp, byPath>>
      /\ \/ found = {} /\ ask' = Answer(ask, {})
         \/ \E p \in found : ask' = [ask EXCEPT !.pc = "guard", !.file = [p |-> p]]
  BY DEF Fallback
<1>2. ask.quiet => \A p \in ask.still : p \in SessionPaths /\ p[2] = ask.s /\ HoldsCwd(p, ask.c)
  BY <1>0, <1>1, IndexFacts DEF SearchOk
<1>3. /\ direct \in SessionPaths /\ found \subseteq SessionPaths /\ \A p \in found : There(p)
      /\ ask.quiet /\ ask.still # {} =>
           found # {} /\ \A p \in found : p = direct \/ HoldsCwd(p, ask.c)
  <2>1. direct \in SessionPaths
    BY <1>0, PathOf
  <2>2. CASE There(direct)
    BY <2>1, <2>2
  <2>3. CASE ~ There(direct)
    <3>1. found = FindSessionFileInProjects(ask.s, ask.c)
      BY <2>3
    <3>. QED BY <1>0, <1>2, <2>1, <3>1, FindInProjects
  <2>. QED BY <2>2, <2>3
<1>. HIDE DEF found
<1>4. CASE found = {} /\ ask' = Answer(ask, {})
  <2>1. AskOk(Answer(ask, {}), byPath)
    BY <1>1, <1>3, <1>4, IndexFacts, AnswerOk
  <2>. QED BY <1>1, <1>4, <2>1, IndexFacts, IndexStep
<1>5. ASSUME NEW p \in found, ask' = [ask EXCEPT !.pc = "guard", !.file = [p |-> p]]
      PROVE  IndexInv'
  <2>. DEFINE f == [p |-> p]
              q == [ask EXCEPT !.pc = "guard", !.file = f]
  <2>1. f \in [p : SessionPaths] /\ f.p = p
    BY <1>3
  <2>. HIDE DEF f
  <2>2. SameQuestion(q, ask) /\ q.pc = "guard" /\ q.file = f
    BY <2>1, IndexFacts DEF SameQuestion, AskType, Stages
  <2>3. ask' = q
    BY <1>5 DEF f
  <2>. HIDE DEF q
  <2>4. SearchOk(q)
    BY <1>1, <1>2, <1>3, <2>1, <2>2 DEF SearchOk, SameQuestion
  <2>5. AskOk(q, byPath)
    BY <2>2, <2>4 DEF AskOk, SameQuestion, ParsedOk, FoundOk
  <2>. QED BY <1>1, <2>3, <2>5, IndexFacts, IndexStep
<1>. QED BY <1>1, <1>4, <1>5

LEMMA GuardKeeps == ASSUME IndexInv, Guard PROVE IndexInv'
<1>. DEFINE p == ask.file.p
            ps == IF HoldsCwd(p, ask.c) THEN {p} ELSE {}
<1>1. ask.pc = "guard" /\ UNCHANGED <<disk, stamp, byPath>> /\ ask' = Answer(ask, ps)
  BY DEF Guard
<1>2. /\ p \in SessionPaths /\ (ask.quiet => There(p))
      /\ ask.quiet /\ ask.still # {} => p = <<DirOf[ask.c], ask.s>> \/ HoldsCwd(p, ask.c)
  BY <1>1, IndexFacts DEF SearchOk
<1>. HIDE DEF p
<1>3. ps \in SUBSET SessionPaths /\ \A q \in ps : HoldsCwd(q, ask.c)
  BY <1>2
<1>4. ask.quiet /\ ask.still # {} => ps # {} \/ OldCopyInPlace(ask.s, ask.c)
  BY <1>2 DEF OldCopyInPlace
<1>. HIDE DEF ps
<1>5. AskOk(Answer(ask, ps), byPath)
  BY <1>1, <1>3, <1>4, IndexFacts, AnswerOk
<1>. QED BY <1>1, <1>5, IndexFacts, IndexStep

LEMMA IndexInvNext == IndexInv /\ [IndexNext]_indexVars => IndexInv'
<1>. SUFFICES ASSUME IndexInv, [IndexNext]_indexVars PROVE IndexInv'
  OBVIOUS
<1>1. CASE \/ \E s \in SessionIds, c \in Cwds : SessionStarts(s, c)
           \/ \E p \in SessionPaths, c \in Cwds : SessionWrites(p, c)
           \/ \E p \in SessionPaths, c \in Cwds, b \in BOOLEAN : SessionMoves(p, c, b)
           \/ \E p \in SessionPaths : SessionDeleted(p)
  BY <1>1, EnvironmentKeeps
<1>2. ASSUME NEW op \in {"list", "read"}, NEW s \in SessionIds, NEW c \in Cwds, Asked(op, s, c)
      PROVE  IndexInv'
  BY <1>2, AskedKeeps
<1>3. CASE ScanFails
  <2>1. AskOk(Query(ask), byPath)
    BY <1>3, IndexFacts, QueryOk DEF ScanFails
  <2>. QED BY <1>3, <2>1, IndexFacts, IndexStep DEF ScanFails
<1>4. ASSUME NEW p \in SessionPaths, ScanLooks(p) \/ FindLooks(p) PROVE IndexInv'
  BY <1>4, ScanLooksKeeps, FindLooksKeeps
<1>5. CASE TimePasses \/ UNCHANGED indexVars
  BY <1>5, IndexFacts, IndexStep DEF TimePasses, indexVars
<1>6. CASE AskEnds
  BY <1>6, IndexFacts, NoAskOk, IndexStep DEF AskEnds
<1>. QED BY <1>1, <1>2, <1>3, <1>4, <1>5, <1>6, ScanChecksKeeps, ScanEndsKeeps, ParseSessionKeeps, ScanDirKeeps,
            ListByCwdKeeps, FindUpdatesKeeps, FindEndsKeeps, FallbackKeeps, GuardKeeps DEF IndexNext

-----------------------------------------------------------------------------
(* The theorems                                                            *)

LEMMA FileInvariant == FileSpec => []FileInv
<1>. QED BY FileInvInit, FileInvNext, PTL DEF FileSpec

LEMMA OrderInvariant == OrderSpec => []OrderInv
<1>. QED BY OrderInvInit, OrderInvNext, PTL DEF OrderSpec

LEMMA WsInvariant == WsSpec => []WsInv
<1>. QED BY WsInvInit, WsInvNext, PTL DEF WsSpec

LEMMA ConfigInvariant == ConfigSpec => []ConfigInv
<1>. QED BY ConfigInvInit, ConfigInvNext, PTL DEF ConfigSpec

LEMMA IndexInvariant == IndexSpec => []IndexInv
<1>. QED BY IndexInvInit, IndexInvNext, PTL DEF IndexSpec

(* The way back on a card of /ls leads to the directory one asked for: the *)
(* start travels in the buttons of the card and of the updates on their    *)
(* way, and an update that fails is sent anew with the start of its card   *)
(* (cmdLs, handleLsBrowse and the other handlers of router/index.ts).      *)
THEOREM ReturnLeadsToStartHolds == FileSpec => []ReturnLeadsToStart
<1>1. FileInv => ReturnLeadsToStart
  BY DEF FileInv
<1>. QED BY <1>1, FileInvariant, PTL

(* An order the user was told is gone is in no list again, although a      *)
(* failed write leaves the memory and the file with different lists, any   *)
(* card may read the file anew, and a click on an old card is told of what *)
(* only one of the two lists shows: what the file has more than the memory *)
(* is of removals that could not be written, the one exception             *)
(* (order/index.ts, router/index.ts handleOrderDelete).                    *)
THEOREM DeletedStaysDeletedHolds == OrderSpec => []DeletedStaysDeleted
<1>1. OrderInv => DeletedStaysDeleted
  BY DEF OrderInv, StoreInv, OrdersOk, GoneOrders, DeletedStaysDeleted, Has
<1>. QED BY <1>1, OrderInvariant, PTL

(* The workspace saved or used last has the latest time, however the clock *)
(* stands or goes back, with as many workspaces as there are: there always *)
(* is a latest time to be later than (workspace/index.ts touch).           *)
THEOREM LastUsedIsFirstHolds == WsSpec => []LastUsedIsFirst
<1>1. WsInv => LastUsedIsFirst
  BY DEF WsInv
<1>. QED BY <1>1, WsInvariant, PTL

(* No card of the configuration is replaced by an older one: one click is  *)
(* dealt with at a time, and until its card has arrived no newer one can   *)
(* have come to the same message (enqueueConfigAction of router/index.ts). *)
THEOREM NoCardGoesBackHolds == ConfigSpec => []NoCardGoesBack
<1>1. ConfigInv => NoCardGoesBack
  BY DEF ConfigInv
<1>. QED BY <1>1, ConfigInvariant, PTL

(* An entry of the index with the file's fingerprint holds what the file   *)
(* holds, however claude's writes fall between the looks of the scan and   *)
(* of the search (session-index.ts fullScan, findBySessionIdAndCwd).       *)
THEOREM IndexTellsTheFileHolds == IndexSpec => []IndexTellsTheFile
<1>. QED BY IndexInvImplies, IndexInvariant, PTL

(* A session is found when a file of it named the directory, unless an     *)
(* older copy lies in the directory's own place, for every layout of the   *)
(* directories and any number of files and copies (sessions.ts).           *)
THEOREM SessionIsFoundHolds == IndexSpec => []SessionIsFound
<1>. QED BY IndexInvImplies, IndexInvariant, PTL


-----------------------------------------------------------------------------
(***************************************************************************)
(* The reader of a session (SessionLog)                                    *)
(***************************************************************************)

(* Induction, over a set of naturals, and what it gives.                   *)

LEMMA Induct ==
    ASSUME NEW T, 0 \in T, \A k \in Nat : k \in T => k + 1 \in T
    PROVE  \A k \in Nat : k \in T
<1>. DEFINE R == OpToRel(<, Nat)
            Missing == {k \in Nat : k \notin T}
<1>1. IsWellFoundedOn(R, Nat)
  BY NatLessThanWellFounded, Zenon
<1>2. \A m, n \in Nat : m < n => <<m, n>> \in R
  BY DEF OpToRel
<1>. HIDE DEF R
<1>3. SUFFICES ASSUME Missing # {} PROVE FALSE
  OBVIOUS
<1>4. PICK m \in Missing : \A n \in Missing : ~ (<<n, m>> \in R)
  BY <1>1, <1>3, WFMin
<1>5. m \in Nat /\ m # 0 /\ m - 1 \in Nat
  OBVIOUS
<1>6. m - 1 \notin Missing
  <2>1. <<m - 1, m>> \in R
    BY <1>2, <1>5
  <2>. HIDE DEF Missing
  <2>. QED BY <2>1, <1>4
<1>7. m - 1 \in T
  BY <1>5, <1>6
<1>8. m - 1 + 1 = m
  BY <1>5
<1>. QED BY <1>5, <1>7, <1>8

LEMMA MaxOfUpTo ==
    ASSUME NEW n \in Nat, NEW s \in SUBSET (0..n), s # {}
    PROVE  Max(s) \in s /\ \A y \in s : y <= Max(s)
<1>. DEFINE T == {k \in Nat : \A t \in SUBSET (0..k) : t # {} => \E x \in t : \A y \in t : x >= y}
<1>1. 0 \in T
  <2>1. 0..0 = {0}
    OBVIOUS
  <2>2. \A t \in SUBSET {0} : t # {} => t = {0}
    OBVIOUS
  <2>. QED BY <2>1, <2>2
<1>2. ASSUME NEW k \in Nat, k \in T PROVE k + 1 \in T
  <2>. SUFFICES ASSUME NEW t \in SUBSET (0..(k + 1)), t # {} PROVE \E x \in t : \A y \in t : x >= y
    OBVIOUS
  <2>1. CASE k + 1 \in t
    BY <2>1
  <2>2. CASE k + 1 \notin t
    <3>1. t \in SUBSET (0..k)
      BY <2>2
    <3>. QED BY <3>1, <1>2
  <2>. QED BY <2>1, <2>2
<1>3. n \in T
  <2>. HIDE DEF T
  <2>. QED BY <1>1, <1>2, Induct
<1>4. \E x \in s : \A y \in s : x >= y
  BY <1>3
<1>. QED BY <1>4 DEF Max

(* A chain of steps exists.                                                *)
Chain(f, b, step, n) == f[0] = b /\ \A k \in 1..n : f[k] = step[k][f[k - 1]]
LEMMA Iterates ==
    ASSUME NEW n \in Nat, NEW X, NEW b \in X, NEW step \in [1..n -> [X -> X]]
    PROVE  \E f \in [0..n -> X] : Chain(f, b, step, n)
<1>. DEFINE Is(f, m) == f[0] = b /\ \A k \in 1..m : f[k] = step[k][f[k - 1]]
            T == {m \in Nat : m <= n => \E f \in [0..m -> X] : Is(f, m)}
<1>1. 0 \in T
  <2>1. Is([k \in 0..0 |-> b], 0)
    OBVIOUS
  <2>. QED BY <2>1
<1>2. ASSUME NEW m \in Nat, m \in T PROVE m + 1 \in T
  <2>. SUFFICES ASSUME m + 1 <= n PROVE \E f \in [0..(m + 1) -> X] : Is(f, m + 1)
    OBVIOUS
  <2>1. PICK f \in [0..m -> X] : Is(f, m)
    BY <1>2
  <2>. DEFINE x == step[m + 1][f[m]]
              g == [k \in 0..(m + 1) |-> IF k = m + 1 THEN x ELSE f[k]]
  <2>2. x \in X
    BY <2>1
  <2>. HIDE DEF x
  <2>3. g \in [0..(m + 1) -> X]
    BY <2>1, <2>2
  <2>4. \A k \in 0..m : g[k] = f[k]
    BY <2>1
  <2>5. g[m + 1] = x
    OBVIOUS
  <2>. HIDE DEF g
  <2>6. ASSUME NEW k \in 1..(m + 1) PROVE g[k] = step[k][g[k - 1]]
    <3>1. CASE k = m + 1
      BY <3>1, <2>4, <2>5 DEF x
    <3>2. CASE k \in 1..m
      <4>1. k - 1 \in 0..m /\ k \in 0..m
        BY <3>2
      <4>. QED BY <4>1, <3>2, <2>1, <2>4
    <3>. QED BY <3>1, <3>2
  <2>. QED BY <2>1, <2>3, <2>4, <2>6
<1>3. n \in T
  <2>. HIDE DEF T
  <2>. QED BY <1>1, <1>2, Induct
<1>. QED BY <1>3 DEF Chain

-----------------------------------------------------------------------------
(* The invariant of the files.                                             *)

(* A line takes as many cells with as without its record; k of them end at *)
(* LineEnd(k).                                                             *)
LineEnd(k) == IF pad = 0 THEN 3 * k ELSE 4 * k
Cell == {"a", "b", "blank", "nl"} \X Nat
IsPad == pad \in {0, 1}

(* The file w holds lines, one after another, the last maybe in part.      *)
Lined(w) ==
    /\ files[w] \in Seq(Cell)
    /\ \A k \in Nat :
          /\ LineEnd(k) + 1 <= Len(files[w]) =>
                files[w][LineEnd(k) + 1] \in {"a"} \X (1..Len(lines))
          /\ LineEnd(k) + 2 <= Len(files[w]) =>
                files[w][LineEnd(k) + 2] = <<"b", files[w][LineEnd(k) + 1][2]>>
          /\ LineEnd(k) + 3 <= Len(files[w]) =>
                files[w][LineEnd(k) + 3] = IF pad = 0 THEN NL ELSE BlankCell
          /\ LineEnd(k) + 4 <= Len(files[w]) => pad = 0 \/ files[w][LineEnd(k) + 4] = NL

(* The first k of its records.                                             *)
First(w, k) == [n \in 1..k |-> files[w][LineEnd(n - 1) + 1][2]]

LEMMA LineEnds ==
    ASSUME IsPad
    PROVE  /\ LineEnd(0) = 0
           /\ \A k \in Nat : LineEnd(k) \in Nat /\ LineEnd(k + 1) = LineEnd(k) + 3 + pad
           /\ \A j, k \in Nat : j <= k => LineEnd(j) <= LineEnd(k)
           /\ \A j, k \in Nat : j < k => LineEnd(j) + 3 + pad <= LineEnd(k)
<1>1. CASE pad = 0
  BY <1>1 DEF LineEnd
<1>2. CASE pad = 1
  BY <1>2 DEF LineEnd
<1>. QED BY <1>1, <1>2 DEF IsPad

(* Each cell is of a line.                                                 *)
LEMMA LineAt ==
    ASSUME IsPad, NEW n \in Nat
    PROVE  \E k \in Nat : LineEnd(k) <= n /\ n < LineEnd(k + 1)
<1>. DEFINE T == {m \in Nat : \E k \in Nat : LineEnd(k) <= m /\ m < LineEnd(k + 1)}
<1>1. 0 \in T
  <2>1. LineEnd(0) = 0 /\ LineEnd(0 + 1) = LineEnd(0) + 3 + pad
    BY LineEnds
  <2>. QED BY <2>1 DEF IsPad
<1>2. ASSUME NEW m \in Nat, m \in T PROVE m + 1 \in T
  <2>1. PICK k \in Nat : LineEnd(k) <= m /\ m < LineEnd(k + 1)
    BY <1>2
  <2>. DEFINE j == k + 1
  <2>2. /\ LineEnd(j) \in Nat /\ LineEnd(k) \in Nat
        /\ LineEnd(j + 1) = LineEnd(j) + 3 + pad
    <3>1. j \in Nat
      OBVIOUS
    <3>. HIDE DEF j
    <3>. QED BY <3>1, LineEnds
  <2>3. CASE m + 1 < LineEnd(k + 1)
    BY <2>1, <2>2, <2>3
  <2>4. CASE m + 1 = LineEnd(k + 1)
    BY <2>1, <2>2, <2>4 DEF IsPad
  <2>. QED BY <2>1, <2>2, <2>3, <2>4
<1>3. n \in T
  <2>. HIDE DEF T
  <2>. QED BY <1>1, <1>2, Induct
<1>. QED BY <1>3

(* A newline ends a line.                                                  *)
LEMMA NewlineEnds ==
    ASSUME IsPad, NEW w, Lined(w), NEW n \in 1..Len(files[w]), files[w][n] = NL
    PROVE  \E k \in Nat : k > 0 /\ n = LineEnd(k)
<1>1. PICK k \in Nat : LineEnd(k) <= n - 1 /\ n - 1 < LineEnd(k + 1)
  <2>1. n - 1 \in Nat
    BY DEF Lined
  <2>. QED BY <2>1, LineAt
<1>2. LineEnd(k) \in Nat /\ LineEnd(k + 1) = LineEnd(k) + 3 + pad
  BY LineEnds
<1>3. /\ n # LineEnd(k) + 1 /\ n # LineEnd(k) + 2
      /\ n = LineEnd(k) + 3 => pad = 0
  BY <1>2 DEF Lined, NL, BlankCell
<1>4. n = LineEnd(k + 1)
  <2>1. n \in Nat
    BY DEF Lined
  <2>2. LineEnd(k + 1) \in Nat
    BY <1>2 DEF IsPad
  <2>3. CASE pad = 0
    BY ONLY <2>1, <2>2, <2>3, <1>1, <1>2, <1>3
  <2>4. CASE pad = 1
    BY ONLY <2>1, <2>2, <2>4, <1>1, <1>2, <1>3
  <2>. QED BY <2>3, <2>4 DEF IsPad
<1>5. k + 1 \in Nat /\ k + 1 > 0
  OBVIOUS
<1>. QED BY <1>4, <1>5

-----------------------------------------------------------------------------
(* The lines of a part of a file.                                          *)

LineRecord == [text : Seq(Cell), at : Nat]
ReadState == [lines : Seq(LineRecord), text : Seq(Cell), at : Nat, pos : Nat]

LEMMA ReadCellType ==
    ASSUME NEW r \in ReadState, NEW c \in Cell
    PROVE  ReadCell(r, c) \in ReadState
<1>0. /\ r.lines \in Seq(LineRecord) /\ r.text \in Seq(Cell) /\ r.at \in Nat /\ r.pos \in Nat
      /\ r = [lines |-> r.lines, text |-> r.text, at |-> r.at, pos |-> r.pos]
  BY DEF ReadState
<1>1. Handed(r) \in Seq(LineRecord)
  <2>1. [text |-> r.text, at |-> r.at] \in LineRecord
    BY <1>0 DEF LineRecord
  <2>. QED BY <1>0, <2>1 DEF Handed
<1>2. CASE c = NL
  BY <1>0, <1>1, <1>2 DEF ReadCell, ReadState
<1>3. CASE c # NL
  <2>. DEFINE t == IF c = BlankCell THEN r.text ELSE Append(r.text, c)
  <2>1. t \in Seq(Cell)
    BY <1>0
  <2>2. ReadCell(r, c) = [lines |-> r.lines, text |-> t, at |-> r.at, pos |-> r.pos + 1]
    BY <1>0, <1>3 DEF ReadCell
  <2>. HIDE DEF t
  <2>. QED BY <1>0, <2>1, <2>2 DEF ReadState
<1>. QED BY <1>2, <1>3

(* Cell by cell.                                                           *)
LEMMA LinesOfReads ==
    ASSUME NEW s \in Seq(Cell), NEW offset \in Nat
    PROVE  \E read : /\ LinesOf(s, offset) = Handed(read[Len(s)])
                     /\ read[0] = NoLine(offset)
                     /\ \A n \in 1..Len(s) : read[n] = ReadCell(read[n - 1], s[n])
<1>. DEFINE n == Len(s)
            Next1(f, k) == IF k = 0 THEN NoLine(offset) ELSE ReadCell(f[k - 1], s[k])
            read == CHOOSE f : f = [k \in 0..n |-> Next1(f, k)]
            step == [k \in 1..n |-> [r \in ReadState |-> ReadCell(r, s[k])]]
<1>1. n \in Nat /\ \A k \in 1..n : s[k] \in Cell
  OBVIOUS
<1>2. LinesOf(s, offset) = Handed(read[n])
  BY DEF LinesOf
<1>. HIDE DEF n
<1>3. NoLine(offset) \in ReadState
  BY DEF NoLine, ReadState
<1>4. step \in [1..n -> [ReadState -> ReadState]]
  BY <1>1, ReadCellType
<1>5. PICK f \in [0..n -> ReadState] :
          f[0] = NoLine(offset) /\ \A k \in 1..n : f[k] = step[k][f[k - 1]]
  <2>1. \A X : \A b \in X : \A st \in [1..n -> [X -> X]] :
            \E f \in [0..n -> X] : Chain(f, b, st, n)
    BY ONLY <1>1, Iterates, Zenon
  <2>. HIDE DEF step
  <2>2. PICK f \in [0..n -> ReadState] : Chain(f, NoLine(offset), step, n)
    BY ONLY <1>3, <1>4, <2>1, Zenon
  <2>. QED BY <2>2 DEF Chain
<1>6. \A k \in 1..n : k - 1 \in 0..n
  BY <1>1
<1>7. \A k \in 1..n : f[k] = ReadCell(f[k - 1], s[k])
  BY <1>5, <1>6
<1>8. \A k \in 0..n : f[k] = Next1(f, k)
  BY <1>1, <1>5, <1>7
<1>9. f = [k \in 0..n |-> Next1(f, k)]
  <2>. HIDE DEF Next1
  <2>. QED BY <1>5, <1>8
<1>10. read = [k \in 0..n |-> Next1(read, k)]
  <2>. HIDE DEF Next1
  <2>. QED BY <1>9
<1>11. \A k \in 0..n : read[k] = Next1(read, k)
  <2>. HIDE DEF Next1, read
  <2>. QED BY <1>10
<1>. HIDE DEF read
<1>12. read[0] = NoLine(offset)
  BY <1>1, <1>11
<1>13. \A k \in 1..n : read[k] = ReadCell(read[k - 1], s[k])
  BY <1>1, <1>11
<1>. QED BY <1>2, <1>12, <1>13 DEF n

(* The k-th line, and the first cells of the one after k lines.            *)
Line(w, k) ==
    [text |-> <<files[w][LineEnd(k - 1) + 1], files[w][LineEnd(k - 1) + 2]>>, at |-> LineEnd(k - 1)]
Part(w, k, j) ==
    IF j = 0 THEN <<>> ELSE IF j = 1 THEN <<files[w][LineEnd(k) + 1]>> ELSE Line(w, k + 1).text
Between(w, b, k) == [n \in 1..(k - b) |-> Line(w, b + n)]

(* What is read of the file up to q, from the end of the b-th line.        *)
Reading(w, b, q, r) ==
    \E k \in Nat :
        /\ k >= b /\ LineEnd(k) <= q /\ q < LineEnd(k + 1)
        /\ r = [lines |-> Between(w, b, k), text |-> Part(w, k, q - LineEnd(k)),
                at |-> LineEnd(k), pos |-> q]

LEMMA ReadingNext ==
    ASSUME IsPad, NEW w, Lined(w), NEW b \in Nat, NEW q \in Nat, q + 1 <= Len(files[w]),
           NEW r, Reading(w, b, q, r)
    PROVE  Reading(w, b, q + 1, ReadCell(r, files[w][q + 1]))
<1>. DEFINE c == files[w][q + 1]
<1>1. PICK k \in Nat :
        /\ k >= b /\ LineEnd(k) <= q /\ q < LineEnd(k + 1)
        /\ r = [lines |-> Between(w, b, k), text |-> Part(w, k, q - LineEnd(k)),
                at |-> LineEnd(k), pos |-> q]
  BY DEF Reading
<1>2. LineEnd(k) \in Nat /\ LineEnd(k + 1) = LineEnd(k) + 3 + pad
  BY LineEnds
<1>3. /\ q = LineEnd(k) => c \in {"a"} \X (1..Len(lines))
      /\ q = LineEnd(k) + 1 => c = <<"b", files[w][LineEnd(k) + 1][2]>>
      /\ q = LineEnd(k) + 2 => c = IF pad = 0 THEN NL ELSE BlankCell
      /\ q = LineEnd(k) + 3 => pad = 0 \/ c = NL
  <2>1. Len(files[w]) \in Nat
    BY DEF Lined
  <2>2. /\ LineEnd(k) + 1 <= Len(files[w]) =>
              files[w][LineEnd(k) + 1] \in {"a"} \X (1..Len(lines))
        /\ LineEnd(k) + 2 <= Len(files[w]) =>
              files[w][LineEnd(k) + 2] = <<"b", files[w][LineEnd(k) + 1][2]>>
        /\ LineEnd(k) + 3 <= Len(files[w]) =>
              files[w][LineEnd(k) + 3] = IF pad = 0 THEN NL ELSE BlankCell
        /\ LineEnd(k) + 4 <= Len(files[w]) => pad = 0 \/ files[w][LineEnd(k) + 4] = NL
    BY DEF Lined
  <2>3. /\ LineEnd(k) + 1 + 1 = LineEnd(k) + 2 /\ LineEnd(k) + 2 + 1 = LineEnd(k) + 3
        /\ LineEnd(k) + 3 + 1 = LineEnd(k) + 4
    BY <1>2
  <2>. QED BY <2>2, <2>3
<1>4. /\ r.lines = Between(w, b, k) /\ r.text = Part(w, k, q - LineEnd(k))
      /\ r.at = LineEnd(k) /\ r.pos = q
      /\ r = [lines |-> r.lines, text |-> r.text, at |-> r.at, pos |-> r.pos]
  BY <1>1
<1>5. ASSUME q + 1 < LineEnd(k + 1), c # NL,
             Part(w, k, q + 1 - LineEnd(k)) =
                IF c = BlankCell THEN r.text ELSE Append(r.text, c)
      PROVE  Reading(w, b, q + 1, ReadCell(r, c))
  <2>1. ReadCell(r, c) = [r EXCEPT !.text = IF c = BlankCell THEN @ ELSE Append(@, c), !.pos = @ + 1]
    BY <1>5 DEF ReadCell
  <2>2. ReadCell(r, c) = [lines |-> r.lines, text |-> Part(w, k, q + 1 - LineEnd(k)),
                          at |-> r.at, pos |-> r.pos + 1]
    BY <1>4, <1>5, <2>1
  <2>. QED BY <1>1, <1>2, <1>4, <1>5, <2>2 DEF Reading
<1>6. CASE q = LineEnd(k)
  <2>1. c # NL /\ c # BlankCell
    BY <1>3, <1>6 DEF NL, BlankCell
  <2>2. q + 1 - LineEnd(k) = 1 /\ q - LineEnd(k) = 0 /\ q + 1 < LineEnd(k + 1)
    BY <1>2, <1>6 DEF IsPad
  <2>3. r.text = <<>> /\ Part(w, k, 1) = <<c>>
    BY <1>4, <1>6, <2>2 DEF Part
  <2>. QED BY <1>5, <2>1, <2>2, <2>3
<1>7. CASE q = LineEnd(k) + 1
  <2>1. c # NL /\ c # BlankCell
    BY <1>3, <1>7 DEF NL, BlankCell
  <2>2. q + 1 - LineEnd(k) = 2 /\ q - LineEnd(k) = 1 /\ q + 1 < LineEnd(k + 1)
    BY <1>2, <1>7 DEF IsPad
  <2>3. r.text = <<files[w][LineEnd(k) + 1]>>
    BY <1>4, <2>2 DEF Part
  <2>4. k + 1 - 1 = k /\ LineEnd(k) + 2 = q + 1
    BY <1>2, <1>7
  <2>5. Part(w, k, 2) = <<files[w][LineEnd(k) + 1], c>>
    BY <2>4 DEF Part, Line
  <2>. QED BY <1>5, <2>1, <2>2, <2>3, <2>5
<1>8. CASE q = LineEnd(k) + 2 /\ pad = 1
  <2>1. c = BlankCell /\ c # NL
    BY <1>3, <1>8 DEF NL, BlankCell
  <2>2. q + 1 - LineEnd(k) = 3 /\ q - LineEnd(k) = 2 /\ q + 1 < LineEnd(k + 1)
    BY <1>2, <1>8
  <2>3. r.text = Line(w, k + 1).text /\ Part(w, k, 3) = Line(w, k + 1).text
    BY <1>4, <2>2 DEF Part
  <2>. QED BY <1>5, <2>1, <2>2, <2>3
<1>9. CASE q + 1 = LineEnd(k + 1)
  <2>1. c = NL
    BY <1>2, <1>3, <1>9 DEF IsPad
  <2>2. q - LineEnd(k) >= 2 /\ q - LineEnd(k) \in Nat
    BY <1>2, <1>9 DEF IsPad
  <2>3. r.text = Line(w, k + 1).text /\ r.text # <<>>
    BY <1>4, <2>2 DEF Part, Line
  <2>4. Line(w, k + 1) = [text |-> r.text, at |-> r.at]
    <3>1. k + 1 - 1 = k
      OBVIOUS
    <3>. QED BY <1>4, <2>3, <3>1 DEF Line
  <2>5. Append(Between(w, b, k), Line(w, k + 1)) = Between(w, b, k + 1)
    BY <1>1 DEF Between
  <2>6. ReadCell(r, c) = [lines |-> Between(w, b, k + 1), text |-> <<>>, at |-> q + 1, pos |-> q + 1]
    BY <1>4, <2>1, <2>3, <2>4, <2>5 DEF ReadCell, Handed
  <2>. DEFINE m == k + 1
  <2>7. m \in Nat /\ m >= b /\ LineEnd(m) = q + 1
    BY <1>1, <1>9
  <2>8. q + 1 < LineEnd(m + 1) /\ q + 1 - LineEnd(m) = 0
    <3>. HIDE DEF m
    <3>1. LineEnd(m + 1) = LineEnd(m) + 3 + pad
      BY <2>7, LineEnds
    <3>. QED BY <2>7, <3>1 DEF IsPad
  <2>9. ReadCell(r, c) = [lines |-> Between(w, b, m), text |-> Part(w, m, q + 1 - LineEnd(m)),
                          at |-> LineEnd(m), pos |-> q + 1]
    BY <2>6, <2>7, <2>8 DEF Part
  <2>. HIDE DEF m
  <2>. QED BY <2>7, <2>8, <2>9 DEF Reading
<1>10. \/ q = LineEnd(k) \/ q = LineEnd(k) + 1 \/ (q = LineEnd(k) + 2 /\ pad = 1)
       \/ q + 1 = LineEnd(k + 1)
  <2>1. CASE pad = 0
    BY ONLY <2>1, <1>1, <1>2, q \in Nat
  <2>2. CASE pad = 1
    BY ONLY <2>2, <1>1, <1>2, q \in Nat
  <2>. QED BY <2>1, <2>2 DEF IsPad
<1>. QED BY <1>6, <1>7, <1>8, <1>9, <1>10

LEMMA ReadingStart ==
    ASSUME IsPad, NEW w, NEW b \in Nat
    PROVE  Reading(w, b, LineEnd(b), NoLine(LineEnd(b)))
<1>1. LineEnd(b) \in Nat /\ LineEnd(b) < LineEnd(b + 1)
  <2>1. LineEnd(b) \in Nat /\ LineEnd(b + 1) = LineEnd(b) + 3 + pad
    BY LineEnds
  <2>. QED BY <2>1 DEF IsPad
<1>2. Between(w, b, b) = <<>>
  BY DEF Between
<1>3. Part(w, b, LineEnd(b) - LineEnd(b)) = <<>>
  BY <1>1 DEF Part
<1>. QED BY <1>1, <1>2, <1>3 DEF Reading, NoLine

LEMMA ReadingOf ==
    ASSUME IsPad, NEW w, Lined(w), NEW b \in Nat, NEW s \in Seq(Cell), NEW read, NEW m \in 0..Len(s),
           \A n \in 1..Len(s) : read[n] = ReadCell(read[n - 1], s[n]),
           read[m] = NoLine(LineEnd(b)),
           \A n \in (m + 1)..Len(s) : s[n] = files[w][LineEnd(b) + (n - m)],
           LineEnd(b) + (Len(s) - m) <= Len(files[w])
    PROVE  Reading(w, b, LineEnd(b) + (Len(s) - m), read[Len(s)])
<1>. DEFINE T == {n \in Nat : m + n <= Len(s) => Reading(w, b, LineEnd(b) + n, read[m + n])}
<1>1. LineEnd(b) \in Nat /\ Len(files[w]) \in Nat /\ Len(s) \in Nat /\ m \in Nat
  <2>1. LineEnd(b) \in Nat
    BY LineEnds
  <2>2. Len(files[w]) \in Nat
    BY DEF Lined
  <2>. QED BY <2>1, <2>2
<1>2. 0 \in T
  <2>1. LineEnd(b) + 0 = LineEnd(b) /\ m + 0 = m
    BY <1>1
  <2>. QED BY <2>1, ReadingStart
<1>3. ASSUME NEW n \in Nat, n \in T PROVE n + 1 \in T
  <2>. SUFFICES ASSUME m + (n + 1) <= Len(s) PROVE Reading(w, b, LineEnd(b) + (n + 1), read[m + (n + 1)])
    OBVIOUS
  <2>. DEFINE q == LineEnd(b) + n
              i == m + n + 1
  <2>1. Reading(w, b, q, read[m + n])
    BY <1>1, <1>3
  <2>2. /\ q \in Nat /\ q + 1 <= Len(files[w]) /\ i \in (m + 1)..Len(s) /\ i \in 1..Len(s)
        /\ i - 1 = m + n /\ LineEnd(b) + (i - m) = q + 1
        /\ LineEnd(b) + (n + 1) = q + 1 /\ m + (n + 1) = i
    BY <1>1
  <2>. HIDE DEF q, i
  <2>3. read[i] = ReadCell(read[m + n], files[w][q + 1])
    BY <2>2
  <2>. QED BY <2>1, <2>2, <2>3, ReadingNext
<1>4. Len(s) - m \in T
  <2>1. Len(s) - m \in Nat
    BY <1>1
  <2>. HIDE DEF T
  <2>2. \A n \in Nat : n \in T
    BY ONLY <1>2, <1>3, Induct
  <2>. QED BY <2>1, <2>2
<1>5. m + (Len(s) - m) = Len(s)
  BY <1>1
<1>. QED BY <1>1, <1>4, <1>5

(* A text from the end of the b-th line, or from the newline before it, as *)
(* the offset after a line without its blank is.                           *)
Begins(q, b) == q = LineEnd(b) \/ (pad = 1 /\ b > 0 /\ q = LineEnd(b) - 1)

LEMMA HandedAt ==
    ASSUME IsPad, NEW w, Lined(w), NEW b \in Nat, NEW q \in Nat, Begins(q, b), NEW s \in Seq(Cell),
           q + Len(s) <= Len(files[w]), LineEnd(b) <= q + Len(s),
           \A n \in 1..Len(s) : s[n] = files[w][q + n]
    PROVE  \E r : LinesOf(s, q) = Handed(r) /\ Reading(w, b, q + Len(s), r)
<1>1. PICK read : /\ LinesOf(s, q) = Handed(read[Len(s)])
                  /\ read[0] = NoLine(q)
                  /\ \A n \in 1..Len(s) : read[n] = ReadCell(read[n - 1], s[n])
  BY LinesOfReads
<1>2. LineEnd(b) \in Nat /\ Len(files[w]) \in Nat /\ Len(s) \in Nat
  <2>1. LineEnd(b) \in Nat
    BY LineEnds
  <2>2. Len(files[w]) \in Nat
    BY DEF Lined
  <2>. QED BY <2>1, <2>2
<1>3. CASE q = LineEnd(b)
  <2>1. \A n \in (0 + 1)..Len(s) : s[n] = files[w][LineEnd(b) + (n - 0)]
    BY <1>2, <1>3
  <2>2. 0 \in 0..Len(s) /\ Len(s) - 0 = Len(s)
    BY <1>2
  <2>3. Reading(w, b, LineEnd(b) + (Len(s) - 0), read[Len(s)])
    BY <1>1, <1>2, <1>3, <2>1, <2>2, ReadingOf
  <2>. QED BY <1>1, <1>3, <2>2, <2>3
<1>4. CASE pad = 1 /\ b > 0 /\ q = LineEnd(b) - 1
  <2>1. 1 \in 0..Len(s) /\ 1 \in 1..Len(s)
    BY <1>2, <1>4
  <2>2. files[w][q + 1] = NL
    <3>1. b - 1 \in Nat /\ b - 1 + 1 = b
      BY <1>4
    <3>2. LineEnd(b) = LineEnd(b - 1) + 3 + pad /\ LineEnd(b - 1) \in Nat
      BY <3>1, LineEnds
    <3>3. LineEnd(b - 1) + 4 = q + 1 /\ q + 1 <= Len(files[w])
      BY <1>2, <1>4, <3>2
    <3>4. LineEnd(b - 1) + 4 <= Len(files[w]) => pad = 0 \/ files[w][LineEnd(b - 1) + 4] = NL
      BY <3>1 DEF Lined
    <3>. QED BY <3>3, <3>4, <1>4
  <2>3. read[1] = NoLine(LineEnd(b))
    <3>1. read[1] = ReadCell(NoLine(q), NL)
      BY <1>1, <2>1, <2>2
    <3>2. q + 1 = LineEnd(b)
      BY <1>2, <1>4
    <3>. QED BY <3>1, <3>2 DEF ReadCell, Handed, NoLine
  <2>4. /\ \A n \in (1 + 1)..Len(s) : n \in 1..Len(s) /\ q + n = LineEnd(b) + (n - 1)
        /\ q + Len(s) = LineEnd(b) + (Len(s) - 1)
    BY <1>2, <1>4
  <2>5. \A n \in (1 + 1)..Len(s) : s[n] = files[w][LineEnd(b) + (n - 1)]
    BY <2>4
  <2>6. Reading(w, b, LineEnd(b) + (Len(s) - 1), read[Len(s)])
    BY <1>1, <1>2, <2>1, <2>3, <2>4, <2>5, ReadingOf
  <2>. QED BY <1>1, <2>4, <2>6
<1>. QED BY <1>3, <1>4 DEF Begins

(* The lines handed on: those of which two cells are there, and maybe the  *)
(* first cell of one more.                                                 *)
Hands(w, b, m, q, handed) ==
    \/ handed = Between(w, b, m)
    \/ q = LineEnd(m) + 1 /\ \E p : Len(p.text) = 1 /\ handed = Append(Between(w, b, m), p)

LEMMA HandedIs ==
    ASSUME IsPad, NEW w, NEW b \in Nat, NEW q \in Nat, NEW r, Reading(w, b, q, r)
    PROVE  \E m \in Nat : /\ m >= b /\ Hands(w, b, m, q, Handed(r))
                          /\ \A i \in Nat : i + 1 <= m <=> LineEnd(i) + 2 <= q
<1>1. PICK k \in Nat :
        /\ k >= b /\ LineEnd(k) <= q /\ q < LineEnd(k + 1)
        /\ r = [lines |-> Between(w, b, k), text |-> Part(w, k, q - LineEnd(k)),
                at |-> LineEnd(k), pos |-> q]
  BY DEF Reading
<1>2. LineEnd(k) \in Nat /\ LineEnd(k + 1) = LineEnd(k) + 3 + pad
  BY LineEnds
<1>3. ASSUME NEW i \in Nat
      PROVE  /\ LineEnd(i) \in Nat
             /\ i < k => LineEnd(i) + 2 <= q
             /\ i > k => LineEnd(i) + 2 > q
             /\ i = k => LineEnd(i) = LineEnd(k)
  <2>1. LineEnd(i) \in Nat /\ (i < k => LineEnd(i) + 3 + pad <= LineEnd(k))
    BY LineEnds
  <2>2. i > k => LineEnd(k + 1) <= LineEnd(i)
    BY LineEnds
  <2>. QED BY <1>1, <1>2, <2>1, <2>2 DEF IsPad
<1>4. r.lines = Between(w, b, k) /\ r.text = Part(w, k, q - LineEnd(k)) /\ r.at = LineEnd(k)
  BY <1>1
<1>5. CASE q = LineEnd(k)
  <2>1. Handed(r) = Between(w, b, k)
    BY <1>2, <1>4, <1>5 DEF Handed, Part
  <2>2. \A i \in Nat : i + 1 <= k <=> LineEnd(i) + 2 <= q
    BY ONLY <1>2, <1>3, <1>5, k \in Nat, q \in Nat
  <2>. QED BY <1>1, <2>1, <2>2 DEF Hands
<1>6. CASE q = LineEnd(k) + 1
  <2>1. q - LineEnd(k) = 1
    BY <1>2, <1>6
  <2>2. r.text = <<files[w][LineEnd(k) + 1]>>
    BY <1>4, <2>1 DEF Part
  <2>. DEFINE p == [text |-> r.text, at |-> r.at]
  <2>3. r.text # <<>> /\ Len(p.text) = 1
    BY <2>2
  <2>6. Handed(r) = Append(Between(w, b, k), p)
    BY <1>4, <2>3 DEF Handed
  <2>4. Hands(w, b, k, q, Handed(r))
    <3>. HIDE DEF p
    <3>. QED BY <1>6, <2>3, <2>6 DEF Hands
  <2>5. \A i \in Nat : i + 1 <= k <=> LineEnd(i) + 2 <= q
    BY ONLY <1>2, <1>3, <1>6, k \in Nat, q \in Nat
  <2>. QED BY <1>1, <2>4, <2>5
<1>7. CASE q >= LineEnd(k) + 2
  <2>1. q - LineEnd(k) \in Nat /\ q - LineEnd(k) >= 2
    BY <1>2, <1>7
  <2>2. r.text = Line(w, k + 1).text /\ r.text # <<>>
    BY <1>4, <2>1 DEF Part, Line
  <2>3. Line(w, k + 1) = [text |-> r.text, at |-> r.at]
    <3>1. k + 1 - 1 = k
      OBVIOUS
    <3>. QED BY <1>4, <2>2, <3>1 DEF Line
  <2>4. Append(Between(w, b, k), Line(w, k + 1)) = Between(w, b, k + 1)
    BY <1>1 DEF Between
  <2>5. Handed(r) = Between(w, b, k + 1)
    BY <1>4, <2>2, <2>3, <2>4 DEF Handed
  <2>6. \A i \in Nat : i + 1 <= k + 1 <=> LineEnd(i) + 2 <= q
    BY ONLY <1>2, <1>3, <1>7, k \in Nat, q \in Nat
  <2>7. k + 1 \in Nat /\ k + 1 >= b
    BY <1>1
  <2>. QED BY <2>5, <2>6, <2>7 DEF Hands
<1>. QED BY <1>1, <1>2, <1>5, <1>6, <1>7

-----------------------------------------------------------------------------
(* The records written.                                                    *)

LEMMA LinesApart ==
    ASSUME IsPad, NEW k \in Nat, NEW i \in Nat
    PROVE  /\ LineEnd(i) \in Nat
           /\ i < k => LineEnd(i) + 3 + pad <= LineEnd(k)
           /\ i > k => LineEnd(k) + 3 + pad <= LineEnd(i)
           /\ i = k => LineEnd(i) = LineEnd(k)
BY LineEnds

LEMMA CountIs ==
    ASSUME IsPad, NEW q \in Nat, NEW m \in Nat, NEW k \in Nat,
           LineEnd(k) <= q, q < LineEnd(k) + 2,
           \A i \in Nat : i + 1 <= m <=> LineEnd(i) + 2 <= q
    PROVE  m = k
<1>1. LineEnd(k) \in Nat
  BY LineEnds
<1>2. ~ (m > k)
  <2>1. k + 1 <= m <=> LineEnd(k) + 2 <= q
    OBVIOUS
  <2>. QED BY <1>1, <2>1
<1>3. ~ (m < k)
  <2>. SUFFICES ASSUME m < k PROVE FALSE
    OBVIOUS
  <2>1. LineEnd(m) \in Nat /\ LineEnd(m) + 3 + pad <= LineEnd(k)
    BY LinesApart
  <2>2. m + 1 <= m <=> LineEnd(m) + 2 <= q
    OBVIOUS
  <2>. QED BY <1>1, <2>1, <2>2 DEF IsPad
<1>. QED BY <1>2, <1>3

LEMMA WrittenIs ==
    ASSUME IsPad, NEW w, Lined(w)
    PROVE  /\ Written(w) \in Seq(Nat) /\ Written(w) = First(w, Len(Written(w)))
           /\ \A i \in Nat : i + 1 <= Len(Written(w)) <=> LineEnd(i) + 2 <= Len(files[w])
<1>. DEFINE n == Len(files[w])
            Now(s, k) == IF files[w][k][1] = "b" THEN Append(s, files[w][k][2]) ELSE s
            Next1(f, k) == IF k = 0 THEN <<>>
                           ELSE IF files[w][k][1] = "b" THEN Append(f[k - 1], files[w][k][2]) ELSE f[k - 1]
            ids == CHOOSE f : f = [k \in 0..n |-> Next1(f, k)]
            step == [k \in 1..n |-> [s \in Seq(Nat) |-> Now(s, k)]]
<1>1. n \in Nat /\ \A k \in 1..n : files[w][k] \in Cell
  BY DEF Lined
<1>2. Written(w) = ids[n]
  BY DEF Written
<1>. HIDE DEF n
<1>3. \A k \in 1..n, s \in Seq(Nat) : Now(s, k) \in Seq(Nat)
  BY <1>1 DEF Cell
<1>4. step \in [1..n -> [Seq(Nat) -> Seq(Nat)]]
  <2>. HIDE DEF Now
  <2>. QED BY <1>3
<1>5. PICK f \in [0..n -> Seq(Nat)] : f[0] = <<>> /\ \A k \in 1..n : f[k] = step[k][f[k - 1]]
  <2>1. \A X : \A b \in X : \A st \in [1..n -> [X -> X]] :
            \E f \in [0..n -> X] : Chain(f, b, st, n)
    BY ONLY <1>1, Iterates, Zenon
  <2>2. <<>> \in Seq(Nat)
    OBVIOUS
  <2>. HIDE DEF step
  <2>3. PICK f \in [0..n -> Seq(Nat)] : Chain(f, <<>>, step, n)
    BY ONLY <1>4, <2>1, <2>2, Zenon
  <2>. QED BY <2>3 DEF Chain
<1>6. \A k \in 1..n : k - 1 \in 0..n
  BY <1>1
<1>7. \A k \in 1..n : f[k] = Now(f[k - 1], k)
  <2>. HIDE DEF Now
  <2>. QED BY <1>5, <1>6
<1>8. \A k \in 0..n : f[k] = Next1(f, k)
  <2>1. ASSUME NEW k \in 1..n PROVE f[k] = Next1(f, k)
    <3>1. k # 0
      BY <1>1
    <3>. QED BY <3>1, <1>7
  <2>2. f[0] = Next1(f, 0)
    BY <1>5
  <2>. HIDE DEF Next1
  <2>3. \A k \in 0..n : k = 0 \/ k \in 1..n
    BY <1>1
  <2>. QED BY <2>1, <2>2, <2>3
<1>9. f = [k \in 0..n |-> Next1(f, k)]
  <2>. HIDE DEF Next1
  <2>. QED BY <1>5, <1>8
<1>10. ids = [k \in 0..n |-> Next1(ids, k)]
  <2>. HIDE DEF Next1
  <2>. QED BY <1>9
<1>11. \A k \in 0..n : ids[k] = Next1(ids, k)
  <2>. HIDE DEF Next1, ids
  <2>. QED BY <1>10
<1>. HIDE DEF ids
<1>12. ids[0] = <<>>
  BY <1>1, <1>11
<1>13. \A k \in 1..n : ids[k] = IF files[w][k][1] = "b" THEN Append(ids[k - 1], files[w][k][2]) ELSE ids[k - 1]
  BY <1>1, <1>11
<1>. HIDE DEF Next1, step, Now
<1>. DEFINE Is(q, m) == ids[q] = First(w, m) /\ \A i \in Nat : i + 1 <= m <=> LineEnd(i) + 2 <= q
            T == {q \in Nat : q <= n => \E m \in Nat : Is(q, m)}
<1>14. 0 \in T
  <2>1. First(w, 0) = <<>>
    BY DEF First
  <2>2. \A i \in Nat : i + 1 <= 0 <=> LineEnd(i) + 2 <= 0
    BY LineEnds
  <2>. QED BY <1>12, <2>1, <2>2
<1>15. ASSUME NEW q \in Nat, q \in T PROVE q + 1 \in T
  <2>. SUFFICES ASSUME q + 1 <= n PROVE \E m \in Nat : Is(q + 1, m)
    OBVIOUS
  <2>1. PICK m \in Nat : Is(q, m)
    BY <1>1, <1>15
  <2>2. PICK k \in Nat : LineEnd(k) <= q /\ q < LineEnd(k + 1)
    BY LineAt
  <2>3. LineEnd(k) \in Nat /\ LineEnd(k + 1) = LineEnd(k) + 3 + pad
    BY LineEnds
  <2>4. ids[q + 1] = IF files[w][q + 1][1] = "b" THEN Append(ids[q], files[w][q + 1][2]) ELSE ids[q]
    <3>1. q + 1 \in 1..n /\ q + 1 - 1 = q
      BY <1>1
    <3>. QED BY <1>13, <3>1
  <2>5. CASE q = LineEnd(k) + 1
    <3>1. m = k
      <4>1. LineEnd(k) <= q /\ q < LineEnd(k) + 2
        BY <2>3, <2>5
      <4>2. \A i \in Nat : i + 1 <= m <=> LineEnd(i) + 2 <= q
        BY <2>1
      <4>. HIDE DEF Is, T
      <4>. QED BY ONLY IsPad, <4>1, <4>2, CountIs, q \in Nat, m \in Nat, k \in Nat
    <3>2. files[w][q + 1] = <<"b", files[w][LineEnd(k) + 1][2]>>
      <4>1. LineEnd(k) + 2 = q + 1
        BY <2>3, <2>5
      <4>. QED BY <4>1, <1>1 DEF Lined, n
    <3>3. k + 1 - 1 = k
      OBVIOUS
    <3>4. ids[q + 1] = First(w, k + 1)
      <4>1. ids[q + 1] = Append(First(w, k), files[w][LineEnd(k) + 1][2])
        BY <2>1, <2>4, <3>1, <3>2
      <4>. QED BY <3>3, <4>1 DEF First
    <3>5. ASSUME NEW i \in Nat PROVE i + 1 <= k + 1 <=> LineEnd(i) + 2 <= q + 1
      <4>1. /\ LineEnd(i) \in Nat
            /\ i < k => LineEnd(i) + 3 + pad <= LineEnd(k)
            /\ i > k => LineEnd(k) + 3 + pad <= LineEnd(i)
            /\ i = k => LineEnd(i) = LineEnd(k)
        BY LinesApart
      <4>2. pad \in Nat
        BY DEF IsPad
      <4>3. LineEnd(k) \in Nat
        BY <2>3
      <4>4. CASE i < k
        BY ONLY <2>5, <4>1, <4>2, <4>3, <4>4, k \in Nat, i \in Nat
      <4>5. CASE i > k
        BY ONLY <2>5, <4>1, <4>2, <4>3, <4>5, k \in Nat, i \in Nat
      <4>6. CASE i = k
        BY ONLY <2>5, <4>3, <4>6, k \in Nat
      <4>. QED BY ONLY <4>4, <4>5, <4>6, k \in Nat, i \in Nat
    <3>. QED BY <3>4, <3>5
  <2>6. CASE q # LineEnd(k) + 1
    <3>1. files[w][q + 1][1] # "b"
      <4>1. /\ q = LineEnd(k) => files[w][q + 1] \in {"a"} \X (1..Len(lines))
            /\ q = LineEnd(k) + 2 => files[w][q + 1] = IF pad = 0 THEN NL ELSE BlankCell
            /\ q = LineEnd(k) + 3 => pad = 0 \/ files[w][q + 1] = NL
        <5>1. /\ LineEnd(k) + 1 <= n => files[w][LineEnd(k) + 1] \in {"a"} \X (1..Len(lines))
              /\ LineEnd(k) + 3 <= n =>
                    files[w][LineEnd(k) + 3] = IF pad = 0 THEN NL ELSE BlankCell
              /\ LineEnd(k) + 4 <= n => pad = 0 \/ files[w][LineEnd(k) + 4] = NL
          BY DEF Lined, n
        <5>2. LineEnd(k) + 2 + 1 = LineEnd(k) + 3 /\ LineEnd(k) + 3 + 1 = LineEnd(k) + 4
          BY <2>3
        <5>. QED BY <5>1, <5>2
      <4>2. \/ q = LineEnd(k) \/ q = LineEnd(k) + 2
            \/ (q = LineEnd(k) + 3 /\ pad = 1)
        <5>1. CASE pad = 0
          BY ONLY <5>1, <2>2, <2>3, <2>6, q \in Nat
        <5>2. CASE pad = 1
          BY ONLY <5>2, <2>2, <2>3, <2>6, q \in Nat
        <5>. QED BY <5>1, <5>2 DEF IsPad
      <4>. QED BY <4>1, <4>2 DEF NL, BlankCell
    <3>2. ASSUME NEW i \in Nat PROVE i + 1 <= m <=> LineEnd(i) + 2 <= q + 1
      <4>1. i + 1 <= m <=> LineEnd(i) + 2 <= q
        BY <2>1
      <4>2. LineEnd(i) + 2 # q + 1
        <5>1. /\ LineEnd(i) \in Nat
              /\ i < k => LineEnd(i) + 3 + pad <= LineEnd(k)
              /\ i > k => LineEnd(k) + 3 + pad <= LineEnd(i)
              /\ i = k => LineEnd(i) = LineEnd(k)
          BY LinesApart
        <5>2. pad \in Nat
          BY DEF IsPad
        <5>3. LineEnd(k) \in Nat /\ LineEnd(k) <= q /\ q < LineEnd(k) + 3 + pad
          BY ONLY <2>2, <2>3
        <5>4. CASE i < k
          BY ONLY <5>1, <5>2, <5>3, <5>4, q \in Nat
        <5>5. CASE i > k
          BY ONLY <5>1, <5>2, <5>3, <5>5, q \in Nat
        <5>6. CASE i = k
          BY ONLY <2>6, <5>3, <5>6, q \in Nat
        <5>. QED BY ONLY <5>4, <5>5, <5>6, k \in Nat, i \in Nat
      <4>3. LineEnd(i) \in Nat
        BY LineEnds
      <4>. QED BY <4>1, <4>2, <4>3
    <3>3. ids[q + 1] = First(w, m)
      BY <2>1, <2>4, <3>1
    <3>. QED BY <3>2, <3>3
  <2>. QED BY <2>5, <2>6
<1>16. n \in T
  <2>. HIDE DEF T
  <2>1. \A q \in Nat : q \in T
    BY ONLY <1>14, <1>15, Induct
  <2>. QED BY <1>1, <2>1
<1>17. PICK m \in Nat : Is(n, m)
  BY <1>1, <1>16
<1>18. /\ First(w, m) \in Seq(Nat) /\ Len(First(w, m)) = m
  <2>1. ASSUME NEW i \in 1..m PROVE files[w][LineEnd(i - 1) + 1][2] \in Nat
    <3>1. i - 1 \in Nat /\ (i - 1) + 1 <= m
      OBVIOUS
    <3>2. LineEnd(i - 1) + 2 <= n /\ LineEnd(i - 1) \in Nat
      BY <1>17, <3>1, LineEnds
    <3>3. LineEnd(i - 1) + 1 \in 1..n
      BY <1>1, <3>2
    <3>. QED BY <1>1, <3>3 DEF Cell
  <2>. QED BY <2>1 DEF First
<1>. QED BY <1>2, <1>17, <1>18 DEF n

-----------------------------------------------------------------------------
(* What a pass keeps of the lines handed to it.                            *)

LastUser(ids) == Max({n \in 1..Len(ids) : IsUser(lines[ids[n]])} \cup {0})
TailAfter(ids) == IF LastUser(ids) = 0 THEN 0 ELSE LineEnd(LastUser(ids)) - pad

IsReader(r) == DOMAIN r = DOMAIN NoReader

(* A line changes nothing but what its pass collects.                      *)
OnlyCollects(r, t) ==
    /\ IsReader(t) /\ t.pc = r.pc /\ t.pos = r.pos /\ t.start = r.start /\ t.base = r.base
    /\ t.buf = r.buf /\ t.whole = r.whole
    /\ r.pc # "scan" => t.got = r.got /\ t.tail = r.tail
    /\ r.pc # "tail" => t.shown = r.shown

LEMMA TakeLineIs ==
    ASSUME NEW r, IsReader(r), NEW p
    PROVE  /\ OnlyCollects(r, TakeLine(r, p))
           /\ ~ Parses(p) => TakeLine(r, p) = r
           /\ Parses(p) /\ r.pc = "scan" =>
                /\ TakeLine(r, p).got = Append(r.got, IdOf(p))
                /\ TakeLine(r, p).tail = IF IsUser(lines[IdOf(p)]) THEN TailOffsetAfter(p) ELSE r.tail
           /\ Parses(p) /\ r.pc = "tail" => TakeLine(r, p).shown = Append(r.shown, IdOf(p))
<1>1. DOMAIN r = {"pc", "pos", "start", "base", "buf", "tail", "got", "sub", "shown", "whole", "before"}
  BY DEF IsReader, NoReader
<1>2. OnlyCollects(r, r)
  BY DEF OnlyCollects, IsReader
<1>3. CASE ~ Parses(p)
  BY <1>2, <1>3 DEF TakeLine
<1>4. CASE Parses(p) /\ r.pc = "scan"
  <2>. DEFINE g == Append(r.got, IdOf(p))
              o == IF IsUser(lines[IdOf(p)]) THEN TailOffsetAfter(p) ELSE r.tail
  <2>1. TakeLine(r, p) = [r EXCEPT !.got = g, !.tail = o]
    BY <1>4 DEF TakeLine
  <2>. HIDE DEF g, o
  <2>2. OnlyCollects(r, TakeLine(r, p)) /\ TakeLine(r, p).got = g /\ TakeLine(r, p).tail = o
    BY <1>1, <1>4, <2>1 DEF OnlyCollects, IsReader
  <2>. QED BY <2>2, <1>4 DEF g, o
<1>5. CASE Parses(p) /\ r.pc = "tail"
  <2>. DEFINE h == Append(r.shown, IdOf(p))
  <2>1. TakeLine(r, p) = [r EXCEPT !.shown = h]
    BY <1>5 DEF TakeLine
  <2>. HIDE DEF h
  <2>2. OnlyCollects(r, TakeLine(r, p)) /\ TakeLine(r, p).shown = h
    BY <1>1, <1>5, <2>1 DEF OnlyCollects, IsReader
  <2>. QED BY <2>2, <1>5 DEF h
<1>6. CASE Parses(p) /\ r.pc = "sub"
  <2>. DEFINE h == Append(r.sub, IdOf(p))
  <2>1. TakeLine(r, p) = [r EXCEPT !.sub = h]
    BY <1>6 DEF TakeLine
  <2>. HIDE DEF h
  <2>2. OnlyCollects(r, TakeLine(r, p))
    BY <1>1, <1>6, <2>1 DEF OnlyCollects, IsReader
  <2>. QED BY <2>2, <1>6
<1>7. CASE Parses(p) /\ r.pc \notin {"scan", "tail", "sub"}
  <2>1. TakeLine(r, p) = r
    BY <1>7 DEF TakeLine
  <2>. QED BY <1>2, <1>7, <2>1
<1>. QED BY <1>3, <1>4, <1>5, <1>6, <1>7

LEMMA TakeSteps ==
    ASSUME NEW r, NEW handed, Len(handed) \in Nat
    PROVE  \E taken : /\ Take(r, handed) = taken[Len(handed)]
                      /\ taken[0] = r
                      /\ \A n \in 1..Len(handed) : taken[n] = TakeLine(taken[n - 1], handed[n])
<1>. DEFINE n == Len(handed)
            Next1(f, k) == IF k = 0 THEN r ELSE TakeLine(f[k - 1], handed[k])
            taken == CHOOSE f : f = [k \in 0..n |-> Next1(f, k)]
            T == {m \in Nat : \E f : f = [k \in 0..m |-> Next1(f, k)]}
<1>1. Take(r, handed) = taken[n]
  BY DEF Take
<1>2. n \in Nat
  OBVIOUS
<1>. HIDE DEF n
<1>3. 0 \in T
  <2>. DEFINE g == [k \in 0..0 |-> r]
  <2>1. g = [k \in 0..0 |-> Next1(g, k)]
    OBVIOUS
  <2>. HIDE DEF g, Next1
  <2>. QED BY <2>1
<1>4. ASSUME NEW m \in Nat, m \in T PROVE m + 1 \in T
  <2>1. PICK f : f = [k \in 0..m |-> Next1(f, k)]
    BY <1>4
  <2>. DEFINE g == [k \in 0..(m + 1) |-> Next1(f, k)]
  <2>2. \A k \in 0..m : g[k] = f[k]
    <3>1. \A k \in 0..m : f[k] = Next1(f, k) /\ k \in 0..(m + 1)
      <4>. HIDE DEF Next1
      <4>. QED BY <2>1
    <3>. HIDE DEF Next1
    <3>. QED BY <3>1
  <2>3. \A k \in 0..(m + 1) : Next1(f, k) = Next1(g, k)
    <3>1. \A k \in 0..(m + 1) : k = 0 \/ k - 1 \in 0..m
      OBVIOUS
    <3>. HIDE DEF g
    <3>. QED BY <2>2, <3>1
  <2>4. g = [k \in 0..(m + 1) |-> Next1(g, k)]
    <3>1. \A k \in 0..(m + 1) : g[k] = Next1(g, k)
      <4>. HIDE DEF Next1
      <4>. QED BY <2>3
    <3>. HIDE DEF Next1
    <3>. QED BY <3>1
  <2>. HIDE DEF g, Next1
  <2>. QED BY <2>4
<1>5. n \in T
  <2>. HIDE DEF T
  <2>1. \A q \in Nat : q \in T
    BY ONLY <1>3, <1>4, Induct
  <2>. QED BY <1>2, <2>1
<1>6. taken = [k \in 0..n |-> Next1(taken, k)]
  <2>. HIDE DEF Next1
  <2>. QED BY <1>5
<1>7. \A k \in 0..n : taken[k] = Next1(taken, k)
  <2>. HIDE DEF Next1, taken
  <2>. QED BY <1>6
<1>. HIDE DEF taken
<1>8. taken[0] = r
  BY <1>2, <1>7
<1>9. \A k \in 1..n : taken[k] = TakeLine(taken[k - 1], handed[k])
  BY <1>2, <1>7
<1>. QED BY <1>1, <1>8, <1>9 DEF n

LEMMA LineParses ==
    ASSUME IsPad, NEW w, Lined(w), NEW i \in Nat, LineEnd(i) + 2 <= Len(files[w])
    PROVE  /\ Parses(Line(w, i + 1)) /\ IdOf(Line(w, i + 1)) = files[w][LineEnd(i) + 1][2]
           /\ TailOffsetAfter(Line(w, i + 1)) = LineEnd(i + 1) - pad
<1>1. LineEnd(i) \in Nat /\ LineEnd(i + 1) = LineEnd(i) + 3 + pad /\ Len(files[w]) \in Nat /\ pad \in Nat
  <2>1. LineEnd(i) \in Nat /\ LineEnd(i + 1) = LineEnd(i) + 3 + pad
    BY LineEnds
  <2>2. Len(files[w]) \in Nat
    BY DEF Lined
  <2>. QED BY <2>1, <2>2 DEF IsPad
<1>2. i + 1 - 1 = i
  OBVIOUS
<1>. DEFINE c == files[w][LineEnd(i) + 1]
            d == files[w][LineEnd(i) + 2]
<1>3. c \in {"a"} \X (1..Len(lines)) /\ d = <<"b", c[2]>>
  BY <1>1 DEF Lined
<1>4. Line(w, i + 1) = [text |-> <<c, d>>, at |-> LineEnd(i)]
  BY <1>2 DEF Line
<1>. HIDE DEF c, d
<1>5. /\ Line(w, i + 1).text = <<c, d>> /\ Line(w, i + 1).at = LineEnd(i)
      /\ <<c, d>>[1] = c /\ <<c, d>>[2] = d /\ Len(<<c, d>>) = 2
  BY <1>4
<1>6. c[1] = "a"
  BY <1>3
<1>7. Parses(Line(w, i + 1)) /\ IdOf(Line(w, i + 1)) = c[2]
  BY <1>3, <1>5, <1>6 DEF Parses, IdOf
<1>8. TailOffsetAfter(Line(w, i + 1)) = LineEnd(i + 1) - pad
  <2>1. TailOffsetAfter(Line(w, i + 1)) = LineEnd(i) + 2 + 1
    BY <1>5 DEF TailOffsetAfter
  <2>. QED BY ONLY <1>1, <2>1
<1>. QED BY <1>7, <1>8 DEF c

LEMMA FirstIs ==
    ASSUME NEW w, NEW k \in Nat
    PROVE  /\ Len(First(w, k)) = k /\ \A n \in 1..k : First(w, k)[n] = files[w][LineEnd(n - 1) + 1][2]
           /\ First(w, k + 1) = Append(First(w, k), files[w][LineEnd(k) + 1][2])
<1>1. k + 1 - 1 = k
  OBVIOUS
<1>. QED BY <1>1 DEF First

LEMMA LastUserIs ==
    ASSUME NEW w, NEW k \in Nat
    PROVE  /\ LastUser(First(w, k)) \in 0..k
           /\ LastUser(First(w, k + 1)) =
                IF IsUser(lines[files[w][LineEnd(k) + 1][2]]) THEN k + 1 ELSE LastUser(First(w, k))
<1>. DEFINE Users(j) == {n \in 1..j : IsUser(lines[files[w][LineEnd(n - 1) + 1][2]])}
<1>1. \A j \in Nat : LastUser(First(w, j)) = Max(Users(j) \cup {0})
  <2>. SUFFICES ASSUME NEW j \in Nat PROVE LastUser(First(w, j)) = Max(Users(j) \cup {0})
    OBVIOUS
  <2>1. {n \in 1..Len(First(w, j)) : IsUser(lines[First(w, j)[n]])} = Users(j)
    BY FirstIs
  <2>. QED BY <2>1 DEF LastUser
<1>2. \A j \in Nat : /\ Max(Users(j) \cup {0}) \in Users(j) \cup {0}
                     /\ \A y \in Users(j) \cup {0} : y <= Max(Users(j) \cup {0})
  <2>. SUFFICES ASSUME NEW j \in Nat PROVE /\ Max(Users(j) \cup {0}) \in Users(j) \cup {0}
                     /\ \A y \in Users(j) \cup {0} : y <= Max(Users(j) \cup {0})
    OBVIOUS
  <2>1. (Users(j) \cup {0}) \in SUBSET (0..j) /\ Users(j) \cup {0} # {}
    OBVIOUS
  <2>. HIDE DEF Users
  <2>. QED BY <2>1, MaxOfUpTo
<1>3. Users(k + 1) = Users(k) \cup (IF IsUser(lines[files[w][LineEnd(k) + 1][2]]) THEN {k + 1} ELSE {})
  <2>1. k + 1 - 1 = k /\ 1..(k + 1) = 1..k \cup {k + 1}
    OBVIOUS
  <2>. QED BY <2>1
<1>4. Users(k) \subseteq 1..k
  OBVIOUS
<1>. HIDE DEF Users
<1>5. Max(Users(k) \cup {0}) \in 0..k
  BY <1>2, <1>4
<1>6. CASE IsUser(lines[files[w][LineEnd(k) + 1][2]])
  <2>1. Users(k + 1) = Users(k) \cup {k + 1}
    BY <1>3, <1>6
  <2>2. Max(Users(k + 1) \cup {0}) = k + 1
    <3>1. k + 1 \in Nat
      OBVIOUS
    <3>2. /\ Max(Users(k + 1) \cup {0}) \in Users(k + 1) \cup {0}
          /\ \A y \in Users(k + 1) \cup {0} : y <= Max(Users(k + 1) \cup {0})
      BY <1>2, <3>1
    <3>3. k + 1 <= Max(Users(k + 1) \cup {0})
      BY <2>1, <3>2
    <3>4. Max(Users(k + 1) \cup {0}) \in 0..(k + 1)
      BY <1>4, <2>1, <3>2
    <3>. QED BY <3>3, <3>4
  <2>. QED BY <1>1, <1>5, <1>6, <2>2
<1>7. CASE ~ IsUser(lines[files[w][LineEnd(k) + 1][2]])
  <2>1. Users(k + 1) = Users(k)
    BY <1>3, <1>7
  <2>. QED BY <1>1, <1>5, <1>7, <2>1
<1>. QED BY <1>6, <1>7

LEMMA KeptAgain ==
    ASSUME NEW r, NEW t, NEW v, OnlyCollects(r, t), OnlyCollects(t, v)
    PROVE  OnlyCollects(r, v)
BY DEF OnlyCollects

(* The first m records have all their cells but the newline.               *)
AllButNewline(w, m) == \A i \in Nat : i + 1 <= m => LineEnd(i) + 2 <= Len(files[w])

(* From the first b records to the first m.                                *)
Collects(w, b, m, r, t) ==
    /\ OnlyCollects(r, t)
    /\ r.pc = "scan" /\ r.got = First(w, b) /\ r.tail = TailAfter(First(w, b)) =>
         t.got = First(w, m) /\ t.tail = TailAfter(First(w, m))
    /\ \A u \in 0..b : r.pc = "tail" /\ r.shown = SubSeq(First(w, b), u + 1, b) =>
         t.shown = SubSeq(First(w, m), u + 1, m)

LEMMA TakeHands ==
    ASSUME IsPad, NEW w, Lined(w), NEW b \in Nat, NEW m \in Nat, b <= m, NEW q,
           AllButNewline(w, m), NEW handed, Hands(w, b, m, q, handed), NEW r, IsReader(r)
    PROVE  Collects(w, b, m, r, Take(r, handed))
<1>0. \A i \in Nat : i + 1 <= m => LineEnd(i) + 2 <= Len(files[w])
  BY DEF AllButNewline
<1>1. /\ Len(handed) \in Nat /\ (Len(handed) = m - b \/ Len(handed) = m - b + 1)
      /\ \A n \in 1..(m - b) : handed[n] = Line(w, b + n)
      /\ Len(handed) = m - b + 1 => Len(handed[m - b + 1].text) = 1
  <2>1. /\ Len(Between(w, b, m)) = m - b
        /\ \A n \in 1..(m - b) : Between(w, b, m)[n] = Line(w, b + n)
        /\ m - b \in Nat
    BY DEF Between
  <2>2. CASE handed = Between(w, b, m)
    BY <2>1, <2>2
  <2>3. ASSUME NEW p, Len(p.text) = 1, handed = Append(Between(w, b, m), p)
        PROVE  /\ Len(handed) = m - b + 1 /\ handed[m - b + 1] = p
               /\ \A n \in 1..(m - b) : handed[n] = Line(w, b + n)
    <3>. DEFINE S == {Line(w, b + n) : n \in 1..(m - b)}
    <3>1. \A n \in 1..(m - b) : Line(w, b + n) \in S
      OBVIOUS
    <3>. HIDE DEF S
    <3>2. Between(w, b, m) \in Seq(S)
      BY <2>1, <3>1 DEF Between
    <3>3. /\ Len(handed) = Len(Between(w, b, m)) + 1
          /\ handed[Len(Between(w, b, m)) + 1] = p
          /\ \A n \in 1..Len(Between(w, b, m)) : handed[n] = Between(w, b, m)[n]
      BY <2>3, <3>2
    <3>. QED BY <2>1, <3>3
  <2>. QED BY <2>1, <2>2, <2>3 DEF Hands
<1>2. PICK taken : /\ Take(r, handed) = taken[Len(handed)]
                   /\ taken[0] = r
                   /\ \A n \in 1..Len(handed) : taken[n] = TakeLine(taken[n - 1], handed[n])
  BY <1>1, TakeSteps
<1>. DEFINE Goes(t, k) == IsReader(t) /\ Collects(w, b, k, r, t)
            T == {n \in Nat : b + n <= m => Goes(taken[n], b + n)}
<1>3. 0 \in T
  <2>1. OnlyCollects(r, r) /\ b + 0 = b
    BY DEF OnlyCollects
  <2>. QED BY <1>2, <2>1 DEF Collects
<1>4. ASSUME NEW n \in Nat, n \in T PROVE n + 1 \in T
  <2>. SUFFICES ASSUME b + (n + 1) <= m PROVE Goes(taken[n + 1], b + (n + 1))
    OBVIOUS
  <2>. DEFINE k == b + n
              t == taken[n]
              p == Line(w, k + 1)
              id == files[w][LineEnd(k) + 1][2]
  <2>1. /\ k \in Nat /\ k + 1 <= m /\ b + (n + 1) = k + 1 /\ k >= b
        /\ n + 1 \in 1..Len(handed) /\ n + 1 \in 1..(m - b) /\ n + 1 - 1 = n
    BY <1>1
  <2>2. Goes(t, k)
    BY <1>4, <2>1
  <2>3. taken[n + 1] = TakeLine(t, p)
    <3>1. handed[n + 1] = p
      BY <1>1, <2>1
    <3>. QED BY <1>2, <2>1, <3>1
  <2>4. Parses(p) /\ IdOf(p) = id /\ TailOffsetAfter(p) = LineEnd(k + 1) - pad
    <3>1. LineEnd(k) + 2 <= Len(files[w])
      BY <1>0, <2>1
    <3>. HIDE DEF k, T
    <3>. QED BY <2>1, <3>1, LineParses
  <2>. HIDE DEF k, p, t, T
  <2>5. /\ OnlyCollects(t, TakeLine(t, p))
        /\ t.pc = "scan" =>
                /\ TakeLine(t, p).got = Append(t.got, id)
                /\ TakeLine(t, p).tail = IF IsUser(lines[id]) THEN LineEnd(k + 1) - pad ELSE t.tail
        /\ t.pc = "tail" => TakeLine(t, p).shown = Append(t.shown, id)
    BY <2>2, <2>4, TakeLineIs
  <2>6. OnlyCollects(r, TakeLine(t, p)) /\ IsReader(TakeLine(t, p)) /\ t.pc = r.pc
    <3>1. OnlyCollects(r, t)
      BY <2>2 DEF Collects
    <3>. QED BY <2>5, <3>1, KeptAgain DEF OnlyCollects
  <2>7. First(w, k + 1) = Append(First(w, k), id)
    BY <2>1, FirstIs
  <2>8. ASSUME r.pc = "scan", r.got = First(w, b), r.tail = TailAfter(First(w, b))
        PROVE  TakeLine(t, p).got = First(w, k + 1) /\ TakeLine(t, p).tail = TailAfter(First(w, k + 1))
    <3>1. t.got = First(w, k) /\ t.tail = TailAfter(First(w, k))
      BY <2>2, <2>8 DEF Collects
    <3>2. /\ LastUser(First(w, k)) \in 0..k
          /\ LastUser(First(w, k + 1)) = IF IsUser(lines[id]) THEN k + 1 ELSE LastUser(First(w, k))
      BY <2>1, LastUserIs
    <3>3. TailAfter(First(w, k + 1)) = IF IsUser(lines[id]) THEN LineEnd(k + 1) - pad
                                       ELSE TailAfter(First(w, k))
      <4>1. k + 1 # 0
        BY <2>1
      <4>. QED BY <3>2, <4>1 DEF TailAfter
    <3>. QED BY <2>5, <2>6, <2>7, <2>8, <3>1, <3>3
  <2>9. ASSUME NEW u \in 0..b, r.pc = "tail", r.shown = SubSeq(First(w, b), u + 1, b)
        PROVE  TakeLine(t, p).shown = SubSeq(First(w, k + 1), u + 1, k + 1)
    <3>1. t.shown = SubSeq(First(w, k), u + 1, k)
      BY <2>2, <2>9 DEF Collects
    <3>2. Append(SubSeq(First(w, k), u + 1, k), id) = SubSeq(Append(First(w, k), id), u + 1, k + 1)
      BY <2>1 DEF First
    <3>. QED BY <2>5, <2>6, <2>7, <2>9, <3>1, <3>2
  <2>. QED BY <2>1, <2>3, <2>6, <2>8, <2>9 DEF Collects
<1>5. Goes(taken[m - b], m)
  <2>1. m - b \in Nat /\ b + (m - b) = m
    OBVIOUS
  <2>. HIDE DEF T, Goes
  <2>2. \A n \in Nat : n \in T
    BY ONLY <1>3, <1>4, Induct
  <2>3. m - b \in T
    BY <2>1, <2>2
  <2>. QED BY <2>1, <2>3 DEF T
<1>6. Take(r, handed) = taken[m - b]
  <2>1. CASE Len(handed) = m - b
    BY <1>2, <2>1
  <2>2. CASE Len(handed) = m - b + 1
    <3>. DEFINE p == handed[m - b + 1]
    <3>1. Len(p.text) = 1 /\ m - b + 1 \in 1..Len(handed) /\ m - b + 1 - 1 = m - b
      BY <1>1, <2>2
    <3>2. taken[m - b + 1] = TakeLine(taken[m - b], p)
      BY <1>2, <3>1
    <3>3. ~ Parses(p)
      BY <3>1 DEF Parses
    <3>. HIDE DEF p
    <3>4. TakeLine(taken[m - b], p) = taken[m - b]
      BY <1>5, <3>3, TakeLineIs
    <3>. QED BY <1>2, <2>2, <3>2, <3>4
  <2>. QED BY <1>1, <2>1, <2>2
<1>. QED BY <1>5, <1>6

-----------------------------------------------------------------------------
(* The invariant.                                                          *)

(* What is left of the line being written.                                 *)
Rests(i) ==
    IF pad = 0 THEN {<<<<"a", i>>, <<"b", i>>, NL>>, <<<<"b", i>>, NL>>, <<NL>>}
    ELSE {<<<<"a", i>>, <<"b", i>>, BlankCell, NL>>, <<<<"b", i>>, BlankCell, NL>>,
          <<BlankCell, NL>>, <<NL>>}

(* A file ends at the end of a line but for the line being written.        *)
EndsAtLine(w) ==
    \E k \in Nat :
        IF unwritten # <<>> /\ lines[Len(lines)].on = w
        THEN /\ Len(files[w]) + Len(unwritten) = LineEnd(k + 1)
             /\ LineEnd(k) + 1 <= Len(files[w]) => files[w][LineEnd(k) + 1][2] = Len(lines)
        ELSE Len(files[w]) = LineEnd(k)

LogFileInv ==
    /\ IsPad /\ chunkSize \in Nat \ {0}
    /\ DOMAIN files = Wires /\ IsSeq(lines)
    /\ \A i \in 1..Len(lines) : lines[i].on \in Wires
    /\ unwritten # <<>> => Len(lines) > 0 /\ unwritten \in Rests(Len(lines))
    /\ \A w \in Wires : Lined(w) /\ EndsAtLine(w)

(* What is in the buffer follows the lines handed on.                      *)
Buffered(r) ==
    LET cells == files[WireOf(r.pc)]
    IN  /\ r.pos \in Nat /\ r.start \in Nat /\ r.base \in Nat /\ r.start + r.base <= r.pos
        /\ r.buf = SubSeq(cells, r.start + r.base + 1, r.pos)
        /\ r.pos <= Len(cells) \/ (r.pos = r.start /\ r.base = 0)

(* The first m records were there at a moment of the read.                 *)
Passed(r, m) == m \in Nat /\ r.whole <= m /\ m <= Len(Written("main"))
Scan(r) == \E g \in Nat : Passed(r, g) /\ r.got = First("main", g)

Scanned(r) ==
    /\ r.start = 0 /\ r.shown = <<>>
    /\ \E k \in Nat : /\ k <= Len(Written("main")) /\ r.base = LineEnd(k)
                      /\ r.got = First("main", k) /\ r.tail = TailAfter(First("main", k))
Tailed(r) ==
    /\ Scan(r)
    /\ \E k \in Nat : /\ LastUser(r.got) <= k /\ k <= Len(Written("main"))
                      /\ Begins(r.start + r.base, k)
                      /\ r.shown = SubSeq(First("main", k), LastUser(r.got) + 1, k)
TellsInv(r) ==
    /\ Scan(r)
    /\ \E m \in Nat :
          /\ Passed(r, m)
          /\ kind \in {"claude", "pi"} => r.shown = SubSeq(First("main", m), LastUser(r.got) + 1, m)
          /\ kind \in {"codex", "kimi"} => r.got = First("main", m)
          /\ kind = "opencode" => r.shown = SubSeq(First("main", m), Larger(LastUser(r.got), 1), m)
          /\ kind \notin {"claude", "pi", "codex", "kimi", "opencode"} => r.shown = First("main", m)

ReadOk(r) ==
    /\ IsReader(r) /\ r.whole \in Nat /\ r.whole <= Len(Written("main"))
    /\ r.pc \in {"idle", "guard", "scan", "tail", "sub", "ask", "done", "refused"}
    /\ r.pc \in {"guard", "scan", "tail", "sub"} => Buffered(r)
    /\ r.pc = "guard" => kind \in {"claude", "pi"} /\ r.got = <<>> /\ r.shown = <<>> /\ r.tail = 0
    /\ r.pc = "scan" => kind \in {"claude", "pi", "codex", "kimi"} /\ Scanned(r)
    /\ r.pc = "tail" => kind \in {"claude", "pi"} /\ Tailed(r)
    /\ r.pc = "sub" => kind = "kimi" /\ Scan(r)
    /\ r.pc = "ask" => kind \notin {"claude", "pi", "codex", "kimi"}
    /\ r.pc = "done" => TellsInv(r)

LogInv == LogFileInv /\ ReadOk(reader)

-----------------------------------------------------------------------------
(* What one read of the file hands on.                                     *)

LEMMA LinesOfType ==
    ASSUME NEW s \in Seq(Cell), NEW offset \in Nat
    PROVE  Len(LinesOf(s, offset)) \in Nat
<1>1. PICK read : /\ LinesOf(s, offset) = Handed(read[Len(s)])
                  /\ read[0] = NoLine(offset)
                  /\ \A n \in 1..Len(s) : read[n] = ReadCell(read[n - 1], s[n])
  BY LinesOfReads
<1>. DEFINE T == {n \in Nat : n <= Len(s) => read[n] \in ReadState}
<1>2. 0 \in T
  <2>1. NoLine(offset) \in ReadState
    BY DEF NoLine, ReadState
  <2>. QED BY <1>1, <2>1
<1>3. ASSUME NEW n \in Nat, n \in T PROVE n + 1 \in T
  <2>. SUFFICES ASSUME n + 1 <= Len(s) PROVE read[n + 1] \in ReadState
    OBVIOUS
  <2>1. n + 1 \in 1..Len(s) /\ n + 1 - 1 = n
    OBVIOUS
  <2>2. read[n + 1] = ReadCell(read[n], s[n + 1])
    BY <1>1, <2>1
  <2>3. read[n] \in ReadState /\ s[n + 1] \in Cell
    BY <1>3, <2>1
  <2>. QED BY <2>2, <2>3, ReadCellType
<1>4. Len(s) \in T
  <2>. HIDE DEF T
  <2>1. \A n \in Nat : n \in T
    BY ONLY <1>2, <1>3, Induct
  <2>. QED BY <2>1
<1>5. Handed(read[Len(s)]) \in Seq(LineRecord)
  <2>. DEFINE r == read[Len(s)]
  <2>1. r \in ReadState
    BY <1>4
  <2>. HIDE DEF r
  <2>2. r.lines \in Seq(LineRecord) /\ [text |-> r.text, at |-> r.at] \in LineRecord
    BY <2>1 DEF ReadState, LineRecord
  <2>3. Handed(r) \in Seq(LineRecord)
    BY <2>2 DEF Handed
  <2>. QED BY <2>3 DEF r
<1>. QED BY <1>1, <1>5

(* A part of a sequence.                                                   *)
LEMMA PartIs ==
    ASSUME NEW S, NEW f \in Seq(S), NEW q \in Nat, NEW n \in Nat, q <= n, n <= Len(f)
    PROVE  /\ SubSeq(f, q + 1, n) \in Seq(S) /\ Len(SubSeq(f, q + 1, n)) = n - q
           /\ \A i \in 1..(n - q) : SubSeq(f, q + 1, n)[i] = f[q + i]
OBVIOUS

LEMMA NothingRead ==
    ASSUME NEW offset \in Nat
    PROVE  LinesOf(<<>>, offset) = <<>>
<1>1. <<>> \in Seq(Cell) /\ Len(<<>>) = 0
  OBVIOUS
<1>2. PICK read : /\ LinesOf(<<>>, offset) = Handed(read[Len(<<>>)])
                  /\ read[0] = NoLine(offset)
  BY <1>1, LinesOfReads
<1>. QED BY <1>1, <1>2 DEF Handed, NoLine

(* Up to a newline: the lines that end there.                              *)
EndsAfter(w, q, cut) == cut \in Nat /\ cut > 0 /\ q + cut <= Len(files[w]) /\ files[w][q + cut] = NL
TextTo(w, q, cut) == SubSeq(files[w], q + 1, q + cut - 1)

LEMMA ChunkReads ==
    ASSUME IsPad, NEW w, Lined(w), NEW b \in Nat, NEW q \in Nat, Begins(q, b),
           NEW cut, EndsAfter(w, q, cut)
    PROVE  \E m \in Nat : /\ b <= m /\ m <= Len(Written(w)) /\ q + cut = LineEnd(m)
                          /\ Hands(w, b, m, LineEnd(m) - 1, LinesOf(TextTo(w, q, cut), q))
<1>. DEFINE n == Len(files[w])
            s == TextTo(w, q, cut)
<1>0. /\ cut \in Nat /\ cut > 0 /\ q + cut <= n /\ files[w][q + cut] = NL
      /\ s = SubSeq(files[w], q + 1, q + cut - 1) /\ n \in Nat /\ n <= Len(files[w])
  BY DEF EndsAfter, TextTo, Lined
<1>. HIDE DEF n, s
<1>1. Len(files[w]) \in Nat /\ files[w] \in Seq(Cell)
  BY DEF Lined
<1>2. PICK m \in Nat : m > 0 /\ q + cut = LineEnd(m)
  <2>1. q + cut \in 1..Len(files[w])
    <3>1. cut \in Nat /\ cut > 0 /\ q + cut <= Len(files[w])
      BY DEF EndsAfter
    <3>. QED BY ONLY <1>1, <3>1, q \in Nat
  <2>. QED BY <1>0, <2>1, NewlineEnds
<1>3. LineEnd(b) \in Nat /\ LineEnd(m) \in Nat
  BY LineEnds
<1>4. b <= m
  <2>1. LineEnd(b) <= LineEnd(m)
    BY ONLY <1>0, <1>2, <1>3, Begins(q, b), q \in Nat DEF Begins
  <2>2. b > m => LineEnd(m) + 3 + pad <= LineEnd(b)
    BY LineEnds
  <2>. QED BY <1>3, <2>1, <2>2 DEF IsPad
<1>5. \A i \in Nat : i + 1 <= m <=> LineEnd(i) + 2 <= LineEnd(m) - 1
  <2>. SUFFICES ASSUME NEW i \in Nat PROVE i + 1 <= m <=> LineEnd(i) + 2 <= LineEnd(m) - 1
    OBVIOUS
  <2>1. /\ LineEnd(i) \in Nat
        /\ i < m => LineEnd(i) + 3 + pad <= LineEnd(m)
        /\ i > m => LineEnd(m) + 3 + pad <= LineEnd(i)
        /\ i = m => LineEnd(i) = LineEnd(m)
    BY LinesApart
  <2>2. pad \in Nat
    BY DEF IsPad
  <2>. QED BY ONLY <1>3, <2>1, <2>2, m \in Nat, i \in Nat
<1>6. m <= Len(Written(w))
  <2>1. m - 1 \in Nat /\ (m - 1) + 1 = m
    BY <1>2
  <2>2. LineEnd(m - 1) + 2 <= LineEnd(m) - 1 /\ LineEnd(m - 1) \in Nat
    <3>1. LineEnd(m - 1) \in Nat
      BY <2>1, LineEnds
    <3>2. (m - 1) + 1 <= m <=> LineEnd(m - 1) + 2 <= LineEnd(m) - 1
      BY <1>5, <2>1
    <3>. QED BY <2>1, <3>1, <3>2
  <2>3. LineEnd(m - 1) + 2 <= Len(files[w])
    BY ONLY <1>0, <1>1, <1>2, <1>3, <2>2, q \in Nat
  <2>. QED BY <2>1, <2>3, WrittenIs
<1>7. CASE cut = 1 /\ b = m
  <2>1. s = <<>>
    BY <1>0, <1>1, <1>7
  <2>2. Between(w, b, m) = <<>>
    BY <1>7 DEF Between
  <2>. QED BY <1>2, <1>4, <1>6, <2>1, <2>2, NothingRead DEF Hands, s
<1>8. CASE ~ (cut = 1 /\ b = m)
  <2>1. /\ s \in Seq(Cell) /\ Len(s) = cut - 1
        /\ \A i \in 1..Len(s) : s[i] = files[w][q + i]
    <3>. DEFINE z == q + cut - 1
    <3>1. z \in Nat /\ q <= z /\ z <= Len(files[w]) /\ z - q = cut - 1
      BY <1>0
    <3>2. s = SubSeq(files[w], q + 1, z)
      BY <1>0
    <3>. HIDE DEF z
    <3>3. s \in Seq(Cell) /\ Len(s) = z - q /\ \A i \in 1..(z - q) : s[i] = files[w][q + i]
      BY ONLY <1>1, <3>1, <3>2, q \in Nat, PartIs
    <3>. QED BY ONLY <3>1, <3>3
  <2>2. LineEnd(b) <= LineEnd(m) - 1
    <3>1. CASE b = m
      BY ONLY <1>0, <1>2, <1>3, <1>8, <3>1, Begins(q, b), q \in Nat DEF Begins
    <3>2. CASE b < m
      <4>1. LineEnd(b) + 3 + pad <= LineEnd(m)
        BY <3>2, LineEnds
      <4>. QED BY <1>3, <4>1 DEF IsPad
    <3>. QED BY <1>4, <3>1, <3>2
  <2>3. q + Len(s) = LineEnd(m) - 1 /\ q + Len(s) <= Len(files[w])
    BY <1>0, <1>1, <1>2, <1>3, <2>1
  <2>4. PICK r : LinesOf(s, q) = Handed(r) /\ Reading(w, b, q + Len(s), r)
    BY <2>1, <2>2, <2>3, HandedAt
  <2>. DEFINE e == LineEnd(m) - 1
  <2>5. e \in Nat /\ Reading(w, b, e, r)
    BY <1>2, <2>1, <2>3, <2>4
  <2>. HIDE DEF e
  <2>6. PICK j \in Nat : /\ j >= b /\ Hands(w, b, j, e, Handed(r))
                         /\ \A i \in Nat : i + 1 <= j <=> LineEnd(i) + 2 <= e
    BY <2>5, HandedIs
  <2>7. j = m
    <3>1. \A i \in Nat : i + 1 <= j <=> i + 1 <= m
      BY <1>5, <2>6 DEF e
    <3>2. ~ (j > m)
      BY <3>1
    <3>3. ~ (j < m)
      BY <3>1
    <3>. QED BY <3>2, <3>3
  <2>. QED BY <1>2, <1>4, <1>6, <2>4, <2>6, <2>7 DEF e, s
<1>. QED BY <1>7, <1>8

(* At the end of the file: all that is written.                            *)
LEMMA EndReads ==
    ASSUME IsPad, NEW w, Lined(w), NEW b \in Nat, NEW q \in Nat, Begins(q, b), b <= Len(Written(w)),
           NEW n \in Nat, q <= n, n >= Len(files[w]), (n = Len(files[w]) \/ n = q),
           NEW s, s = SubSeq(files[w], q + 1, n)
    PROVE  \E e \in Nat : Hands(w, b, Len(Written(w)), e, LinesOf(s, q))
<1>1. Len(files[w]) \in Nat /\ files[w] \in Seq(Cell)
  BY DEF Lined
<1>2. /\ Written(w) \in Seq(Nat)
      /\ \A i \in Nat : i + 1 <= Len(Written(w)) <=> LineEnd(i) + 2 <= Len(files[w])
  BY WrittenIs
<1>3. LineEnd(b) \in Nat
  BY LineEnds
<1>4. CASE n = q
  <2>1. s = <<>>
    BY <1>1, <1>4
  <2>2. ~ (b + 1 <= Len(Written(w)))
    <3>1. b + 1 <= Len(Written(w)) => LineEnd(b) + 2 <= Len(files[w])
      BY <1>2
    <3>. QED BY <1>1, <1>3, <1>4, <3>1 DEF Begins
  <2>3. b = Len(Written(w))
    BY <1>2, <2>2
  <2>4. Between(w, b, b) = <<>>
    BY DEF Between
  <2>. QED BY <2>1, <2>3, <2>4, NothingRead DEF Hands
<1>5. CASE n # q
  <2>1. n = Len(files[w]) /\ q < n
    BY <1>5
  <2>2. /\ s \in Seq(Cell) /\ Len(s) = n - q /\ \A i \in 1..Len(s) : s[i] = files[w][q + i]
    <3>1. q <= n /\ n <= Len(files[w]) /\ files[w] \in Seq(Cell)
      BY <1>1, <2>1
    <3>2. /\ SubSeq(files[w], q + 1, n) \in Seq(Cell) /\ Len(SubSeq(files[w], q + 1, n)) = n - q
          /\ \A i \in 1..(n - q) : SubSeq(files[w], q + 1, n)[i] = files[w][q + i]
      BY ONLY <3>1, q \in Nat, n \in Nat, PartIs
    <3>3. s \in Seq(Cell) /\ Len(s) = n - q /\ \A i \in 1..(n - q) : s[i] = files[w][q + i]
      BY ONLY <3>2, s = SubSeq(files[w], q + 1, n)
    <3>. QED BY ONLY <3>3
  <2>3. LineEnd(b) <= q + Len(s) /\ q + Len(s) = n
    BY <1>3, <2>1, <2>2 DEF Begins
  <2>4. PICK r : LinesOf(s, q) = Handed(r) /\ Reading(w, b, q + Len(s), r)
    BY <2>1, <2>2, <2>3, HandedAt
  <2>5. PICK m \in Nat : /\ m >= b /\ Hands(w, b, m, n, Handed(r))
                         /\ \A i \in Nat : i + 1 <= m <=> LineEnd(i) + 2 <= n
    <3>1. q + Len(s) = n /\ n \in Nat
      BY <2>3
    <3>2. Reading(w, b, n, r)
      BY ONLY <2>4, <3>1
    <3>. QED BY ONLY IsPad, b \in Nat, <3>1, <3>2, HandedIs
  <2>6. m = Len(Written(w))
    <3>1. \A i \in Nat : i + 1 <= m <=> i + 1 <= Len(Written(w))
      BY <1>2, <2>1, <2>5
    <3>2. Len(Written(w)) \in Nat
      BY <1>2
    <3>3. Len(Written(w)) + 1 <= m <=> Len(Written(w)) + 1 <= Len(Written(w))
      BY <3>1, <3>2
    <3>4. m + 1 <= m <=> m + 1 <= Len(Written(w))
      BY <3>1
    <3>. QED BY <3>2, <3>3, <3>4
  <2>. QED BY <2>4, <2>5, <2>6
<1>. QED BY <1>4, <1>5

-----------------------------------------------------------------------------
(* A pass ends.                                                            *)

LEMMA OpenIs ==
    ASSUME NEW r, IsReader(r), NEW pass, NEW offset
    PROVE  /\ IsReader(Open(r, pass, offset)) /\ Open(r, pass, offset).pc = pass
           /\ Open(r, pass, offset).pos = offset /\ Open(r, pass, offset).start = offset
           /\ Open(r, pass, offset).base = 0 /\ Open(r, pass, offset).buf = <<>>
           /\ Open(r, pass, offset).tail = r.tail /\ Open(r, pass, offset).got = r.got
           /\ Open(r, pass, offset).shown = r.shown /\ Open(r, pass, offset).whole = r.whole
<1>1. DOMAIN r = {"pc", "pos", "start", "base", "buf", "tail", "got", "sub", "shown", "whole", "before"}
  BY DEF IsReader, NoReader
<1>. QED BY <1>1 DEF Open, IsReader, NoReader

LEMMA OpenBuffered ==
    ASSUME NEW r, IsReader(r), NEW pass, NEW offset \in Nat, Lined(WireOf(pass))
    PROVE  Buffered(Open(r, pass, offset))
<1>. DEFINE t == Open(r, pass, offset)
<1>1. t.pc = pass /\ t.pos = offset /\ t.start = offset /\ t.base = 0 /\ t.buf = <<>>
  BY OpenIs
<1>. HIDE DEF t
<1>2. SubSeq(files[WireOf(pass)], offset + 0 + 1, offset) = <<>>
  BY DEF Lined
<1>3. Buffered(t)
  BY <1>1, <1>2 DEF Buffered
<1>. QED BY <1>3 DEF t

LEMMA WireIs == ASSUME LogFileInv, NEW pass PROVE WireOf(pass) \in Wires /\ Lined(WireOf(pass))
BY DEF WireOf, Wires, LogFileInv

LEMMA MainFacts ==
    ASSUME LogFileInv
    PROVE  /\ IsPad /\ Lined("main") /\ Len(Written("main")) \in Nat
           /\ Written("main") = First("main", Len(Written("main")))
           /\ \A i \in Nat : i + 1 <= Len(Written("main")) <=> LineEnd(i) + 2 <= Len(files["main"])
<1>1. IsPad /\ Lined("main")
  BY DEF LogFileInv, Wires
<1>. QED BY <1>1, WrittenIs

LEMMA NoneFirst ==
    ASSUME IsPad
    PROVE  First("main", 0) = <<>> /\ LastUser(<<>>) = 0 /\ TailAfter(<<>>) = 0 /\ LineEnd(0) = 0
<1>1. First("main", 0) = <<>>
  BY DEF First
<1>2. LastUser(First("main", 0)) \in 0..0
  BY LastUserIs
<1>. QED BY <1>1, <1>2, LineEnds DEF TailAfter

LEMMA TailBegins ==
    ASSUME IsPad, NEW k \in Nat
    PROVE  /\ LastUser(First("main", k)) \in 0..k /\ TailAfter(First("main", k)) \in Nat
           /\ Begins(TailAfter(First("main", k)), LastUser(First("main", k)))
<1>. DEFINE u == LastUser(First("main", k))
<1>1. u \in 0..k
  BY LastUserIs
<1>2. TailAfter(First("main", k)) = IF u = 0 THEN 0 ELSE LineEnd(u) - pad
  BY DEF TailAfter
<1>. HIDE DEF u
<1>3. LineEnd(0) = 0 /\ LineEnd(u) \in Nat
  BY <1>1, LineEnds
<1>4. u > 0 => LineEnd(u) >= 3 + pad
  <2>1. u > 0 => LineEnd(0) + 3 + pad <= LineEnd(u)
    BY <1>1, LineEnds
  <2>. QED BY <1>3, <2>1 DEF IsPad
<1>5. CASE u = 0
  BY <1>1, <1>2, <1>3, <1>5 DEF Begins, u
<1>6. CASE u > 0
  <2>1. TailAfter(First("main", k)) = LineEnd(u) - pad
    BY <1>2, <1>6
  <2>2. LineEnd(u) - pad \in Nat /\ Begins(LineEnd(u) - pad, u)
    BY <1>3, <1>4, <1>6 DEF Begins, IsPad
  <2>. QED BY <1>1, <2>1, <2>2 DEF u
<1>. QED BY <1>1, <1>5, <1>6

LEMMA EndPassOk ==
    ASSUME LogFileInv, NEW r, IsReader(r), r.whole \in Nat, r.whole <= Len(Written("main")),
           r.pc \in {"guard", "scan", "tail", "sub"},
           r.pc = "guard" => kind \in {"claude", "pi"} /\ r.got = <<>> /\ r.shown = <<>> /\ r.tail = 0,
           r.pc = "scan" => /\ kind \in {"claude", "pi", "codex", "kimi"} /\ r.shown = <<>>
                            /\ r.got = First("main", Len(Written("main")))
                            /\ r.tail = TailAfter(First("main", Len(Written("main")))),
           r.pc = "tail" => /\ kind \in {"claude", "pi"} /\ Scan(r)
                            /\ r.shown = SubSeq(First("main", Len(Written("main"))), LastUser(r.got) + 1,
                                                Len(Written("main"))),
           r.pc = "sub" => kind = "kimi" /\ Scan(r)
    PROVE  ReadOk(EndPass(r))
<1>. DEFINE n == Len(Written("main"))
            offset == IF NextPass(r.pc) = "tail" THEN r.tail ELSE 0
            t == Open(r, NextPass(r.pc), offset)
<1>1. EndPass(r) = t
  BY DEF EndPass
<1>2. /\ IsReader(t) /\ t.pc = NextPass(r.pc) /\ t.start = offset /\ t.base = 0
      /\ t.tail = r.tail /\ t.got = r.got /\ t.shown = r.shown /\ t.whole = r.whole
  BY OpenIs
<1>3. IsPad /\ n \in Nat /\ Lined("main")
  BY MainFacts
<1>4. ASSUME offset \in Nat PROVE Buffered(t)
  BY <1>4, WireIs, OpenBuffered
<1>. HIDE DEF n, offset, t
<1>5. CASE r.pc = "guard"
  <2>1. NextPass(r.pc) = "scan" /\ offset = 0
    BY <1>5 DEF NextPass, offset
  <2>2. Scanned(t)
    <3>1. 0 \in Nat /\ 0 <= n /\ t.base = LineEnd(0) /\ t.got = First("main", 0)
          /\ t.tail = TailAfter(First("main", 0)) /\ t.start = 0 /\ t.shown = <<>>
      BY <1>2, <1>3, <1>5, <2>1, NoneFirst
    <3>. QED BY <3>1 DEF Scanned, n
  <2>3. t.pc = "scan" /\ Buffered(t)
    BY <1>2, <1>4, <2>1
  <2>. QED BY <1>1, <1>2, <1>5, <2>2, <2>3 DEF ReadOk
<1>6. CASE r.pc = "scan" /\ kind \in {"claude", "pi"}
  <2>1. NextPass(r.pc) = "tail" /\ offset = r.tail
    BY <1>6 DEF NextPass, offset
  <2>. DEFINE u == LastUser(First("main", n))
  <2>2. t.got = First("main", n) /\ offset = TailAfter(First("main", n))
    BY <1>2, <1>6, <2>1 DEF n
  <2>3. u \in 0..n /\ offset \in Nat /\ Begins(offset, u)
    BY <1>3, <2>2, TailBegins
  <2>4. Scan(t)
    BY <1>2, <1>3, <2>2 DEF Scan, Passed, n
  <2>5. LastUser(t.got) = u
    BY <2>2
  <2>. HIDE DEF u
  <2>6. Tailed(t)
    <3>1. SubSeq(First("main", u), u + 1, u) = <<>>
      BY <2>3 DEF First
    <3>2. t.start + t.base = offset
      BY <1>2, <2>3
    <3>3. u \in Nat /\ u <= u /\ u <= n
      BY ONLY <1>3, <2>3
    <3>4. t.shown = SubSeq(First("main", u), u + 1, u)
      <4>1. t.shown = <<>>
        BY <1>2, <1>6
      <4>. QED BY ONLY <3>1, <4>1
    <3>. QED BY <2>3, <2>4, <2>5, <3>2, <3>3, <3>4 DEF Tailed, n
  <2>7. t.pc = "tail" /\ Buffered(t)
    BY <1>2, <1>4, <2>1, <2>3
  <2>. QED BY <1>1, <1>2, <1>6, <2>6, <2>7 DEF ReadOk
<1>7. CASE r.pc = "scan" /\ kind \notin {"claude", "pi"}
  <2>1. NextPass(r.pc) = (IF kind = "kimi" THEN "sub" ELSE "done") /\ offset = 0
    BY <1>7 DEF NextPass, offset
  <2>2. Scan(t) /\ Passed(t, n) /\ t.got = First("main", n)
    BY <1>2, <1>3, <1>7 DEF Scan, Passed, n
  <2>3. TellsInv(t)
    BY <1>3, <1>7, <2>2 DEF TellsInv
  <2>4. CASE kind = "kimi"
    <3>1. t.pc = "sub" /\ Buffered(t)
      BY <1>2, <1>4, <2>1, <2>4
    <3>. QED BY <1>1, <1>2, <2>2, <2>4, <3>1 DEF ReadOk
  <2>5. CASE kind # "kimi"
    <3>1. t.pc = "done"
      BY <1>2, <2>1, <2>5
    <3>. QED BY <1>1, <1>2, <2>3, <3>1 DEF ReadOk
  <2>. QED BY <2>4, <2>5
<1>8. CASE r.pc = "tail"
  <2>1. NextPass(r.pc) = "done"
    BY <1>8 DEF NextPass
  <2>2. Scan(t) /\ Passed(t, n)
    BY <1>2, <1>3, <1>8 DEF Scan, Passed, n
  <2>3. t.shown = SubSeq(First("main", n), LastUser(t.got) + 1, n)
    BY <1>2, <1>8 DEF n
  <2>4. TellsInv(t)
    BY <1>3, <1>8, <2>2, <2>3 DEF TellsInv
  <2>5. t.pc = "done"
    BY <1>2, <2>1
  <2>. QED BY <1>1, <1>2, <2>4, <2>5 DEF ReadOk
<1>9. CASE r.pc = "sub"
  <2>1. NextPass(r.pc) = "done"
    BY <1>9 DEF NextPass
  <2>2. Scan(t)
    BY <1>2, <1>9 DEF Scan, Passed
  <2>3. TellsInv(t)
    <3>1. kind = "kimi"
      BY <1>9
    <3>. QED BY <2>2, <3>1 DEF TellsInv, Scan
  <2>4. t.pc = "done"
    BY <1>2, <2>1
  <2>. QED BY <1>1, <1>2, <2>3, <2>4 DEF ReadOk
<1>. QED BY <1>5, <1>6, <1>7, <1>8, <1>9

-----------------------------------------------------------------------------
(* A read.                                                                 *)

LEMMA TakeKept ==
    ASSUME NEW r, IsReader(r), NEW handed, Len(handed) \in Nat
    PROVE  OnlyCollects(r, Take(r, handed))
<1>1. PICK taken : /\ Take(r, handed) = taken[Len(handed)]
                   /\ taken[0] = r
                   /\ \A n \in 1..Len(handed) : taken[n] = TakeLine(taken[n - 1], handed[n])
  BY TakeSteps
<1>. DEFINE T == {n \in Nat : n <= Len(handed) => OnlyCollects(r, taken[n])}
<1>2. 0 \in T
  BY <1>1 DEF OnlyCollects
<1>3. ASSUME NEW n \in Nat, n \in T PROVE n + 1 \in T
  <2>. SUFFICES ASSUME n + 1 <= Len(handed) PROVE OnlyCollects(r, taken[n + 1])
    OBVIOUS
  <2>1. n + 1 \in 1..Len(handed) /\ n + 1 - 1 = n
    OBVIOUS
  <2>2. taken[n + 1] = TakeLine(taken[n], handed[n + 1])
    BY <1>1, <2>1
  <2>3. OnlyCollects(r, taken[n]) /\ IsReader(taken[n])
    BY <1>3, <2>1 DEF OnlyCollects
  <2>4. OnlyCollects(taken[n], TakeLine(taken[n], handed[n + 1]))
    BY <2>3, TakeLineIs
  <2>. QED BY <2>2, <2>3, <2>4, KeptAgain
<1>4. Len(handed) \in T
  <2>. HIDE DEF T
  <2>1. \A n \in Nat : n \in T
    BY ONLY <1>2, <1>3, Induct
  <2>. QED BY <2>1
<1>. QED BY <1>1, <1>4

LEMMA MinOfTwo ==
    ASSUME NEW a \in Nat, NEW b \in Nat
    PROVE  Min({a, b}) = IF a <= b THEN a ELSE b
<1>1. \E x \in {a, b} : \A y \in {a, b} : x <= y
  OBVIOUS
<1>2. Min({a, b}) \in {a, b} /\ \A y \in {a, b} : Min({a, b}) <= y
  BY <1>1 DEF Min
<1>. QED BY <1>2

(* The lines whose end was read are handed on, the rest stays in the       *)
(* buffer.                                                                 *)
Move(r, n, buf, cut) == [r EXCEPT !.pos = n, !.buf = SubSeq(buf, cut + 1, Len(buf)), !.base = @ + cut]

LEMMA MoveIs ==
    ASSUME NEW r, IsReader(r), NEW n, NEW buf, NEW cut, NEW t, t = Move(r, n, buf, cut)
    PROVE  /\ IsReader(t) /\ t.pc = r.pc /\ t.pos = n /\ t.start = r.start /\ t.base = r.base + cut
           /\ t.buf = SubSeq(buf, cut + 1, Len(buf)) /\ t.tail = r.tail /\ t.got = r.got
           /\ t.shown = r.shown /\ t.whole = r.whole
<1>1. DOMAIN r = {"pc", "pos", "start", "base", "buf", "tail", "got", "sub", "shown", "whole", "before"}
  BY DEF IsReader, NoReader
<1>. DEFINE b == SubSeq(buf, cut + 1, Len(buf))
            c == r.base + cut
<1>2. t = [r EXCEPT !.pos = n, !.buf = b, !.base = c]
  BY <1>1 DEF Move
<1>. HIDE DEF b, c
<1>3. /\ IsReader(t) /\ t.pc = r.pc /\ t.pos = n /\ t.start = r.start /\ t.base = c
      /\ t.buf = b /\ t.tail = r.tail /\ t.got = r.got /\ t.shown = r.shown /\ t.whole = r.whole
  BY <1>1, <1>2 DEF IsReader, NoReader
<1>. QED BY <1>3 DEF b, c

LEMMA Segment ==
    ASSUME NEW S, NEW f \in Seq(S), NEW q \in Nat, NEW n \in Nat, q <= n, n <= Len(f),
           NEW buf, buf = SubSeq(f, q + 1, n)
    PROVE  /\ buf \in Seq(S) /\ Len(buf) = n - q /\ \A i \in 1..Len(buf) : buf[i] = f[q + i]
           /\ \A c \in 0..Len(buf) :
                /\ q + c <= n /\ SubSeq(buf, c + 1, Len(buf)) = SubSeq(f, q + c + 1, n)
                /\ c > 0 => /\ SubSeq(buf, 1, c - 1) = SubSeq(f, q + 1, q + c - 1)
                            /\ SubSeq(buf, 1, c - 1) \in Seq(S)
<1>1. /\ buf \in Seq(S) /\ Len(buf) = n - q /\ \A i \in 1..Len(buf) : buf[i] = f[q + i]
  OBVIOUS
<1>2. ASSUME NEW c \in 0..Len(buf)
      PROVE  q + c <= n /\ SubSeq(buf, c + 1, Len(buf)) = SubSeq(f, q + c + 1, n)
  BY <1>1
<1>3. ASSUME NEW c \in 0..Len(buf), c > 0
      PROVE  /\ SubSeq(buf, 1, c - 1) = SubSeq(f, q + 1, q + c - 1)
             /\ SubSeq(buf, 1, c - 1) \in Seq(S)
  BY <1>1
<1>. QED BY <1>1, <1>2, <1>3

LEMMA MoveReads ==
    ASSUME LogFileInv, NEW r, ReadOk(r), r.pc \in {"guard", "scan", "tail", "sub"},
           NEW n \in Nat, r.pos < n, n <= Len(files[WireOf(r.pc)]),
           NEW buf, buf = SubSeq(files[WireOf(r.pc)], r.start + r.base + 1, n),
           NEW cut, cut \in 0..Len(buf), cut > 0 => buf[cut] = NL,
           NEW handed, handed = IF cut = 0 THEN <<>>
                                ELSE LinesOf(SubSeq(buf, 1, cut - 1), r.start + r.base)
    PROVE  ReadOk(Take(Move(r, n, buf, cut), handed))
<1>. DEFINE w == WireOf(r.pc)
            q == r.start + r.base
            v == Move(r, n, buf, cut)
            t == Take(v, handed)
<1>1. Lined(w) /\ IsPad /\ files[w] \in Seq(Cell) /\ Len(files[w]) \in Nat
  BY WireIs DEF LogFileInv, Lined
<1>2. /\ r.pos \in Nat /\ r.start \in Nat /\ r.base \in Nat /\ q <= r.pos /\ q \in Nat /\ IsReader(r)
      /\ r.whole \in Nat /\ r.whole <= Len(Written("main"))
  <2>1. Buffered(r)
    BY DEF ReadOk
  <2>2. IsReader(r) /\ r.whole \in Nat /\ r.whole <= Len(Written("main"))
    BY DEF ReadOk
  <2>3. r.pos \in Nat /\ r.start \in Nat /\ r.base \in Nat /\ r.start + r.base <= r.pos
    BY <2>1 DEF Buffered
  <2>. QED BY ONLY <2>2, <2>3
<1>20. /\ q <= n /\ n <= Len(files[w]) /\ buf = SubSeq(files[w], q + 1, n)
       /\ handed = IF cut = 0 THEN <<>> ELSE LinesOf(SubSeq(buf, 1, cut - 1), q)
  BY <1>2
<1>21. /\ r.pc = "scan" \/ r.pc = "tail" => w = "main"
       /\ w = WireOf(r.pc) /\ q = r.start + r.base
  BY DEF WireOf
<1>. HIDE DEF w, q
<1>3. /\ buf \in Seq(Cell) /\ Len(buf) = n - q /\ \A i \in 1..Len(buf) : buf[i] = files[w][q + i]
      /\ q + cut <= n /\ SubSeq(buf, cut + 1, Len(buf)) = SubSeq(files[w], q + cut + 1, n)
      /\ cut > 0 => /\ SubSeq(buf, 1, cut - 1) = SubSeq(files[w], q + 1, q + cut - 1)
                    /\ SubSeq(buf, 1, cut - 1) \in Seq(Cell)
  <2>1. /\ buf \in Seq(Cell) /\ Len(buf) = n - q /\ \A i \in 1..Len(buf) : buf[i] = files[w][q + i]
        /\ \A c \in 0..Len(buf) :
                /\ q + c <= n /\ SubSeq(buf, c + 1, Len(buf)) = SubSeq(files[w], q + c + 1, n)
                /\ c > 0 => /\ SubSeq(buf, 1, c - 1) = SubSeq(files[w], q + 1, q + c - 1)
                            /\ SubSeq(buf, 1, c - 1) \in Seq(Cell)
    <3>1. files[w] \in Seq(Cell) /\ q \in Nat /\ n \in Nat /\ q <= n
      BY ONLY <1>1, <1>2, <1>20, n \in Nat
    <3>2. n <= Len(files[w]) /\ buf = SubSeq(files[w], q + 1, n)
      BY ONLY <1>20
    <3>3. n \in Nat
      OBVIOUS
    <3>. QED BY ONLY <3>1, <3>2, <3>3, Segment
  <2>. QED BY ONLY <2>1, cut \in 0..Len(buf)
<1>4. cut \in Nat /\ (cut > 0 => files[w][q + cut] = NL)
  <2>1. Len(buf) \in Nat
    BY <1>3
  <2>2. cut \in Nat /\ (cut > 0 => cut \in 1..Len(buf))
    BY ONLY <2>1, cut \in 0..Len(buf)
  <2>. QED BY ONLY <1>3, <2>2, cut > 0 => buf[cut] = NL
<1>7. Len(handed) \in Nat
  <2>1. CASE cut = 0
    BY <1>20, <2>1
  <2>2. CASE cut > 0
    <3>1. handed = LinesOf(SubSeq(buf, 1, cut - 1), q)
      BY <1>20, <2>2
    <3>. QED BY <1>2, <1>3, <2>2, <3>1, LinesOfType
  <2>. QED BY <1>4, <2>1, <2>2
<1>8. /\ IsReader(v) /\ v.pc = r.pc /\ v.pos = n /\ v.start = r.start /\ v.base = r.base + cut
      /\ v.buf = SubSeq(files[w], q + cut + 1, n) /\ v.tail = r.tail /\ v.got = r.got
      /\ v.shown = r.shown /\ v.whole = r.whole
  <2>1. v = Move(r, n, buf, cut)
    OBVIOUS
  <2>. HIDE DEF v
  <2>2. /\ IsReader(v) /\ v.pc = r.pc /\ v.pos = n /\ v.start = r.start /\ v.base = r.base + cut
        /\ v.buf = SubSeq(buf, cut + 1, Len(buf)) /\ v.tail = r.tail /\ v.got = r.got
        /\ v.shown = r.shown /\ v.whole = r.whole
    <3>1. IsReader(r)
      BY <1>2
    <3>. QED BY ONLY <2>1, <3>1, MoveIs
  <2>. QED BY ONLY <1>3, <2>2
<1>9. Buffered(v)
  <2>1. v.start + v.base = q + cut /\ v.base \in Nat
    <3>1. v.start = r.start /\ v.base = r.base + cut
      BY <1>8
    <3>. QED BY ONLY <1>2, <1>4, <1>21, <3>1
  <2>2. v.pos = n /\ v.start \in Nat /\ w = WireOf(v.pc) /\ v.buf = SubSeq(files[w], q + cut + 1, n)
    BY <1>2, <1>8, <1>21
  <2>. HIDE DEF v
  <2>. QED BY <1>3, <1>20, <2>1, <2>2 DEF Buffered
<1>10. OnlyCollects(v, t)
  BY <1>7, <1>8, TakeKept
<1>. HIDE DEF v, t
<1>11. /\ IsReader(t) /\ t.pc = r.pc /\ t.whole = r.whole /\ t.start = r.start /\ t.base = r.base + cut
       /\ r.pc # "scan" => t.got = r.got /\ t.tail = r.tail
       /\ r.pc # "tail" => t.shown = r.shown
  BY <1>8, <1>10 DEF OnlyCollects
<1>12. Buffered(t)
  BY <1>9, <1>10 DEF OnlyCollects, Buffered
<1>13. ASSUME NEW b \in Nat, Begins(q, b), b <= Len(Written(w))
       PROVE  \E m \in Nat : /\ b <= m /\ m <= Len(Written(w)) /\ Begins(q + cut, m)
                             /\ cut = 0 => m = b
                             /\ cut > 0 => q + cut = LineEnd(m)
                             /\ \E e \in Nat : Hands(w, b, m, e, handed)
  <2>1. CASE cut = 0
    <3>1. Between(w, b, b) = <<>>
      BY DEF Between
    <3>2. Hands(w, b, b, 0, handed)
      BY <1>20, <2>1, <3>1 DEF Hands
    <3>3. q + cut = q
      BY <1>2, <2>1
    <3>. QED BY <1>13, <2>1, <3>2, <3>3
  <2>2. CASE cut > 0
    <3>1. handed = LinesOf(TextTo(w, q, cut), q)
      <4>1. cut # 0
        BY ONLY <1>4, <2>2
      <4>2. SubSeq(buf, 1, cut - 1) = TextTo(w, q, cut)
        BY ONLY <1>3, <2>2, Zenon DEF TextTo
      <4>. QED BY ONLY <1>20, <4>1, <4>2
    <3>2. PICK m \in Nat : /\ b <= m /\ m <= Len(Written(w)) /\ q + cut = LineEnd(m)
                           /\ Hands(w, b, m, LineEnd(m) - 1, LinesOf(TextTo(w, q, cut), q))
      <4>1. IsPad /\ Lined(w) /\ q \in Nat /\ Begins(q, b)
        BY ONLY <1>1, <1>2, <1>13
      <4>2. q + cut <= Len(files[w])
        BY ONLY <1>1, <1>2, <1>3, <1>4, <1>20, n \in Nat
      <4>3. EndsAfter(w, q, cut)
        BY ONLY <1>4, <2>2, <4>2 DEF EndsAfter
      <4>. QED BY ONLY <4>1, <4>3, b \in Nat, ChunkReads, Zenon
    <3>3. LineEnd(m) - 1 \in Nat
      BY ONLY <1>2, <1>4, <2>2, <3>2
    <3>4. Begins(q + cut, m)
      BY <3>2 DEF Begins
    <3>. QED BY <2>2, <3>1, <3>2, <3>3, <3>4
  <2>. QED BY <1>4, <2>1, <2>2
<1>14. CASE r.pc = "guard"
  <2>1. kind \in {"claude", "pi"} /\ r.got = <<>> /\ r.shown = <<>> /\ r.tail = 0
    BY <1>14 DEF ReadOk
  <2>2. ReadOk(t)
    BY <1>2, <1>11, <1>12, <1>14, <2>1 DEF ReadOk
  <2>. QED BY <2>2 DEF t, v
<1>15. CASE r.pc = "sub"
  <2>1. kind = "kimi" /\ Scan(r)
    BY <1>15 DEF ReadOk
  <2>2. Scan(t)
    BY <1>11, <1>15, <2>1 DEF Scan, Passed
  <2>3. ReadOk(t)
    BY <1>2, <1>11, <1>12, <1>15, <2>1, <2>2 DEF ReadOk
  <2>. QED BY <2>3 DEF t, v
<1>16. CASE r.pc = "scan"
  <2>0. w = "main"
    BY <1>16, <1>21
  <2>1. kind \in {"claude", "pi", "codex", "kimi"} /\ r.start = 0 /\ r.shown = <<>>
    BY <1>16 DEF ReadOk, Scanned
  <2>2. PICK k \in Nat : /\ k <= Len(Written("main")) /\ r.base = LineEnd(k)
                         /\ r.got = First("main", k) /\ r.tail = TailAfter(First("main", k))
    BY <1>16 DEF ReadOk, Scanned
  <2>3. Begins(q, k) /\ q = r.base
    BY <1>2, <1>21, <2>1, <2>2 DEF Begins
  <2>4. PICK m \in Nat : /\ k <= m /\ m <= Len(Written("main")) /\ (cut = 0 => m = k)
                         /\ (cut > 0 => q + cut = LineEnd(m))
                         /\ \E e \in Nat : Hands("main", k, m, e, handed)
    BY <1>13, <2>0, <2>2, <2>3
  <2>5. \A i \in Nat : i + 1 <= m => LineEnd(i) + 2 <= Len(files["main"])
    BY <2>4, MainFacts
  <2>6. t.got = First("main", m) /\ t.tail = TailAfter(First("main", m))
    <3>1. v.pc = "scan" /\ v.got = First("main", k) /\ v.tail = TailAfter(First("main", k))
      BY <1>8, <1>16, <2>2
    <3>2. PICK e \in Nat : Hands("main", k, m, e, handed)
      BY <2>4
    <3>3. IsPad /\ Lined("main") /\ k <= m /\ IsReader(v)
      BY <1>8, <2>4, MainFacts
    <3>4. k \in Nat /\ m \in Nat
      OBVIOUS
    <3>6. AllButNewline("main", m)
      BY ONLY <2>5 DEF AllButNewline
    <3>5. Collects("main", k, m, v, Take(v, handed))
      BY ONLY <3>2, <3>3, <3>4, <3>6, TakeHands, Zenon
    <3>. QED BY ONLY <3>1, <3>5 DEF t, Collects
  <2>7. t.base = LineEnd(m)
    BY <1>2, <1>4, <1>11, <2>2, <2>3, <2>4
  <2>8. Scanned(t)
    BY <1>11, <1>16, <2>1, <2>4, <2>6, <2>7 DEF Scanned
  <2>9. ReadOk(t)
    BY <1>2, <1>11, <1>12, <1>16, <2>1, <2>8 DEF ReadOk
  <2>. QED BY <2>9 DEF t, v
<1>17. CASE r.pc = "tail"
  <2>0. w = "main"
    BY <1>17, <1>21
  <2>1. kind \in {"claude", "pi"} /\ Scan(r)
    BY <1>17 DEF ReadOk, Tailed
  <2>. DEFINE u == LastUser(r.got)
  <2>2. PICK k \in Nat : /\ u <= k /\ k <= Len(Written("main")) /\ Begins(q, k)
                         /\ r.shown = SubSeq(First("main", k), u + 1, k)
    BY <1>17, <1>21 DEF ReadOk, Tailed
  <2>3. u \in Nat
    <3>1. PICK g \in Nat : r.got = First("main", g)
      BY <2>1 DEF Scan
    <3>. QED BY <3>1, LastUserIs
  <2>. HIDE DEF u
  <2>4. PICK m \in Nat : /\ k <= m /\ m <= Len(Written("main")) /\ Begins(q + cut, m)
                         /\ \E e \in Nat : Hands("main", k, m, e, handed)
    BY <1>13, <2>0, <2>2
  <2>5. \A i \in Nat : i + 1 <= m => LineEnd(i) + 2 <= Len(files["main"])
    BY <2>4, MainFacts
  <2>6. t.shown = SubSeq(First("main", m), u + 1, m)
    <3>1. v.pc = "tail" /\ v.shown = SubSeq(First("main", k), u + 1, k) /\ u \in 0..k
      BY <1>8, <1>17, <2>2, <2>3
    <3>2. PICK e \in Nat : Hands("main", k, m, e, handed)
      BY <2>4
    <3>3. IsPad /\ Lined("main") /\ k <= m /\ IsReader(v)
      BY <1>8, <2>4, MainFacts
    <3>4. k \in Nat /\ m \in Nat
      OBVIOUS
    <3>6. AllButNewline("main", m)
      BY ONLY <2>5 DEF AllButNewline
    <3>5. Collects("main", k, m, v, Take(v, handed))
      BY ONLY <3>2, <3>3, <3>4, <3>6, TakeHands, Zenon
    <3>. QED BY ONLY <3>1, <3>5 DEF t, Collects
  <2>7. t.start + t.base = q + cut /\ LastUser(t.got) = u
    <3>1. t.start = r.start /\ t.base = r.base + cut /\ t.got = r.got
      BY <1>11, <1>17
    <3>2. t.start + t.base = q + cut
      BY ONLY <1>2, <1>4, <1>21, <3>1
    <3>. QED BY <3>1, <3>2 DEF u
  <2>8. Scan(t)
    BY <1>11, <1>17, <2>1 DEF Scan, Passed
  <2>9. Tailed(t)
    <3>1. u <= m
      BY <2>2, <2>3, <2>4
    <3>. QED BY <2>4, <2>6, <2>7, <2>8, <3>1 DEF Tailed
  <2>10. ReadOk(t)
    BY <1>2, <1>11, <1>12, <1>17, <2>1, <2>9 DEF ReadOk
  <2>. QED BY <2>10 DEF t, v
<1>. QED BY <1>14, <1>15, <1>16, <1>17

LEMMA EndMoves ==
    ASSUME LogFileInv, NEW r, ReadOk(r), r.pc \in {"guard", "scan", "tail", "sub"},
           Len(files[WireOf(r.pc)]) <= r.pos,
           NEW handed, handed = LinesOf(r.buf, r.start + r.base)
    PROVE  ReadOk(EndPass(Take(r, handed)))
<1>. DEFINE w == WireOf(r.pc)
            q == r.start + r.base
            t == Take(r, handed)
            n == Len(Written("main"))
<1>1. Lined(w) /\ IsPad /\ files[w] \in Seq(Cell) /\ Len(files[w]) \in Nat
  BY WireIs DEF LogFileInv, Lined
<1>2. IsReader(r) /\ r.whole \in Nat /\ r.whole <= n
  BY DEF ReadOk
<1>3. /\ r.pos \in Nat /\ r.start \in Nat /\ r.base \in Nat /\ q <= r.pos
      /\ r.buf = SubSeq(files[w], q + 1, r.pos)
      /\ r.pos <= Len(files[w]) \/ (r.pos = r.start /\ r.base = 0)
  BY DEF ReadOk, Buffered
<1>4. q \in Nat /\ (r.pos = Len(files[w]) \/ r.pos = q) /\ r.pos >= Len(files[w])
  <2>1. Len(files[w]) <= r.pos
    OBVIOUS
  <2>. QED BY ONLY <1>1, <1>3, <2>1
<1>5. /\ handed = LinesOf(r.buf, q) /\ w = WireOf(r.pc) /\ q = r.start + r.base
      /\ r.pc = "scan" \/ r.pc = "tail" => w = "main"
  BY DEF WireOf
<1>6. IsPad /\ Lined("main") /\ n \in Nat /\ AllButNewline("main", n)
  BY MainFacts DEF AllButNewline
<1>. HIDE DEF w, q, n
<1>7. r.buf \in Seq(Cell)
  <2>1. CASE r.pos = q
    <3>1. r.buf = <<>>
      BY ONLY <1>1, <1>3, <1>4, <2>1
    <3>. QED BY <3>1
  <2>2. CASE r.pos = Len(files[w])
    BY ONLY <1>1, <1>3, <1>4, <2>2
  <2>. QED BY <1>4, <2>1, <2>2
<1>8. Len(handed) \in Nat
  BY ONLY <1>4, <1>5, <1>7, LinesOfType
<1>9. OnlyCollects(r, t)
  BY <1>2, <1>8, TakeKept
<1>10. /\ IsReader(t) /\ t.pc = r.pc /\ t.whole = r.whole
       /\ r.pc # "scan" => t.got = r.got /\ t.tail = r.tail
       /\ r.pc # "tail" => t.shown = r.shown
  BY <1>9 DEF OnlyCollects
<1>11. ASSUME NEW b \in Nat, Begins(q, b), b <= n, w = "main"
       PROVE  Collects("main", b, n, r, t)
  <2>1. \E e \in Nat : Hands(w, b, Len(Written(w)), e, LinesOf(r.buf, q))
    <3>1. b <= Len(Written(w))
      BY <1>11 DEF n
    <3>2. IsPad /\ Lined(w) /\ q \in Nat /\ Begins(q, b) /\ r.pos \in Nat /\ q <= r.pos
          /\ r.pos >= Len(files[w]) /\ r.buf = SubSeq(files[w], q + 1, r.pos)
      BY ONLY <1>1, <1>3, <1>4, <1>11
    <3>3. r.pos = Len(files[w]) \/ r.pos = q
      BY ONLY <1>4
    <3>. QED BY ONLY <3>1, <3>2, <3>3, b \in Nat, EndReads, Zenon
  <2>2. PICK e \in Nat : Hands("main", b, n, e, handed)
    BY <1>5, <1>11, <2>1 DEF n
  <2>3. Collects("main", b, n, r, Take(r, handed))
    BY ONLY <1>2, <1>6, <1>11, <2>2, b \in Nat, TakeHands, Zenon
  <2>. QED BY <2>3
<1>. HIDE DEF t
<1>12. CASE r.pc = "guard"
  <2>1. kind \in {"claude", "pi"} /\ r.got = <<>> /\ r.shown = <<>> /\ r.tail = 0
    BY <1>12 DEF ReadOk
  <2>2. ReadOk(EndPass(t))
    BY <1>2, <1>10, <1>12, <2>1, EndPassOk DEF n
  <2>. QED BY <2>2 DEF t
<1>13. CASE r.pc = "sub"
  <2>1. kind = "kimi" /\ Scan(r)
    BY <1>13 DEF ReadOk
  <2>2. Scan(t)
    BY <1>10, <1>13, <2>1 DEF Scan, Passed
  <2>3. ReadOk(EndPass(t))
    BY <1>2, <1>10, <1>13, <2>1, <2>2, EndPassOk DEF n
  <2>. QED BY <2>3 DEF t
<1>14. CASE r.pc = "scan"
  <2>1. kind \in {"claude", "pi", "codex", "kimi"} /\ r.start = 0 /\ r.shown = <<>>
    BY <1>14 DEF ReadOk, Scanned
  <2>2. PICK k \in Nat : /\ k <= n /\ r.base = LineEnd(k)
                         /\ r.got = First("main", k) /\ r.tail = TailAfter(First("main", k))
    BY <1>14 DEF ReadOk, Scanned, n
  <2>3. Begins(q, k)
    BY <1>3, <1>5, <2>1, <2>2 DEF Begins
  <2>4. Collects("main", k, n, r, t)
    BY <1>5, <1>11, <1>14, <2>2, <2>3
  <2>5. t.got = First("main", n) /\ t.tail = TailAfter(First("main", n))
    BY <1>14, <2>2, <2>4 DEF Collects
  <2>6. ReadOk(EndPass(t))
    BY <1>2, <1>10, <1>14, <2>1, <2>5, EndPassOk DEF n
  <2>. QED BY <2>6 DEF t
<1>15. CASE r.pc = "tail"
  <2>1. kind \in {"claude", "pi"} /\ Scan(r)
    BY <1>15 DEF ReadOk, Tailed
  <2>. DEFINE u == LastUser(r.got)
  <2>2. PICK k \in Nat : /\ u <= k /\ k <= n /\ Begins(q, k)
                         /\ r.shown = SubSeq(First("main", k), u + 1, k)
    BY <1>5, <1>15 DEF ReadOk, Tailed, n
  <2>3. u \in Nat
    <3>1. PICK g \in Nat : r.got = First("main", g)
      BY <2>1 DEF Scan
    <3>. QED BY <3>1, LastUserIs
  <2>4. Collects("main", k, n, r, t)
    BY <1>5, <1>11, <1>15, <2>2
  <2>5. t.shown = SubSeq(First("main", n), u + 1, n)
    <3>. HIDE DEF u
    <3>1. u \in 0..k
      BY ONLY <2>2, <2>3, k \in Nat
    <3>. QED BY <1>15, <2>2, <2>4, <3>1 DEF Collects
  <2>6. Scan(t) /\ LastUser(t.got) = u
    BY <1>10, <1>15, <2>1 DEF Scan, Passed
  <2>. HIDE DEF u
  <2>7. ReadOk(EndPass(t))
    BY <1>2, <1>10, <1>15, <2>1, <2>5, <2>6, EndPassOk DEF n
  <2>. QED BY <2>7 DEF t
<1>. QED BY <1>12, <1>13, <1>14, <1>15

-----------------------------------------------------------------------------
(* The steps.                                                              *)

LEMMA SameFiles ==
    ASSUME UNCHANGED <<kind, chunkSize, pad, lines, files, unwritten>>
    PROVE  /\ \A k : LineEnd(k)' = LineEnd(k)
           /\ \A w : Written(w)' = Written(w) /\ Lined(w)' = Lined(w)
           /\ \A w, k : First(w, k)' = First(w, k)
           /\ \A ids : LastUser(ids)' = LastUser(ids) /\ TailAfter(ids)' = TailAfter(ids)
<1>1. \A k : LineEnd(k)' = LineEnd(k)
  BY DEF LineEnd
<1>2. \A w : Written(w)' = Written(w)
  BY DEF Written
<1>3. \A w : Lined(w)' = Lined(w)
  BY DEF Lined, LineEnd
<1>4. \A w, k : First(w, k)' = First(w, k)
  BY DEF First, LineEnd
<1>5. \A ids : LastUser(ids)' = LastUser(ids)
  BY DEF LastUser
<1>6. \A ids : TailAfter(ids)' = TailAfter(ids)
  BY DEF TailAfter, LastUser, LineEnd
<1>. QED BY <1>1, <1>2, <1>3, <1>4, <1>5, <1>6

LEMMA ReaderMoves ==
    ASSUME LogFileInv, UNCHANGED <<kind, chunkSize, pad, lines, files, unwritten>>, ReadOk(reader')
    PROVE  LogInv'
<1>1. LogFileInv'
  <2>1. IsPad' /\ chunkSize' = chunkSize /\ IsSeq(lines)' = IsSeq(lines)
    BY DEF LogFileInv, IsPad, IsSeq
  <2>2. \A i : Rests(i)' = Rests(i)
    BY DEF Rests
  <2>3. \A w : Lined(w)' = Lined(w)
    BY SameFiles
  <2>4. \A w : EndsAtLine(w)' = EndsAtLine(w)
    BY DEF EndsAtLine, LineEnd
  <2>. QED BY <2>1, <2>2, <2>3, <2>4 DEF LogFileInv
<1>2. /\ \A k : LineEnd(k)' = LineEnd(k)
      /\ \A w : Written(w)' = Written(w)
      /\ \A w, k : First(w, k)' = First(w, k)
      /\ \A ids : LastUser(ids)' = LastUser(ids) /\ TailAfter(ids)' = TailAfter(ids)
  BY SameFiles
<1>3. IsReader(reader)' = IsReader(reader')
  BY DEF IsReader, NoReader
<1>4. Buffered(reader)' = Buffered(reader')
  BY DEF Buffered, WireOf
<1>5. \A m : Passed(reader, m)' = Passed(reader', m)
  BY <1>2 DEF Passed
<1>6. Scan(reader)' = Scan(reader')
  BY <1>2, <1>5 DEF Scan
<1>7. Scanned(reader)' = Scanned(reader')
  BY <1>2 DEF Scanned
<1>8. Tailed(reader)' = Tailed(reader')
  <2>1. \A q, k : Begins(q, k)' = Begins(q, k)
    BY <1>2 DEF Begins
  <2>. QED BY <1>2, <1>6, <2>1 DEF Tailed
<1>9. TellsInv(reader)' = TellsInv(reader')
  BY <1>2, <1>5, <1>6 DEF TellsInv
<1>10. ReadOk(reader)'
  BY <1>2, <1>3, <1>4, <1>6, <1>7, <1>8, <1>9 DEF ReadOk
<1>. QED BY <1>1, <1>10 DEF LogInv

(* What is true of the main file at every moment.                          *)
MainIs ==
    /\ IsPad /\ Lined("main") /\ Len(Written("main")) \in Nat
    /\ \A i \in Nat : i + 1 <= Len(Written("main")) <=> LineEnd(i) + 2 <= Len(files["main"])

LEMMA MainNow == LogFileInv => MainIs
BY MainFacts DEF MainIs

LEMMA MainNext == LogFileInv' => MainIs'
BY MainNow, PTL

Longer(f, g) == Len(f) <= Len(g) /\ \A n \in 1..Len(f) : g[n] = f[n]

LEMMA SamePart ==
    ASSUME NEW S, NEW f \in Seq(S), NEW g \in Seq(S), Longer(f, g),
           NEW q \in Nat, NEW p \in Nat, p <= Len(f)
    PROVE  SubSeq(g, q + 1, p) = SubSeq(f, q + 1, p)
BY DEF Longer

(* The agent goes on while the reader rests.                               *)
LEMMA ReaderRests ==
    ASSUME LogFileInv, LogFileInv', ReadOk(reader), UNCHANGED <<kind, pad, reader>>,
           \A w \in Wires : Longer(files[w], files'[w]), Longer(lines, lines')
    PROVE  ReadOk(reader)'
<1>. DEFINE n == Len(Written("main"))
            m == Len(Written("main")')
            f == files["main"]
            g == files'["main"]
<1>1. \A k : LineEnd(k)' = LineEnd(k)
  BY DEF LineEnd
<1>2. MainIs /\ MainIs'
  BY MainNow, MainNext
<1>3. f \in Seq(Cell) /\ g \in Seq(Cell) /\ Len(f) \in Nat /\ Len(g) \in Nat /\ Longer(f, g)
  <2>1. f \in Seq(Cell)
    BY <1>2 DEF MainIs, Lined
  <2>2. g \in Seq(Cell)
    BY <1>2 DEF MainIs, Lined
  <2>3. Longer(f, g)
    BY DEF Wires
  <2>. HIDE DEF f, g
  <2>. QED BY <2>1, <2>2, <2>3
<1>4. /\ n \in Nat /\ m \in Nat /\ IsPad
      /\ \A i \in Nat : i + 1 <= n <=> LineEnd(i) + 2 <= Len(f)
      /\ \A i \in Nat : i + 1 <= m <=> LineEnd(i) + 2 <= Len(g)
  BY <1>1, <1>2 DEF MainIs
<1>5. \A i \in Nat : LineEnd(i) + 2 <= Len(f) =>
          LineEnd(i) \in Nat /\ f[LineEnd(i) + 1][2] \in 1..Len(lines) /\ g[LineEnd(i) + 1] = f[LineEnd(i) + 1]
  <2>. SUFFICES ASSUME NEW i \in Nat, LineEnd(i) + 2 <= Len(f)
                PROVE  /\ LineEnd(i) \in Nat /\ f[LineEnd(i) + 1][2] \in 1..Len(lines)
                       /\ g[LineEnd(i) + 1] = f[LineEnd(i) + 1]
    OBVIOUS
  <2>1. LineEnd(i) \in Nat
    BY <1>4, LineEnds
  <2>2. LineEnd(i) + 1 \in 1..Len(f) /\ LineEnd(i) + 1 <= Len(f)
    BY <1>3, <2>1
  <2>3. f[LineEnd(i) + 1] \in {"a"} \X (1..Len(lines))
    BY <1>2, <2>2 DEF MainIs, Lined
  <2>. QED BY <1>3, <2>1, <2>2, <2>3 DEF Longer
<1>. HIDE DEF n, m, f, g
<1>6. n <= m
  <2>. SUFFICES ASSUME n > 0 PROVE n <= m
    BY <1>4
  <2>1. n - 1 \in Nat /\ (n - 1) + 1 = n
    BY <1>4
  <2>2. LineEnd(n - 1) + 2 <= Len(f) /\ LineEnd(n - 1) \in Nat
    BY <1>4, <1>5, <2>1
  <2>3. LineEnd(n - 1) + 2 <= Len(g)
    BY <1>3, <2>2 DEF Longer
  <2>. QED BY <1>4, <2>1, <2>3
<1>7. ASSUME NEW k \in Nat, k <= n
      PROVE  /\ First("main", k)' = First("main", k)
             /\ LastUser(First("main", k))' = LastUser(First("main", k))
             /\ TailAfter(First("main", k))' = TailAfter(First("main", k))
  <2>1. ASSUME NEW i \in 1..k
        PROVE  /\ files'["main"][LineEnd(i - 1) + 1] = files["main"][LineEnd(i - 1) + 1]
               /\ files["main"][LineEnd(i - 1) + 1][2] \in 1..Len(lines)
    <3>1. i - 1 \in Nat /\ (i - 1) + 1 <= n
      BY <1>4, <1>7
    <3>. QED BY <1>4, <1>5, <3>1 DEF f, g
  <2>2. First("main", k)' = First("main", k)
    BY <1>1, <2>1 DEF First
  <2>3. /\ Len(First("main", k)) = k
        /\ \A i \in 1..k : First("main", k)[i] = files["main"][LineEnd(i - 1) + 1][2]
    BY FirstIs
  <2>. DEFINE s == First("main", k)
  <2>4. \A i \in 1..Len(s) : lines'[s[i]] = lines[s[i]]
    BY <2>1, <2>3 DEF Longer
  <2>. HIDE DEF s
  <2>5. {i \in 1..Len(s) : IsUser(lines'[s[i]])} = {i \in 1..Len(s) : IsUser(lines[s[i]])}
    BY <2>4
  <2>6. LastUser(First("main", k))' = LastUser(First("main", k))
    <3>1. LastUser(First("main", k))' = Max({i \in 1..Len(s) : IsUser(lines'[s[i]])} \cup {0})
      BY <2>2 DEF LastUser, s
    <3>2. LastUser(First("main", k)) = Max({i \in 1..Len(s) : IsUser(lines[s[i]])} \cup {0})
      BY DEF LastUser, s
    <3>. QED BY <2>5, <3>1, <3>2
  <2>7. TailAfter(First("main", k))' = TailAfter(First("main", k))
    BY <1>1, <2>6 DEF TailAfter
  <2>. QED BY <2>2, <2>6, <2>7
<1>8. \A k : Passed(reader, k) => Passed(reader, k)' /\ k \in Nat /\ k <= n
  BY <1>4, <1>6 DEF Passed, n, m
<1>9. Scan(reader) => Scan(reader)' /\ LastUser(reader.got)' = LastUser(reader.got)
  <2>. SUFFICES ASSUME Scan(reader) PROVE Scan(reader)' /\ LastUser(reader.got)' = LastUser(reader.got)
    OBVIOUS
  <2>1. PICK k \in Nat : Passed(reader, k) /\ reader.got = First("main", k)
    BY DEF Scan
  <2>2. k <= n /\ Passed(reader, k)'
    BY <1>8, <2>1
  <2>3. First("main", k)' = First("main", k) /\ LastUser(First("main", k))' = LastUser(First("main", k))
    BY <1>7, <2>2
  <2>4. Scan(reader)'
    BY <2>1, <2>2, <2>3 DEF Scan
  <2>5. LastUser(reader.got)' = LastUser(reader.got)
    <3>1. LastUser(reader.got)' = LastUser(First("main", k))'
      BY <2>1, <2>3 DEF LastUser
    <3>. QED BY <2>1, <2>3, <3>1
  <2>. QED BY <2>4, <2>5
<1>10. Scanned(reader) => Scanned(reader)'
  <2>. SUFFICES ASSUME Scanned(reader) PROVE Scanned(reader)'
    OBVIOUS
  <2>1. PICK k \in Nat : /\ k <= n /\ reader.base = LineEnd(k)
                         /\ reader.got = First("main", k) /\ reader.tail = TailAfter(First("main", k))
    BY DEF Scanned, n
  <2>2. /\ k <= m /\ reader.base = LineEnd(k)'
        /\ reader.got = First("main", k)' /\ reader.tail = TailAfter(First("main", k))'
    BY <1>1, <1>4, <1>6, <1>7, <2>1
  <2>. QED BY <2>2 DEF Scanned, m
<1>11. Tailed(reader) => Tailed(reader)'
  <2>. SUFFICES ASSUME Tailed(reader) PROVE Tailed(reader)'
    OBVIOUS
  <2>1. Scan(reader)' /\ LastUser(reader.got)' = LastUser(reader.got)
    BY <1>9 DEF Tailed
  <2>2. PICK k \in Nat : /\ LastUser(reader.got) <= k /\ k <= n
                         /\ Begins(reader.start + reader.base, k)
                         /\ reader.shown = SubSeq(First("main", k), LastUser(reader.got) + 1, k)
    BY DEF Tailed, n
  <2>3. /\ k <= m /\ First("main", k)' = First("main", k)
        /\ Begins(reader.start + reader.base, k)'
    BY <1>1, <1>4, <1>6, <1>7, <2>2 DEF Begins
  <2>. QED BY <2>1, <2>2, <2>3 DEF Tailed, m
<1>12. TellsInv(reader) => TellsInv(reader)'
  <2>. SUFFICES ASSUME TellsInv(reader) PROVE TellsInv(reader)'
    OBVIOUS
  <2>1. Scan(reader)' /\ LastUser(reader.got)' = LastUser(reader.got)
    BY <1>9 DEF TellsInv
  <2>2. PICK k \in Nat :
          /\ Passed(reader, k)
          /\ kind \in {"claude", "pi"} => reader.shown = SubSeq(First("main", k), LastUser(reader.got) + 1, k)
          /\ kind \in {"codex", "kimi"} => reader.got = First("main", k)
          /\ kind = "opencode" => reader.shown = SubSeq(First("main", k), Larger(LastUser(reader.got), 1), k)
          /\ kind \notin {"claude", "pi", "codex", "kimi", "opencode"} => reader.shown = First("main", k)
    BY DEF TellsInv
  <2>3. Passed(reader, k)' /\ First("main", k)' = First("main", k)
    BY <1>7, <1>8, <2>2
  <2>. QED BY <2>1, <2>2, <2>3 DEF TellsInv
<1>13. WireOf(reader.pc) \in Wires /\ Lined(WireOf(reader.pc)) /\ Lined(WireOf(reader.pc))'
  <2>1. WireOf(reader.pc) \in Wires
    BY DEF WireOf, Wires
  <2>. QED BY <2>1 DEF LogFileInv
<1>14. Buffered(reader) => Buffered(reader)'
  <2>. DEFINE a == files[WireOf(reader.pc)]
              b == files'[WireOf(reader.pc)]
              q == reader.start + reader.base
  <2>. SUFFICES ASSUME Buffered(reader) PROVE Buffered(reader)'
    OBVIOUS
  <2>1. /\ reader.pos \in Nat /\ reader.start \in Nat /\ reader.base \in Nat /\ q <= reader.pos
        /\ reader.buf = SubSeq(a, q + 1, reader.pos)
        /\ reader.pos <= Len(a) \/ (reader.pos = reader.start /\ reader.base = 0)
    BY DEF Buffered
  <2>2. a \in Seq(Cell) /\ b \in Seq(Cell) /\ Longer(a, b)
    BY <1>13 DEF Lined
  <2>3. q \in Nat /\ Len(a) \in Nat /\ Len(b) \in Nat
    BY <2>1, <2>2
  <2>. HIDE DEF a, b
  <2>4. SubSeq(b, q + 1, reader.pos) = SubSeq(a, q + 1, reader.pos)
    <3>1. CASE reader.pos <= Len(a)
      <4>1. q \in Nat /\ reader.pos \in Nat
        BY ONLY <2>1, <2>3
      <4>. QED BY ONLY <2>2, <3>1, <4>1, SamePart, Zenon
    <3>2. CASE reader.pos = reader.start /\ reader.base = 0
      <4>1. q = reader.pos
        BY <2>1, <3>2
      <4>. QED BY ONLY <2>2, <2>3, <4>1
    <3>. QED BY <2>1, <3>1, <3>2
  <2>5. reader.pos <= Len(b) \/ (reader.pos = reader.start /\ reader.base = 0)
    BY <2>1, <2>2, <2>3 DEF Longer
  <2>. QED BY <2>1, <2>4, <2>5 DEF Buffered, a, b, WireOf
<1>15. IsReader(reader)' = IsReader(reader)
  BY DEF IsReader, NoReader
<1>16. reader.whole \in Nat /\ reader.whole <= n => reader.whole <= m
  BY ONLY <1>4, <1>6
<1>. QED BY <1>9, <1>10, <1>11, <1>12, <1>14, <1>15, <1>16 DEF ReadOk, n, m

LEMMA JoinedParts ==
    ASSUME NEW S, NEW f \in Seq(S), NEW q \in Nat, NEW p \in Nat, NEW n \in Nat,
           q <= p, p <= n, n <= Len(f)
    PROVE  SubSeq(f, q + 1, p) \o SubSeq(f, p + 1, n) = SubSeq(f, q + 1, n)
<1>. DEFINE a == SubSeq(f, q + 1, p)
            b == SubSeq(f, p + 1, n)
            c == SubSeq(f, q + 1, n)
<1>1. /\ a \in Seq(S) /\ Len(a) = p - q /\ \A i \in 1..(p - q) : a[i] = f[q + i]
      /\ b \in Seq(S) /\ Len(b) = n - p /\ \A i \in 1..(n - p) : b[i] = f[p + i]
      /\ c \in Seq(S) /\ Len(c) = n - q /\ \A i \in 1..(n - q) : c[i] = f[q + i]
  <2>1. p <= Len(f) /\ q <= n
    OBVIOUS
  <2>. QED BY <2>1, PartIs
<1>. HIDE DEF a, b, c
<1>2. /\ a \o b \in Seq(S) /\ Len(a \o b) = n - q
      /\ \A i \in 1..(n - q) : (a \o b)[i] = IF i <= p - q THEN a[i] ELSE b[i - (p - q)]
  <2>1. /\ a \o b \in Seq(S) /\ Len(a \o b) = Len(a) + Len(b)
        /\ \A i \in 1..Len(a) + Len(b) : (a \o b)[i] = IF i <= Len(a) THEN a[i] ELSE b[i - Len(a)]
    BY ONLY <1>1, ConcatProperties
  <2>2. Len(a) + Len(b) = n - q
    BY <1>1
  <2>. QED BY ONLY <1>1, <2>1, <2>2
<1>3. \A i \in 1..(n - q) : (a \o b)[i] = c[i]
  <2>. SUFFICES ASSUME NEW i \in 1..(n - q) PROVE (a \o b)[i] = c[i]
    OBVIOUS
  <2>1. CASE i <= p - q
    BY <1>1, <1>2, <2>1
  <2>2. CASE i > p - q
    <3>1. i - (p - q) \in 1..(n - p) /\ p + (i - (p - q)) = q + i
      BY <2>2
    <3>2. b[i - (p - q)] = f[q + i]
      BY <1>1, <3>1
    <3>3. (a \o b)[i] = b[i - (p - q)] /\ c[i] = f[q + i]
      <4>1. (a \o b)[i] = IF i <= p - q THEN a[i] ELSE b[i - (p - q)]
        BY ONLY <1>2, i \in 1..(n - q)
      <4>2. c[i] = f[q + i]
        BY ONLY <1>1, i \in 1..(n - q)
      <4>3. ~ (i <= p - q)
        BY ONLY <2>2, i \in 1..(n - q), n \in Nat, p \in Nat, q \in Nat
      <4>. QED BY ONLY <4>1, <4>2, <4>3
    <3>. QED BY ONLY <3>2, <3>3
  <2>3. i <= p - q \/ i > p - q
    OBVIOUS
  <2>. QED BY ONLY <2>1, <2>2, <2>3
<1>4. a \o b = c
  BY ONLY <1>1, <1>2, <1>3, SeqEqual
<1>. QED BY <1>4 DEF a, b, c

LEMMA ReadChunkKeeps == ASSUME LogInv, ReadChunk PROVE LogInv'
<1>. DEFINE r == reader
            cells == files[WireOf(reader.pc)]
            upTo == Min({reader.pos + chunkSize, Len(cells)})
            buf == reader.buf \o SubSeq(cells, reader.pos + 1, upTo)
            newlines == {n \in 1..Len(buf) : buf[n] = NL}
            cut == Max(newlines \cup {0})
            offset == reader.start + reader.base
            read == [reader EXCEPT !.pos = upTo, !.buf = SubSeq(buf, cut + 1, Len(buf)), !.base = @ + cut]
            handed == IF upTo <= reader.pos THEN LinesOf(buf, offset)
                      ELSE IF cut = 0 THEN <<>> ELSE LinesOf(SubSeq(buf, 1, cut - 1), offset)
<1>1. /\ reader.pc \in {"guard", "scan", "tail", "sub"}
      /\ reader' = IF reader.pc = "guard" /\ Guarded(handed) THEN EndPass(reader)
                   ELSE IF upTo > reader.pos THEN Take(read, handed)
                   ELSE IF reader.pc = "guard" /\ kind = "claude" THEN [reader EXCEPT !.pc = "refused"]
                   ELSE EndPass(Take(reader, handed))
      /\ UNCHANGED <<kind, chunkSize, pad, lines, files, unwritten>>
  BY DEF ReadChunk
<1>2. LogFileInv /\ ReadOk(reader) /\ chunkSize \in Nat \ {0}
  BY DEF LogInv, LogFileInv
<1>3. /\ reader.pos \in Nat /\ reader.start \in Nat /\ reader.base \in Nat
      /\ reader.start + reader.base <= reader.pos
      /\ reader.buf = SubSeq(cells, reader.start + reader.base + 1, reader.pos)
      /\ reader.pos <= Len(cells) \/ (reader.pos = reader.start /\ reader.base = 0)
  <2>1. Buffered(reader)
    BY <1>1, <1>2 DEF ReadOk
  <2>. QED BY <2>1 DEF Buffered
<1>4. cells \in Seq(Cell) /\ Len(cells) \in Nat
  BY <1>2, WireIs DEF Lined
<1>5. read = Move(reader, upTo, buf, cut)
  BY DEF Move
<1>. HIDE DEF read, handed
<1>6. SUFFICES ReadOk(reader')
  BY <1>1, <1>2, ReaderMoves
<1>7. upTo = IF reader.pos + chunkSize <= Len(cells) THEN reader.pos + chunkSize ELSE Len(cells)
  <2>. DEFINE x == reader.pos + chunkSize
              y == Len(cells)
  <2>1. x \in Nat /\ y \in Nat
    BY <1>2, <1>3, <1>4
  <2>. HIDE DEF x, y
  <2>2. Min({x, y}) = IF x <= y THEN x ELSE y
    BY ONLY <2>1, MinOfTwo
  <2>. QED BY <2>2 DEF x, y
<1>8. cells = files[WireOf(reader.pc)] /\ offset = reader.start + reader.base
  OBVIOUS
<1>9. buf = reader.buf \o SubSeq(cells, reader.pos + 1, upTo)
  OBVIOUS
<1>10. (cut \in 0..Len(buf) /\ (cut > 0 => buf[cut] = NL)) \/ Len(buf) \notin Nat
  <2>1. SUFFICES ASSUME Len(buf) \in Nat PROVE cut \in 0..Len(buf) /\ (cut > 0 => buf[cut] = NL)
    OBVIOUS
  <2>. HIDE DEF buf
  <2>2. newlines \cup {0} \in SUBSET (0..Len(buf)) /\ newlines \cup {0} # {}
    BY <2>1
  <2>3. cut \in newlines \cup {0}
    <3>. HIDE DEF newlines
    <3>. QED BY <2>1, <2>2, MaxOfUpTo
  <2>. QED BY <2>1, <2>2, <2>3
<1>. HIDE DEF cut, upTo
<1>11. handed = IF upTo <= reader.pos THEN LinesOf(buf, offset)
                ELSE IF cut = 0 THEN <<>> ELSE LinesOf(SubSeq(buf, 1, cut - 1), offset)
  BY DEF handed
<1>. HIDE DEF cells, buf, offset
<1>12. CASE reader.pc = "guard" /\ Guarded(handed)
  <2>1. reader' = EndPass(reader)
    BY <1>1, <1>12
  <2>2. kind \in {"claude", "pi"} /\ reader.got = <<>> /\ reader.shown = <<>> /\ reader.tail = 0
    BY <1>2, <1>12 DEF ReadOk
  <2>3. IsReader(reader) /\ reader.whole \in Nat /\ reader.whole <= Len(Written("main"))
    BY <1>2 DEF ReadOk
  <2>. QED BY <1>2, <1>12, <2>1, <2>2, <2>3, EndPassOk
<1>13. CASE ~ (reader.pc = "guard" /\ Guarded(handed)) /\ upTo > reader.pos
  <2>1. reader' = Take(read, handed)
    BY <1>1, <1>13
  <2>2. upTo \in Nat /\ reader.pos < upTo /\ upTo <= Len(cells) /\ reader.pos <= Len(cells)
    BY ONLY <1>2, <1>3, <1>4, <1>7, <1>13
  <2>3. buf = SubSeq(cells, offset + 1, upTo)
    <3>1. offset \in Nat /\ offset <= reader.pos /\ reader.buf = SubSeq(cells, offset + 1, reader.pos)
      BY ONLY <1>3, <1>8
    <3>2. SubSeq(cells, offset + 1, reader.pos) \o SubSeq(cells, reader.pos + 1, upTo)
            = SubSeq(cells, offset + 1, upTo)
      <4>1. reader.pos <= upTo /\ reader.pos \in Nat
        BY ONLY <1>3, <2>2
      <4>. QED BY ONLY <1>4, <2>2, <3>1, <4>1, JoinedParts
    <3>. QED BY ONLY <1>9, <3>1, <3>2
  <2>4. Len(buf) \in Nat
    <3>1. offset \in Nat
      <4>1. reader.start \in Nat /\ reader.base \in Nat
        BY ONLY <1>3
      <4>. QED BY ONLY <1>8, <4>1
    <3>2. SubSeq(cells, offset + 1, upTo) \in Seq(Cell)
      BY ONLY <1>4, <2>2, <3>1
    <3>. QED BY ONLY <2>3, <3>2
  <2>5. handed = IF cut = 0 THEN <<>> ELSE LinesOf(SubSeq(buf, 1, cut - 1), reader.start + reader.base)
    BY <1>3, <1>8, <1>11, <2>2
  <2>6. buf = SubSeq(files[WireOf(reader.pc)], reader.start + reader.base + 1, upTo)
    BY <1>8, <2>3
  <2>7. cut \in 0..Len(buf) /\ (cut > 0 => buf[cut] = NL)
    BY <1>10, <2>4
  <2>8. upTo <= Len(files[WireOf(reader.pc)])
    BY <1>8, <2>2
  <2>9. ReadOk(Take(Move(reader, upTo, buf, cut), handed))
    BY ONLY <1>1, <1>2, <2>2, <2>5, <2>6, <2>7, <2>8, MoveReads
  <2>. QED BY <1>5, <2>1, <2>9
<1>14. CASE ~ (upTo > reader.pos)
  <2>1. Len(cells) <= reader.pos /\ upTo <= reader.pos /\ upTo \in Nat
    BY ONLY <1>2, <1>3, <1>4, <1>7, <1>14
  <2>2. buf = reader.buf
    <3>1. SubSeq(cells, reader.pos + 1, upTo) = <<>>
      BY ONLY <1>3, <1>4, <2>1
    <3>2. reader.buf \in Seq(Cell)
      <4>1. CASE reader.pos <= Len(cells)
        BY ONLY <1>3, <1>4, <4>1
      <4>2. CASE reader.pos = reader.start /\ reader.base = 0
        <5>1. reader.buf = <<>>
          BY ONLY <1>3, <1>4, <4>2
        <5>. QED BY <5>1
      <4>. QED BY <1>3, <4>1, <4>2
    <3>3. reader.buf \o <<>> = reader.buf
      BY ONLY <3>2, ConcatEmptySeq
    <3>. QED BY ONLY <1>9, <3>1, <3>3
  <2>3. handed = LinesOf(reader.buf, reader.start + reader.base)
    BY <1>8, <1>11, <2>1, <2>2
  <2>4. ReadOk(EndPass(Take(reader, handed)))
    <3>1. Len(files[WireOf(reader.pc)]) <= reader.pos
      BY <1>8, <2>1
    <3>. QED BY ONLY <1>1, <1>2, <2>3, <3>1, EndMoves
  <2>5. ASSUME reader.pc = "guard" PROVE ReadOk([reader EXCEPT !.pc = "refused"])
    <3>1. IsReader(reader) /\ reader.whole \in Nat /\ reader.whole <= Len(Written("main"))
      BY <1>2 DEF ReadOk
    <3>. DEFINE t == [reader EXCEPT !.pc = "refused"]
    <3>2. IsReader(t) /\ t.pc = "refused" /\ t.whole = reader.whole
      BY <3>1 DEF IsReader, NoReader
    <3>. HIDE DEF t
    <3>3. ReadOk(t)
      BY <3>1, <3>2 DEF ReadOk
    <3>. QED BY <3>3 DEF t
  <2>6. CASE reader.pc = "guard"
    BY <1>1, <1>12, <1>14, <2>4, <2>5, <2>6
  <2>7. CASE reader.pc # "guard"
    BY <1>1, <1>14, <2>4, <2>7
  <2>. QED BY <2>6, <2>7
<1>. QED BY <1>12, <1>13, <1>14

LEMMA LogInvInit == LogInit => LogInv
<1>. SUFFICES ASSUME LogInit PROVE LogInv
  OBVIOUS
<1>1. /\ lines = <<>> /\ unwritten = <<>> /\ reader = NoReader /\ pad \in {0, 1}
      /\ files = [w \in Wires |-> <<>>] /\ chunkSize \in Nat \ {0}
  BY LogAssumption DEF LogInit
<1>2. IsPad /\ LineEnd(0) = 0
  BY <1>1 DEF IsPad, LineEnd
<1>3. \A k \in Nat : LineEnd(k) \in Nat
  BY <1>2, LineEnds
<1>4. ASSUME NEW w \in Wires PROVE Lined(w) /\ EndsAtLine(w)
  <2>1. files[w] = <<>> /\ Len(files[w]) = 0 /\ files[w] \in Seq(Cell)
    BY <1>1
  <2>2. Lined(w)
    <3>1. \A k \in Nat : /\ ~ (LineEnd(k) + 1 <= Len(files[w])) /\ ~ (LineEnd(k) + 2 <= Len(files[w]))
                         /\ ~ (LineEnd(k) + 3 <= Len(files[w])) /\ ~ (LineEnd(k) + 4 <= Len(files[w]))
      <4>. DEFINE n == Len(files[w])
      <4>1. n = 0
        BY <2>1
      <4>. HIDE DEF n
      <4>2. \A k \in Nat : /\ ~ (LineEnd(k) + 1 <= n) /\ ~ (LineEnd(k) + 2 <= n)
                           /\ ~ (LineEnd(k) + 3 <= n) /\ ~ (LineEnd(k) + 4 <= n)
        BY ONLY <1>3, <4>1
      <4>. QED BY <4>2 DEF n
    <3>. QED BY <2>1, <3>1, Zenon DEF Lined
  <2>3. EndsAtLine(w)
    BY <1>1, <1>2, <2>1 DEF EndsAtLine
  <2>. QED BY <2>2, <2>3
<1>5. IsSeq(lines)
  <2>1. <<>> \in Seq({})
    OBVIOUS
  <2>. QED BY <1>1, <2>1, SeqOfAny
<1>6. LogFileInv
  BY <1>1, <1>2, <1>4, <1>5 DEF LogFileInv
<1>7. Len(Written("main")) \in Nat
  BY <1>6, MainFacts
<1>8. ReadOk(reader)
  BY <1>1, <1>7 DEF ReadOk, NoReader, IsReader
<1>. QED BY <1>6, <1>8 DEF LogInv

LEMMA StartReadKeeps == ASSUME LogInv, StartRead PROVE LogInv'
<1>. DEFINE n == Len(Written("main"))
            before == [w \in Wires |-> Len(spent[w])]
            r == [NoReader EXCEPT !.whole = n, !.before = before]
            t == Open(r, FirstPass, 0)
<1>1. reader' = t /\ UNCHANGED <<kind, chunkSize, pad, lines, files, unwritten>>
  BY DEF StartRead
<1>2. LogFileInv /\ IsPad /\ n \in Nat
  BY MainFacts DEF LogInv
<1>. HIDE DEF n, before
<1>3. /\ IsReader(r) /\ r.whole = n /\ r.got = <<>> /\ r.shown = <<>> /\ r.tail = 0
  BY DEF IsReader, NoReader
<1>. HIDE DEF r
<1>4. /\ IsReader(t) /\ t.pc = FirstPass /\ t.start = 0 /\ t.base = 0 /\ t.whole = n
      /\ t.got = <<>> /\ t.shown = <<>> /\ t.tail = 0
  BY <1>3, OpenIs
<1>5. Buffered(t)
  BY <1>2, <1>3, WireIs, OpenBuffered
<1>. HIDE DEF t
<1>6. Scanned(t)
  <2>1. /\ 0 \in Nat /\ 0 <= n /\ t.base = LineEnd(0) /\ t.got = First("main", 0)
        /\ t.tail = TailAfter(First("main", 0))
    BY <1>2, <1>4, NoneFirst
  <2>. QED BY <1>4, <2>1 DEF Scanned, n
<1>7. \/ t.pc = "guard" /\ kind \in {"claude", "pi"}
      \/ t.pc = "scan" /\ kind \in {"codex", "kimi"}
      \/ t.pc = "ask" /\ kind \notin {"claude", "pi", "codex", "kimi"}
  BY <1>4 DEF FirstPass
<1>8. ReadOk(t)
  BY <1>2, <1>4, <1>5, <1>6, <1>7 DEF ReadOk, n
<1>. QED BY <1>1, <1>2, <1>8, ReaderMoves

LEMMA LargerOf ==
    ASSUME NEW n \in Nat, NEW s \in SUBSET (1..n)
    PROVE  Max(s \cup {1}) = Larger(Max(s \cup {0}), 1)
<1>1. /\ s \cup {1} \in SUBSET (0..(n + 1)) /\ s \cup {1} # {} /\ n + 1 \in Nat
      /\ s \cup {0} \in SUBSET (0..(n + 1)) /\ s \cup {0} # {}
  OBVIOUS
<1>2. Max(s \cup {1}) \in s \cup {1} /\ \A y \in s \cup {1} : y <= Max(s \cup {1})
  BY <1>1, MaxOfUpTo
<1>3. Max(s \cup {0}) \in s \cup {0} /\ \A y \in s \cup {0} : y <= Max(s \cup {0})
  BY <1>1, MaxOfUpTo
<1>. DEFINE a == Max(s \cup {1})
            b == Max(s \cup {0})
<1>4. a \in s \cup {1} /\ \A y \in s \cup {1} : y <= a
  BY <1>2
<1>5. b \in s \cup {0} /\ \A y \in s \cup {0} : y <= b
  BY <1>3
<1>. HIDE DEF a, b
<1>6. a = Larger(b, 1)
  <2>1. CASE s = {}
    BY <1>4, <1>5, <2>1 DEF Larger
  <2>2. CASE s # {}
    <3>1. b \in s
      <4>1. PICK y \in s : TRUE
        BY <2>2
      <4>2. y \in 1..n /\ y <= b /\ b \in 0..n
        BY <1>5
      <4>3. b # 0
        BY ONLY <4>2, n \in Nat
      <4>. QED BY <1>5, <4>3
    <3>2. b \in 1..n /\ b <= a /\ a \in 1..(n + 1)
      BY <1>4, <3>1
    <3>3. a <= b
      <4>1. CASE a \in s
        BY <1>5, <4>1
      <4>2. CASE a = 1
        BY <3>2, <4>2
      <4>. QED BY <1>4, <4>1, <4>2
    <3>. QED BY ONLY <3>2, <3>3, n \in Nat DEF Larger
  <2>. QED BY <2>1, <2>2
<1>. QED BY <1>6 DEF a, b

LEMMA AskKeeps == ASSUME LogInv, Ask PROVE LogInv'
<1>. DEFINE got == Written("main")
            n == Len(got)
            users == {i \in 1..Len(got) : IsUser(lines[got[i]])}
            last == Max(users \cup {1})
            told == IF kind = "opencode" THEN SubSeq(got, last, Len(got)) ELSE got
            t == [reader EXCEPT !.pc = "done", !.got = got, !.shown = told]
<1>1. reader.pc = "ask" /\ reader' = t /\ UNCHANGED <<kind, chunkSize, pad, lines, files, unwritten>>
  BY DEF Ask
<1>2. LogFileInv /\ IsPad /\ n \in Nat /\ got = First("main", n)
  BY MainFacts DEF LogInv
<1>3. /\ IsReader(reader) /\ reader.whole \in Nat /\ reader.whole <= n
      /\ kind \notin {"claude", "pi", "codex", "kimi"}
  BY <1>1 DEF LogInv, ReadOk
<1>4. last = Larger(LastUser(got), 1)
  <2>1. users \in SUBSET (1..n)
    OBVIOUS
  <2>2. LastUser(got) = Max(users \cup {0})
    BY DEF LastUser
  <2>. HIDE DEF users
  <2>. QED BY <1>2, <2>1, <2>2, LargerOf
<1>5. kind = "opencode" => told = SubSeq(First("main", n), Larger(LastUser(got), 1), n)
  BY <1>2, <1>4
<1>6. kind # "opencode" => told = First("main", n)
  BY <1>2
<1>7. n = Len(Written("main"))
  OBVIOUS
<1>. HIDE DEF told, got, n
<1>8. IsReader(t) /\ t.pc = "done" /\ t.got = got /\ t.shown = told /\ t.whole = reader.whole
  BY <1>3 DEF IsReader, NoReader
<1>. HIDE DEF t
<1>9. Passed(t, n)
  BY <1>2, <1>3, <1>7, <1>8 DEF Passed
<1>10. Scan(t)
  BY <1>2, <1>8, <1>9 DEF Scan
<1>11. TellsInv(t)
  BY <1>2, <1>3, <1>5, <1>6, <1>8, <1>9, <1>10 DEF TellsInv
<1>12. ReadOk(t)
  BY <1>3, <1>7, <1>8, <1>11 DEF ReadOk
<1>. QED BY <1>1, <1>2, <1>12, ReaderMoves

LEMMA JoinsOne ==
    ASSUME NEW a, NEW b, NEW c, NEW d
    PROVE  <<a, b>> \o <<c>> = <<a, b, c>> /\ <<a, b, c>> \o <<d>> = <<a, b, c, d>>
<1>. DEFINE S == {a, b, c, d}
<1>1. <<a, b>> \in Seq(S) /\ <<c>> \in Seq(S) /\ <<d>> \in Seq(S) /\ <<a, b, c>> \in Seq(S)
  OBVIOUS
<1>2. <<a, b>> \o <<c>> = <<a, b, c>>
  <2>1. Append(<<a, b>>, c) = <<a, b, c>>
    <3>1. Len(Append(<<a, b>>, c)) = 3 /\ Len(<<a, b, c>>) = 3
      BY <1>1, AppendProperties
    <3>2. \A i \in 1..3 : Append(<<a, b>>, c)[i] = <<a, b, c>>[i]
      OBVIOUS
    <3>3. Append(<<a, b>>, c) \in Seq(S)
      BY <1>1, AppendProperties
    <3>. QED BY ONLY <1>1, <3>1, <3>2, <3>3, SeqEqual
  <2>2. Append(<<a, b>>, c) = <<a, b>> \o <<c>>
    BY <1>1, AppendIsConcat
  <2>. QED BY ONLY <2>1, <2>2
<1>3. <<a, b, c>> \o <<d>> = <<a, b, c, d>>
  <2>1. Append(<<a, b, c>>, d) = <<a, b, c, d>>
    <3>1. Len(Append(<<a, b, c>>, d)) = 4 /\ Len(<<a, b, c, d>>) = 4
      BY <1>1, AppendProperties
    <3>2. \A i \in 1..4 : Append(<<a, b, c>>, d)[i] = <<a, b, c, d>>[i]
      OBVIOUS
    <3>3. Append(<<a, b, c>>, d) \in Seq(S) /\ <<a, b, c, d>> \in Seq(S)
      BY <1>1, AppendProperties
    <3>. QED BY ONLY <3>1, <3>2, <3>3, SeqEqual
  <2>2. Append(<<a, b, c>>, d) = <<a, b, c>> \o <<d>>
    BY <1>1, AppendIsConcat
  <2>. QED BY ONLY <2>1, <2>2
<1>. QED BY <1>2, <1>3

LEMMA CellsAre ==
    ASSUME IsPad, NEW i
    PROVE  /\ CellsOf(i) \in Rests(i) /\ CellsOf(i) # <<>> /\ Len(CellsOf(i)) = 3 + pad
<1>. DEFINE blanks == [n \in 1..pad |-> BlankCell]
            a == <<"a", i>>
            b == <<"b", i>>
<1>0. CellsOf(i) = <<a, b>> \o blanks \o <<NL>>
  BY DEF CellsOf
<1>. HIDE DEF a, b
<1>1. CASE pad = 0
  <2>1. blanks = <<>>
    BY <1>1
  <2>. HIDE DEF blanks
  <2>2. <<a, b>> \o <<>> = <<a, b>>
    OBVIOUS
  <2>3. <<a, b>> \o <<NL>> = <<a, b, NL>>
    BY JoinsOne, Zenon
  <2>4. CellsOf(i) = <<a, b, NL>>
    BY <1>0, <2>1, <2>2, <2>3
  <2>5. CellsOf(i) \in Rests(i)
    BY <1>1, <2>4 DEF Rests, a, b
  <2>. QED BY <1>1, <2>4, <2>5
<1>2. CASE pad = 1
  <2>1. blanks = <<BlankCell>>
    BY <1>2
  <2>. HIDE DEF blanks
  <2>2. <<a, b>> \o <<BlankCell>> = <<a, b, BlankCell>>
    BY JoinsOne, Zenon
  <2>3. <<a, b, BlankCell>> \o <<NL>> = <<a, b, BlankCell, NL>>
    BY JoinsOne, Zenon
  <2>4. CellsOf(i) = <<a, b, BlankCell, NL>>
    BY <1>0, <2>1, <2>2, <2>3
  <2>5. CellsOf(i) \in Rests(i)
    BY <1>2, <2>4 DEF Rests, a, b
  <2>. QED BY <1>2, <2>4, <2>5
<1>. QED BY <1>1, <1>2 DEF IsPad

LEMMA RecordGoesTo ==
    ASSUME NEW r \in UserLines \cup ResponseLines \cup CompactLines
    PROVE  r.on \in Wires
<1>1. \A x : x.on = "main" \/ x.on = "sub" => x.on \in Wires
  BY DEF Wires
<1>2. CASE r \in UserLines
  BY <1>1, <1>2 DEF UserLines, NoRecord
<1>3. CASE r \in ResponseLines
  BY <1>1, <1>3 DEF ResponseLines, NoRecord
<1>4. CASE r \in CompactLines
  BY <1>1, <1>4 DEF CompactLines, NoRecord
<1>. QED BY <1>2, <1>3, <1>4

LEMMA AgentWritesKeeps == ASSUME LogInv, AgentWrites PROVE LogInv'
<1>1. PICK r \in UserLines \cup ResponseLines \cup CompactLines : lines' = Append(lines, r)
  BY DEF AgentWrites
<1>2. /\ unwritten = <<>> /\ unwritten' = CellsOf(Len(lines) + 1)
      /\ UNCHANGED <<kind, chunkSize, pad, files, reader>>
  BY DEF AgentWrites
<1>3. /\ IsPad /\ chunkSize \in Nat \ {0} /\ DOMAIN files = Wires /\ IsSeq(lines)
      /\ \A i \in 1..Len(lines) : lines[i].on \in Wires
      /\ \A w \in Wires : Lined(w) /\ EndsAtLine(w)
      /\ ReadOk(reader) /\ LogFileInv
  BY DEF LogInv, LogFileInv
<1>4. /\ Len(lines) \in Nat /\ IsSeq(lines') /\ Len(lines') = Len(lines) + 1
      /\ \A i \in 1..Len(lines) : lines'[i] = lines[i]
      /\ lines'[Len(lines) + 1] = r
  <2>1. Len(lines) \in Nat /\ DOMAIN lines = 1..Len(lines)
    BY <1>3, SeqDomain
  <2>2. /\ IsSeq(Append(lines, r)) /\ Len(Append(lines, r)) = Len(lines) + 1
        /\ \A i \in DOMAIN lines : Append(lines, r)[i] = lines[i]
        /\ Append(lines, r)[Len(lines) + 1] = r
    BY <1>3, AppendSeq
  <2>. QED BY <1>1, <2>1, <2>2
<1>5. IsPad' /\ \A k : LineEnd(k)' = LineEnd(k)
  BY <1>2, <1>3 DEF IsPad, LineEnd
<1>6. unwritten' # <<>> /\ Len(unwritten') = 3 + pad /\ unwritten' \in Rests(Len(lines))'
  <2>2. \A i : CellsOf(i) \in Rests(i) /\ CellsOf(i) # <<>> /\ Len(CellsOf(i)) = 3 + pad
    BY <1>3, CellsAre
  <2>3. Rests(Len(lines))' = Rests(Len(lines) + 1)
    <3>1. Len(lines') = Len(lines) + 1 /\ pad' = pad
      BY <1>2, <1>4
    <3>. QED BY <3>1 DEF Rests
  <2>4. unwritten' = CellsOf(Len(lines) + 1)
    BY <1>2
  <2>. QED BY ONLY <2>2, <2>3, <2>4
<1>7. ASSUME NEW w \in Wires PROVE Lined(w)'
  <2>1. Lined(w)
    BY <1>3
  <2>2. \A x : x \in {"a"} \X (1..Len(lines)) => x \in {"a"} \X (1..Len(lines'))
    BY <1>4
  <2>3. files' = files /\ pad' = pad
    BY <1>2
  <2>. QED BY ONLY <1>5, <2>1, <2>2, <2>3 DEF Lined
<1>8. ASSUME NEW w \in Wires PROVE EndsAtLine(w)'
  <2>1. PICK k \in Nat : Len(files[w]) = LineEnd(k)
    BY <1>2, <1>3 DEF EndsAtLine
  <2>2. LineEnd(k) \in Nat /\ LineEnd(k + 1) = LineEnd(k) + 3 + pad
    BY <1>3, LineEnds
  <2>3. /\ Len(files'[w]) = LineEnd(k)'
        /\ Len(files'[w]) + Len(unwritten') = LineEnd(k + 1)'
        /\ ~ (LineEnd(k)' + 1 <= Len(files'[w]))
    <3>1. /\ Len(files'[w]) = LineEnd(k) /\ Len(unwritten') = 3 + pad
          /\ LineEnd(k)' = LineEnd(k) /\ LineEnd(k + 1)' = LineEnd(k + 1)
      BY <1>2, <1>5, <1>6, <2>1
    <3>2. pad \in Nat
      BY <1>3 DEF IsPad
    <3>. QED BY ONLY <2>2, <3>1, <3>2
  <2>. QED BY <2>3 DEF EndsAtLine
<1>9. \A i \in 1..Len(lines') : lines'[i].on \in Wires
  <2>1. r.on \in Wires
    BY RecordGoesTo
  <2>. QED BY <1>3, <1>4, <2>1
<1>10. LogFileInv'
  <2>1. IsSeq(lines)'
    BY <1>4 DEF IsSeq
  <2>2. IsPad' /\ chunkSize' \in Nat \ {0} /\ DOMAIN files' = Wires
    BY <1>2, <1>3, <1>5
  <2>3. unwritten' # <<>> => Len(lines') > 0 /\ unwritten' \in Rests(Len(lines))'
    BY <1>4, <1>6
  <2>. QED BY <1>7, <1>8, <1>9, <2>1, <2>2, <2>3 DEF LogFileInv
<1>11. ReadOk(reader)'
  <2>1. Longer(lines, lines')
    BY <1>4 DEF Longer
  <2>2. \A w \in Wires : Longer(files[w], files'[w])
    <3>1. \A w \in Wires : Len(files[w]) \in Nat
      BY <1>3 DEF Lined
    <3>. QED BY <1>2, <3>1 DEF Longer
  <2>. QED BY <1>2, <1>3, <1>10, <2>1, <2>2, ReaderRests
<1>. QED BY <1>10, <1>11 DEF LogInv

(* One more cell.                                                          *)
LEMMA CellAdded ==
    ASSUME IsPad, NEW w, Lined(w), NEW c \in Cell, files'[w] = Append(files[w], c),
           pad' = pad, lines' = lines, NEW k \in Nat,
           LineEnd(k) <= Len(files[w]), Len(files[w]) < LineEnd(k + 1),
           Len(files[w]) = LineEnd(k) => c \in {"a"} \X (1..Len(lines)),
           Len(files[w]) = LineEnd(k) + 1 => c = <<"b", files[w][LineEnd(k) + 1][2]>>,
           Len(files[w]) = LineEnd(k) + 2 => c = IF pad = 0 THEN NL ELSE BlankCell,
           Len(files[w]) = LineEnd(k) + 3 => c = NL
    PROVE  Lined(w)'
<1>. DEFINE f == files[w]
            g == files'[w]
            n == Len(f)
<1>1. f \in Seq(Cell) /\ n \in Nat
  BY DEF Lined
<1>2. g \in Seq(Cell) /\ Len(g) = n + 1 /\ (\A i \in 1..n : g[i] = f[i]) /\ g[n + 1] = c
  BY <1>1
<1>3. LineEnd(k) \in Nat /\ LineEnd(k + 1) = LineEnd(k) + 3 + pad
  BY LineEnds
<1>4. \A j : LineEnd(j)' = LineEnd(j)
  BY DEF LineEnd
<1>5. ASSUME NEW j \in Nat
      PROVE  /\ LineEnd(j) + 1 <= n + 1 => g[LineEnd(j) + 1] \in {"a"} \X (1..Len(lines))
             /\ LineEnd(j) + 2 <= n + 1 => g[LineEnd(j) + 2] = <<"b", g[LineEnd(j) + 1][2]>>
             /\ LineEnd(j) + 3 <= n + 1 => g[LineEnd(j) + 3] = IF pad = 0 THEN NL ELSE BlankCell
             /\ LineEnd(j) + 4 <= n + 1 => pad = 0 \/ g[LineEnd(j) + 4] = NL
  <2>1. /\ LineEnd(j) \in Nat
        /\ j < k => LineEnd(j) + 3 + pad <= LineEnd(k)
        /\ j > k => LineEnd(k) + 3 + pad <= LineEnd(j)
        /\ j = k => LineEnd(j) = LineEnd(k)
    BY LinesApart
  <2>2. /\ LineEnd(j) + 1 <= n => f[LineEnd(j) + 1] \in {"a"} \X (1..Len(lines))
        /\ LineEnd(j) + 2 <= n => f[LineEnd(j) + 2] = <<"b", f[LineEnd(j) + 1][2]>>
        /\ LineEnd(j) + 3 <= n => f[LineEnd(j) + 3] = IF pad = 0 THEN NL ELSE BlankCell
        /\ LineEnd(j) + 4 <= n => pad = 0 \/ f[LineEnd(j) + 4] = NL
    BY DEF Lined
  <2>3. /\ n = LineEnd(k) => c \in {"a"} \X (1..Len(lines))
        /\ n = LineEnd(k) + 1 => c = <<"b", f[LineEnd(k) + 1][2]>>
        /\ n = LineEnd(k) + 2 => c = IF pad = 0 THEN NL ELSE BlankCell
        /\ n = LineEnd(k) + 3 => c = NL
        /\ LineEnd(k) <= n /\ n < LineEnd(k) + 3 + pad
    BY <1>3
  <2>4. j # k => LineEnd(j) # n /\ LineEnd(j) + 1 # n /\ LineEnd(j) + 2 # n /\ (pad = 1 => LineEnd(j) + 3 # n)
    <3>1. pad \in Nat
      BY DEF IsPad
    <3>2. n \in Nat /\ LineEnd(k) \in Nat /\ LineEnd(j) \in Nat
      BY <1>1, <1>3, <2>1
    <3>3. LineEnd(k) <= n /\ n < LineEnd(k) + 3 + pad
      BY <2>3
    <3>4. CASE j < k
      <4>1. LineEnd(j) + 3 + pad <= LineEnd(k)
        BY ONLY <2>1, <3>4
      <4>. QED BY ONLY <3>1, <3>2, <3>3, <4>1
    <3>5. CASE j > k
      <4>1. LineEnd(k) + 3 + pad <= LineEnd(j)
        BY ONLY <2>1, <3>5
      <4>. QED BY ONLY <3>1, <3>2, <3>3, <4>1
    <3>. QED BY ONLY <3>4, <3>5, j \in Nat, k \in Nat
  <2>. HIDE DEF f, g, n
  <2>5. LineEnd(j) + 1 <= n + 1 => g[LineEnd(j) + 1] \in {"a"} \X (1..Len(lines))
    <3>1. CASE LineEnd(j) = n
      BY <1>2, <2>1, <2>3, <2>4, <3>1
    <3>2. CASE LineEnd(j) + 1 <= n
      <4>1. LineEnd(j) + 1 \in 1..n
        BY <1>1, <2>1, <3>2
      <4>. QED BY <1>2, <2>2, <3>2, <4>1
    <3>. QED BY ONLY <1>1, <2>1, <3>1, <3>2
  <2>6. LineEnd(j) + 2 <= n + 1 => g[LineEnd(j) + 2] = <<"b", g[LineEnd(j) + 1][2]>>
    <3>. SUFFICES ASSUME LineEnd(j) + 2 <= n + 1 PROVE g[LineEnd(j) + 2] = <<"b", g[LineEnd(j) + 1][2]>>
      OBVIOUS
    <3>1. LineEnd(j) + 1 \in 1..n /\ g[LineEnd(j) + 1] = f[LineEnd(j) + 1]
      BY <1>1, <1>2, <2>1
    <3>2. CASE LineEnd(j) + 1 = n
      <4>1. j = k /\ n + 1 = LineEnd(j) + 2
        BY <1>1, <2>1, <2>4, <3>2
      <4>. QED BY <1>2, <2>3, <3>1, <3>2, <4>1
    <3>3. CASE LineEnd(j) + 2 <= n
      <4>1. LineEnd(j) + 2 \in 1..n
        BY <1>1, <2>1, <3>3
      <4>. QED BY <1>2, <2>2, <3>1, <3>3, <4>1
    <3>. QED BY ONLY <1>1, <2>1, <3>2, <3>3, LineEnd(j) + 2 <= n + 1
  <2>7. LineEnd(j) + 3 <= n + 1 => g[LineEnd(j) + 3] = IF pad = 0 THEN NL ELSE BlankCell
    <3>. SUFFICES ASSUME LineEnd(j) + 3 <= n + 1
                  PROVE  g[LineEnd(j) + 3] = IF pad = 0 THEN NL ELSE BlankCell
      OBVIOUS
    <3>2. CASE LineEnd(j) + 2 = n
      <4>1. j = k /\ n + 1 = LineEnd(j) + 3
        BY <1>1, <2>1, <2>4, <3>2
      <4>. QED BY <1>2, <2>3, <3>2, <4>1
    <3>3. CASE LineEnd(j) + 3 <= n
      <4>1. LineEnd(j) + 3 \in 1..n
        BY <1>1, <2>1, <3>3
      <4>. QED BY <1>2, <2>2, <3>3, <4>1
    <3>. QED BY ONLY <1>1, <2>1, <3>2, <3>3, LineEnd(j) + 3 <= n + 1
  <2>8. LineEnd(j) + 4 <= n + 1 => pad = 0 \/ g[LineEnd(j) + 4] = NL
    <3>. SUFFICES ASSUME LineEnd(j) + 4 <= n + 1, pad # 0 PROVE g[LineEnd(j) + 4] = NL
      OBVIOUS
    <3>1. pad = 1
      BY DEF IsPad
    <3>2. CASE LineEnd(j) + 3 = n
      <4>1. j = k /\ n + 1 = LineEnd(j) + 4
        BY <1>1, <2>1, <2>4, <3>1, <3>2
      <4>. QED BY <1>2, <2>3, <3>2, <4>1
    <3>3. CASE LineEnd(j) + 4 <= n
      <4>1. LineEnd(j) + 4 \in 1..n
        BY <1>1, <2>1, <3>3
      <4>. QED BY <1>2, <2>2, <3>1, <3>3, <4>1
    <3>. QED BY ONLY <1>1, <2>1, <3>2, <3>3, LineEnd(j) + 4 <= n + 1
  <2>. QED BY <2>5, <2>6, <2>7, <2>8
<1>6. files'[w] = g /\ Len(files'[w]) = n + 1 /\ files'[w] \in Seq(Cell)
  BY <1>2
<1>. HIDE DEF f, g, n
<1>. QED BY <1>4, <1>5, <1>6 DEF Lined

LEMMA TailsOfLiterals ==
    ASSUME NEW a, NEW b, NEW c, NEW d
    PROVE  /\ Tail(<<a>>) = <<>> /\ Tail(<<a, b>>) = <<b>>
           /\ Tail(<<a, b, c>>) = <<b, c>> /\ Tail(<<a, b, c, d>>) = <<b, c, d>>
<1>. DEFINE S == {a, b, c, d}
<1>1. <<a>> \in Seq(S) /\ <<a, b>> \in Seq(S) /\ <<a, b, c>> \in Seq(S) /\ <<a, b, c, d>> \in Seq(S)
  OBVIOUS
<1>2. <<b>> \in Seq(S) /\ <<b, c>> \in Seq(S) /\ <<b, c, d>> \in Seq(S)
  OBVIOUS
<1>3. Tail(<<a>>) = <<>>
  OBVIOUS
<1>4. Tail(<<a, b>>) = <<b>>
  <2>1. Tail(<<a, b>>) \in Seq(S) /\ Len(Tail(<<a, b>>)) = 1 /\ Len(<<b>>) = 1
    BY <1>1, HeadTailProperties
  <2>2. \A i \in 1..1 : Tail(<<a, b>>)[i] = <<b>>[i]
    OBVIOUS
  <2>. QED BY ONLY <1>2, <2>1, <2>2, SeqEqual
<1>5. Tail(<<a, b, c>>) = <<b, c>>
  <2>1. Tail(<<a, b, c>>) \in Seq(S) /\ Len(Tail(<<a, b, c>>)) = 2 /\ Len(<<b, c>>) = 2
    BY <1>1, HeadTailProperties
  <2>2. \A i \in 1..2 : Tail(<<a, b, c>>)[i] = <<b, c>>[i]
    OBVIOUS
  <2>. QED BY ONLY <1>2, <2>1, <2>2, SeqEqual
<1>6. Tail(<<a, b, c, d>>) = <<b, c, d>>
  <2>1. Tail(<<a, b, c, d>>) \in Seq(S) /\ Len(Tail(<<a, b, c, d>>)) = 3 /\ Len(<<b, c, d>>) = 3
    BY <1>1, HeadTailProperties
  <2>2. \A i \in 1..3 : Tail(<<a, b, c, d>>)[i] = <<b, c, d>>[i]
    OBVIOUS
  <2>. QED BY ONLY <1>2, <2>1, <2>2, SeqEqual
<1>. QED BY <1>3, <1>4, <1>5, <1>6

(* What the next cell of a line is, and what is left after it.             *)
NextCell(u, i) ==
    /\ Len(u) \in 1..(3 + pad) /\ Head(u) \in Cell
    /\ Len(u) = 3 + pad => Head(u) = <<"a", i>>
    /\ Len(u) = 2 + pad => Head(u) = <<"b", i>>
    /\ Len(u) = 1 + pad => Head(u) = IF pad = 0 THEN NL ELSE BlankCell
    /\ Len(u) = pad => Head(u) = NL
    /\ Len(Tail(u)) = Len(u) - 1
    /\ Tail(u) = <<>> => Len(u) = 1
    /\ Tail(u) # <<>> => Tail(u) \in Rests(i)

LEMMA RestIs ==
    ASSUME IsPad, NEW i \in Nat, NEW u \in Rests(i)
    PROVE  NextCell(u, i)
<1>. DEFINE a == <<"a", i>>
            b == <<"b", i>>
<1>1. a \in Cell /\ b \in Cell /\ NL \in Cell /\ BlankCell \in Cell
  BY DEF Cell, NL, BlankCell
<1>2. Rests(i) = IF pad = 0 THEN {<<a, b, NL>>, <<b, NL>>, <<NL>>}
                 ELSE {<<a, b, BlankCell, NL>>, <<b, BlankCell, NL>>, <<BlankCell, NL>>, <<NL>>}
  BY DEF Rests
<1>3. \A x : Head(<<x>>) = x /\ Len(<<x>>) = 1 /\ Tail(<<x>>) = <<>> /\ Len(<<>>) = 0
  OBVIOUS
<1>4. \A x, y : Head(<<x, y>>) = x /\ Len(<<x, y>>) = 2 /\ Tail(<<x, y>>) = <<y>>
  BY TailsOfLiterals
<1>5. \A x, y, z : Head(<<x, y, z>>) = x /\ Len(<<x, y, z>>) = 3 /\ Tail(<<x, y, z>>) = <<y, z>>
  BY TailsOfLiterals
<1>6. \A x, y, z, v : /\ Head(<<x, y, z, v>>) = x /\ Len(<<x, y, z, v>>) = 4
                      /\ Tail(<<x, y, z, v>>) = <<y, z, v>>
  <2>1. \A x, y, z, v : Tail(<<x, y, z, v>>) = <<y, z, v>>
    <3>. TAKE x, y, z, v
    <3>. QED BY TailsOfLiterals
  <2>2. \A x, y, z, v : Head(<<x, y, z, v>>) = x /\ Len(<<x, y, z, v>>) = 4
    OBVIOUS
  <2>. QED BY ONLY <2>1, <2>2, Zenon
<1>. HIDE DEF a, b
<1>7. CASE pad = 0
  <2>1. CASE u = <<a, b, NL>>
    <3>1. Head(u) = a /\ Len(u) = 3 /\ Tail(u) = <<b, NL>> /\ Len(Tail(u)) = 2
      BY ONLY <1>4, <1>5, <2>1
    <3>2. Tail(u) \in Rests(i)
      BY <1>2, <1>7, <3>1
    <3>. QED BY ONLY <1>1, <1>7, <3>1, <3>2 DEF NextCell, a
  <2>2. CASE u = <<b, NL>>
    <3>1. Head(u) = b /\ Len(u) = 2 /\ Tail(u) = <<NL>> /\ Len(Tail(u)) = 1
      BY ONLY <1>3, <1>4, <2>2
    <3>2. Tail(u) \in Rests(i)
      BY <1>2, <1>7, <3>1
    <3>. QED BY ONLY <1>1, <1>7, <3>1, <3>2 DEF NextCell, b
  <2>3. CASE u = <<NL>>
    <3>1. Head(u) = NL /\ Len(u) = 1 /\ Tail(u) = <<>> /\ Len(Tail(u)) = 0
      BY ONLY <1>3, <2>3
    <3>. QED BY ONLY <1>1, <1>7, <3>1 DEF NextCell
  <2>. QED BY <1>2, <1>7, <2>1, <2>2, <2>3
<1>8. CASE pad = 1
  <2>1. CASE u = <<a, b, BlankCell, NL>>
    <3>1. Head(u) = a /\ Len(u) = 4 /\ Tail(u) = <<b, BlankCell, NL>> /\ Len(Tail(u)) = 3
      BY ONLY <1>5, <1>6, <2>1
    <3>2. Tail(u) \in Rests(i)
      BY <1>2, <1>8, <3>1
    <3>. QED BY ONLY <1>1, <1>8, <3>1, <3>2 DEF NextCell, a
  <2>2. CASE u = <<b, BlankCell, NL>>
    <3>1. Head(u) = b /\ Len(u) = 3 /\ Tail(u) = <<BlankCell, NL>> /\ Len(Tail(u)) = 2
      BY ONLY <1>4, <1>5, <2>2
    <3>2. Tail(u) \in Rests(i)
      BY <1>2, <1>8, <3>1
    <3>. QED BY ONLY <1>1, <1>8, <3>1, <3>2 DEF NextCell, b
  <2>3. CASE u = <<BlankCell, NL>>
    <3>1. Head(u) = BlankCell /\ Len(u) = 2 /\ Tail(u) = <<NL>> /\ Len(Tail(u)) = 1
      BY ONLY <1>3, <1>4, <2>3
    <3>2. Tail(u) \in Rests(i)
      BY <1>2, <1>8, <3>1
    <3>. QED BY ONLY <1>1, <1>8, <3>1, <3>2 DEF NextCell
  <2>4. CASE u = <<NL>>
    <3>1. Head(u) = NL /\ Len(u) = 1 /\ Tail(u) = <<>> /\ Len(Tail(u)) = 0
      BY ONLY <1>3, <2>4
    <3>. QED BY ONLY <1>1, <1>8, <3>1 DEF NextCell
  <2>. QED BY <1>2, <1>8, <2>1, <2>2, <2>3, <2>4
<1>. QED BY <1>7, <1>8 DEF IsPad

LEMMA LeftOfLine ==
    ASSUME NEW a \in Nat, NEW l \in Nat, NEW z \in Nat, NEW p \in Nat,
           z = a + 3 + p - l, 1 <= z, z <= 3 + p
    PROVE  /\ l = a => z = 3 + p
           /\ l = a + 1 => z = 2 + p
           /\ l = a + 2 => z = 1 + p
           /\ l = a + 3 => z = p
           /\ a <= l /\ l < a + 3 + p
OBVIOUS

LEMMA AgentFlushesKeeps == ASSUME LogInv, AgentFlushes PROVE LogInv'
<1>. DEFINE i == Len(lines)
            w == lines[i].on
            f == files[w]
            g == files'[w]
            c == Head(unwritten)
            u == unwritten
<1>1. /\ u # <<>> /\ files' = [files EXCEPT ![w] = Append(@, c)] /\ unwritten' = Tail(u)
      /\ UNCHANGED <<kind, chunkSize, pad, lines, reader>>
  BY DEF AgentFlushes
<1>2. /\ IsPad /\ chunkSize \in Nat \ {0} /\ DOMAIN files = Wires /\ IsSeq(lines)
      /\ \A j \in 1..Len(lines) : lines[j].on \in Wires
      /\ \A v \in Wires : Lined(v) /\ EndsAtLine(v)
      /\ ReadOk(reader) /\ LogFileInv
      /\ Len(lines) > 0 /\ u \in Rests(i)
  BY <1>1 DEF LogInv, LogFileInv
<1>3. i \in Nat /\ i \in 1..i /\ w \in Wires
  <2>1. i \in Nat /\ i \in 1..i
    BY <1>2, SeqDomain
  <2>. QED BY <1>2, <2>1
<1>4. /\ DOMAIN files' = Wires /\ g = Append(f, c)
      /\ \A v \in Wires : v # w => files'[v] = files[v]
  <2>. HIDE DEF w, c
  <2>. QED BY <1>1, <1>2, <1>3
<1>5. NextCell(u, i)
  <2>. HIDE DEF u, i
  <2>. QED BY <1>2, <1>3, RestIs
<1>6. PICK k \in Nat : /\ Len(f) + Len(u) = LineEnd(k + 1)
                       /\ LineEnd(k) + 1 <= Len(f) => f[LineEnd(k) + 1][2] = i
  BY <1>1, <1>2, <1>3 DEF EndsAtLine
<1>. HIDE DEF i, w, f, g, c, u
<1>7. f \in Seq(Cell) /\ Len(f) \in Nat /\ Lined(w)
  BY <1>2, <1>3 DEF Lined, f
<1>8. /\ LineEnd(k) \in Nat /\ LineEnd(k + 1) = LineEnd(k) + 3 + pad /\ pad \in 0..1
      /\ Len(u) \in 1..(3 + pad)
  <2>1. LineEnd(k) \in Nat /\ LineEnd(k + 1) = LineEnd(k) + 3 + pad
    BY <1>2, LineEnds
  <2>. QED BY <1>2, <1>5, <2>1 DEF IsPad, NextCell
<1>9. c \in Cell
  BY <1>5 DEF NextCell, c, u
<1>10. /\ Len(f) = LineEnd(k) => c = <<"a", i>>
       /\ Len(f) = LineEnd(k) + 1 => c = <<"b", i>>
       /\ Len(f) = LineEnd(k) + 2 => c = IF pad = 0 THEN NL ELSE BlankCell
       /\ Len(f) = LineEnd(k) + 3 => c = NL
       /\ LineEnd(k) <= Len(f) /\ Len(f) < LineEnd(k + 1)
  <2>1. /\ Len(u) = 3 + pad => c = <<"a", i>>
        /\ Len(u) = 2 + pad => c = <<"b", i>>
        /\ Len(u) = 1 + pad => c = IF pad = 0 THEN NL ELSE BlankCell
        /\ Len(u) = pad => c = NL
    BY <1>5 DEF NextCell, c, u
  <2>2. Len(u) = LineEnd(k) + 3 + pad - Len(f)
    BY ONLY <1>6, <1>7, <1>8
  <2>3. /\ Len(f) = LineEnd(k) => Len(u) = 3 + pad
        /\ Len(f) = LineEnd(k) + 1 => Len(u) = 2 + pad
        /\ Len(f) = LineEnd(k) + 2 => Len(u) = 1 + pad
        /\ Len(f) = LineEnd(k) + 3 => Len(u) = pad
        /\ LineEnd(k) <= Len(f) /\ Len(f) < LineEnd(k + 1)
    <3>1. LineEnd(k) \in Nat /\ Len(f) \in Nat /\ pad \in Nat /\ Len(u) \in Nat
      BY ONLY <1>7, <1>8
    <3>2. 1 <= Len(u) /\ Len(u) <= 3 + pad /\ LineEnd(k + 1) = LineEnd(k) + 3 + pad
      BY ONLY <1>8
    <3>. DEFINE a == LineEnd(k)
                l == Len(f)
                z == Len(u)
    <3>3. /\ a \in Nat /\ l \in Nat /\ z \in Nat /\ pad \in Nat
          /\ z = a + 3 + pad - l /\ 1 <= z /\ z <= 3 + pad
      BY ONLY <2>2, <3>1, <3>2
    <3>4. LineEnd(k + 1) = a + 3 + pad
      BY ONLY <3>2
    <3>. HIDE DEF a, l, z
    <3>5. /\ l = a => z = 3 + pad
          /\ l = a + 1 => z = 2 + pad
          /\ l = a + 2 => z = 1 + pad
          /\ l = a + 3 => z = pad
          /\ a <= l /\ l < a + 3 + pad
      BY ONLY <3>3, LeftOfLine
    <3>. QED BY ONLY <3>4, <3>5 DEF a, l, z
  <2>. QED BY ONLY <2>1, <2>3
<1>11. /\ Len(g) = Len(f) + 1 /\ g[Len(f) + 1] = c
       /\ \A j \in 1..Len(f) : g[j] = f[j]
  BY <1>4, <1>7, <1>9, AppendProperties
<1>12. IsPad' /\ \A j : LineEnd(j)' = LineEnd(j)
  BY <1>1, <1>2 DEF IsPad, LineEnd
<1>13. ASSUME NEW v \in Wires, v = w PROVE Lined(v)'
  <2>0. f = files[v] /\ g = files'[v]
    BY <1>13 DEF f, g
  <2>1. Len(f) = LineEnd(k) => c \in {"a"} \X (1..Len(lines))
    BY <1>3, <1>10 DEF i
  <2>2. Len(f) = LineEnd(k) + 1 => c = <<"b", f[LineEnd(k) + 1][2]>>
    BY <1>6, <1>7, <1>8, <1>10
  <2>3. files'[v] = Append(files[v], c) /\ pad' = pad /\ lines' = lines /\ Lined(v)
    BY <1>1, <1>4, <1>7, <1>13, <2>0
  <2>4. /\ LineEnd(k) <= Len(files[v]) /\ Len(files[v]) < LineEnd(k + 1)
        /\ Len(files[v]) = LineEnd(k) => c \in {"a"} \X (1..Len(lines))
        /\ Len(files[v]) = LineEnd(k) + 1 => c = <<"b", files[v][LineEnd(k) + 1][2]>>
        /\ Len(files[v]) = LineEnd(k) + 2 => c = IF pad = 0 THEN NL ELSE BlankCell
        /\ Len(files[v]) = LineEnd(k) + 3 => c = NL
    BY ONLY <1>10, <2>0, <2>1, <2>2
  <2>. QED BY ONLY <1>2, <1>9, <2>3, <2>4, k \in Nat, CellAdded
<1>14. ASSUME NEW v \in Wires PROVE Lined(v)'
  <2>1. CASE v = w
    BY <1>13, <2>1
  <2>2. CASE v # w
    <3>1. Lined(v) /\ files'[v] = files[v] /\ lines' = lines /\ pad' = pad
      BY <1>1, <1>2, <1>4, <2>2
    <3>. QED BY ONLY <1>12, <3>1 DEF Lined
  <2>. QED BY <2>1, <2>2
<1>15. /\ Len(unwritten') = Len(u) - 1
       /\ unwritten' = <<>> => Len(u) = 1
       /\ unwritten' # <<>> => unwritten' \in Rests(i)
  BY <1>1, <1>5 DEF NextCell
<1>16. ASSUME NEW v \in Wires PROVE EndsAtLine(v)'
  <2>1. CASE v # w
    <3>1. PICK j \in Nat : Len(files[v]) = LineEnd(j)
      BY <1>1, <1>2, <2>1 DEF EndsAtLine, w, i, u
    <3>2. Len(files'[v]) = LineEnd(j)'
      BY <1>4, <1>12, <2>1, <3>1
    <3>3. lines'[Len(lines')].on # v
      BY <1>1, <2>1 DEF w, i
    <3>. QED BY <3>2, <3>3 DEF EndsAtLine
  <2>2. CASE v = w /\ unwritten' = <<>>
    <3>1. Len(files'[v]) = LineEnd(k + 1)'
      BY <1>6, <1>7, <1>11, <1>12, <1>15, <2>2 DEF g
    <3>2. k + 1 \in Nat
      OBVIOUS
    <3>. QED BY <2>2, <3>1, <3>2 DEF EndsAtLine
  <2>3. CASE v = w /\ unwritten' # <<>>
    <3>1. Len(g) + Len(unwritten') = LineEnd(k + 1)
      BY ONLY <1>6, <1>7, <1>8, <1>11, <1>15
    <3>2. LineEnd(k) + 1 <= Len(g) => g[LineEnd(k) + 1][2] = i
      <4>1. CASE Len(f) = LineEnd(k)
        BY <1>10, <1>11, <4>1
      <4>2. CASE LineEnd(k) + 1 <= Len(f)
        <5>1. LineEnd(k) + 1 \in 1..Len(f)
          BY ONLY <1>7, <1>8, <4>2
        <5>. QED BY <1>6, <1>11, <4>2, <5>1
      <4>. QED BY ONLY <1>7, <1>8, <1>10, <4>1, <4>2
    <3>3. g = files'[v] /\ i = Len(lines') /\ lines'[Len(lines')].on = v
      BY <1>1, <2>3 DEF g, i, w
    <3>. QED BY <1>12, <2>3, <3>1, <3>2, <3>3 DEF EndsAtLine
  <2>. QED BY <2>1, <2>2, <2>3
<1>17. LogFileInv'
  <2>1. IsSeq(lines)' /\ chunkSize' \in Nat \ {0} /\ \A j \in 1..Len(lines') : lines'[j].on \in Wires
    BY <1>1, <1>2 DEF IsSeq
  <2>2. Rests(Len(lines))' = Rests(i)
    BY <1>1 DEF Rests, i
  <2>3. unwritten' # <<>> => Len(lines') > 0 /\ unwritten' \in Rests(Len(lines))'
    BY <1>1, <1>2, <1>15, <2>2
  <2>. QED BY <1>4, <1>12, <1>14, <1>16, <2>1, <2>3 DEF LogFileInv
<1>18. ReadOk(reader)'
  <2>1. Longer(lines, lines')
    <3>1. Len(lines) \in Nat
      BY <1>3 DEF i
    <3>. QED BY <1>1, <3>1 DEF Longer
  <2>2. ASSUME NEW v \in Wires PROVE Longer(files[v], files'[v])
    <3>1. Len(files[v]) \in Nat
      BY <1>2 DEF Lined
    <3>2. CASE v = w
      BY <1>7, <1>11, <3>2 DEF Longer, f, g
    <3>3. CASE v # w
      BY <1>4, <3>1, <3>3 DEF Longer
    <3>. QED BY <3>2, <3>3
  <2>. QED BY <1>1, <1>2, <1>17, <2>1, <2>2, ReaderRests
<1>. QED BY <1>17, <1>18 DEF LogInv

LEMMA LogInvNext == LogInv /\ [LogNext]_logVars => LogInv'
<1>. SUFFICES ASSUME LogInv, [LogNext]_logVars PROVE LogInv'
  OBVIOUS
<1>1. CASE AgentWrites
  BY <1>1, AgentWritesKeeps
<1>2. CASE AgentFlushes
  BY <1>2, AgentFlushesKeeps
<1>3. CASE StartRead
  BY <1>3, StartReadKeeps
<1>4. CASE ReadChunk
  BY <1>4, ReadChunkKeeps
<1>5. CASE Ask
  BY <1>5, AskKeeps
<1>6. CASE UNCHANGED logVars
  <2>1. UNCHANGED <<kind, chunkSize, pad, lines, files, unwritten, reader>>
    BY <1>6 DEF logVars
  <2>2. LogFileInv /\ ReadOk(reader')
    BY <2>1 DEF LogInv
  <2>. QED BY <2>1, <2>2, ReaderMoves
<1>. QED BY <1>1, <1>2, <1>3, <1>4, <1>5, <1>6 DEF LogNext

LEMMA LogInvariant == LogSpec => []LogInv
BY LogInvInit, LogInvNext, PTL DEF LogSpec

LEMMA TellsTheEvents == LogInv => EventsFollowTheUser
<1>. SUFFICES ASSUME LogInv, reader.pc = "done"
              PROVE  \E m \in reader.whole..Len(Written("main")) :
                        LET seen == SubSeq(Written("main"), 1, m)
                            users == {n \in 1..Len(reader.got) : IsUser(lines[reader.got[n]])}
                            from == IF kind \in {"claude", "pi", "opencode"} THEN Max(users \cup {0}) ELSE 0
                            after == IF kind = "opencode" THEN Larger(from, 1) ELSE from + 1
                        IN  ReadEvents = CapEvents(EventLines(SubSeq(seen, after, m)))
  BY DEF EventsFollowTheUser
<1>1. LogFileInv /\ TellsInv(reader) /\ reader.whole \in Nat
  BY DEF LogInv, ReadOk
<1>2. PICK m \in Nat :
          /\ Passed(reader, m)
          /\ kind \in {"claude", "pi"} =>
                reader.shown = SubSeq(First("main", m), LastUser(reader.got) + 1, m)
          /\ kind \in {"codex", "kimi"} => reader.got = First("main", m)
          /\ kind = "opencode" =>
                reader.shown = SubSeq(First("main", m), Larger(LastUser(reader.got), 1), m)
          /\ kind \notin {"claude", "pi", "codex", "kimi", "opencode"} => reader.shown = First("main", m)
  BY <1>1 DEF TellsInv
<1>. DEFINE seen == SubSeq(Written("main"), 1, m)
            from == IF kind \in {"claude", "pi", "opencode"} THEN LastUser(reader.got) ELSE 0
            after == IF kind = "opencode" THEN Larger(from, 1) ELSE from + 1
            told == IF kind \in {"codex", "kimi"} THEN reader.got ELSE reader.shown
<1>3. seen = First("main", m)
  <2>1. /\ Written("main") = First("main", Len(Written("main")))
        /\ Len(Written("main")) \in Nat /\ m <= Len(Written("main"))
    BY <1>1, <1>2, MainFacts DEF Passed
  <2>. QED BY <2>1 DEF First
<1>4. SubSeq(First("main", m), 1, m) = First("main", m)
  BY DEF First
<1>5. told = SubSeq(seen, after, m)
  <2>. HIDE DEF seen
  <2>1. CASE kind \in {"claude", "pi"}
    BY <1>2, <1>3, <2>1
  <2>2. CASE kind \in {"codex", "kimi"}
    BY <1>2, <1>3, <1>4, <2>2
  <2>3. CASE kind = "opencode"
    BY <1>2, <1>3, <2>3
  <2>4. CASE kind \notin {"claude", "pi", "codex", "kimi", "opencode"}
    BY <1>2, <1>3, <1>4, <2>4
  <2>. QED BY <2>1, <2>2, <2>3, <2>4
<1>6. m \in reader.whole..Len(Written("main"))
  BY <1>1, <1>2, MainFacts DEF Passed
<1>7. ReadEvents = CapEvents(EventLines(SubSeq(seen, after, m)))
  <2>1. ReadEvents = CapEvents(EventLines(told))
    BY DEF ReadEvents
  <2>. HIDE DEF told, seen, after
  <2>. QED BY <1>5, <2>1
<1>8. LastUser(reader.got) = Max({n \in 1..Len(reader.got) : IsUser(lines[reader.got[n]])} \cup {0})
  BY DEF LastUser
<1>. QED BY <1>6, <1>7, <1>8

(***************************************************************************)
(* What a reader of a session tells as events is the whole lines after the *)
(* user's last message, in order and without a gap, for chunks and files   *)
(* of any length and however the agent's writes and the reader's chunks    *)
(* cut the lines (readSessionContent, forEachJsonlLineCore, two-pass.ts).  *)
(***************************************************************************)
THEOREM EventsFollowTheUserHolds == LogSpec => []EventsFollowTheUser
BY LogInvariant, TellsTheEvents, PTL
=============================================================================
