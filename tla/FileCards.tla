------------------------------- MODULE FileCards -------------------------------
(***************************************************************************)
(* The file cards of the router: /ls, its buttons, /cd and /download       *)
(* (router/index.ts cmdLs, cmdCd, cmdDownload and the "ls." handlers),     *)
(* over a directory tree that others change.  A click runs its handler at  *)
(* once, outside the lanes; the card it makes replaces the one clicked on, *)
(* later, and in any order with that of another click.  Sizes of files,    *)
(* wording and the session that /cd resumes are left out.                  *)
(***************************************************************************)
EXTENDS ListCards, FiniteSetsExt, SequencesExt, TLC

CONSTANTS
    Paths,       \* absolute paths
    Parent,      \* [Paths -> Paths], the root its own
    LocaleOrder, \* the paths as localeCompare sorts their names
    FirstTree,   \* [Paths -> {"dir", "file", "big", "none"}], what is there at first
    Matches,     \* the paths whose name contains the word one searches for
    Unreadable,  \* directories that cannot be read
    LsPageSize,  \* LS_PAGE_SIZE
    MaxCards,    \* bound: cards sent
    MaxClicks,   \* bound: clicks and commands
    MaxChanges   \* bound: changes made to the tree by others

NoPath == "-"

ASSUME FileAssumption ==
    /\ Parent \in [Paths -> Paths]
    /\ LsPageSize \in Nat \ {0}
    /\ {MaxCards, MaxClicks, MaxChanges} \subseteq Nat
    /\ NoPath \notin Paths

NoCard == [kind |-> "none"]

VARIABLES
    tree,       \* [Paths -> what is there]
    fileCwd,    \* the directory of the user
    fileCards,  \* the messages with a card: what each shows
    patches,    \* updates on their way: [to, card]
    delivered,  \* files sent to the chat
    \* History variables
    starts,     \* the directory /ls was given, of each message
    clicks, changes

fileVars == <<tree, fileCwd, fileCards, patches, delivered, starts, clicks, changes>>

FileInit ==
    /\ tree = FirstTree
    /\ fileCwd \in Paths
    /\ tree[fileCwd] = "dir"
    /\ fileCards = <<>>
    /\ patches = {}
    /\ delivered = {}
    /\ starts = <<>>
    /\ clicks = 0
    /\ changes = 0

IsDir(p) == p \in Paths /\ tree[p] = "dir"
Children(dir) == {p \in Paths \ {dir} : Parent[p] = dir /\ tree[p] # "none"}

(* The entries of a directory, folders first, each with whether it is one; *)
(* the filter comes after the sort and before the page.                    *)
Entries(dir, q) ==
    LET listed == {p \in Children(dir) : q = NoInput \/ p \in Matches}
        inOrder == SelectSeq(LocaleOrder, LAMBDA p : p \in listed)
    IN  SelectSeq(inOrder, LAMBDA p : IsDir(p)) \o SelectSeq(inOrder, LAMBDA p : ~ IsDir(p))

Button(cmd, path, root) == [cmd |-> cmd, path |-> path, root |-> root, offset |-> 0, q |-> NoInput]

(* The row of buttons below the title.                                     *)
HeaderButtons(c) ==
    (IF Parent[c.dir] # c.dir THEN {Button("ls.browse", Parent[c.dir], c.root)} ELSE {})
        \cup (IF c.dir # c.root THEN {Button("ls.browse", c.root, c.root)} ELSE {})
        \cup {[Button("ls.refresh", c.dir, c.root) EXCEPT !.offset = c.offset, !.q = c.q]}
        \cup (IF c.elsewhere THEN {Button("ls.switch", c.dir, c.root)} ELSE {})

(* A button for each entry of the page.                                    *)
EntryButtons(c) ==
    {IF e.isDir THEN Button("ls.browse", e.path, c.root) ELSE Button("ls.file", e.path, NoPath) : e \in ToSet(c.items)}

(* The search row and the pagination bar, with their input boxes.          *)
SearchAndPages(c) ==
    {Button("ls.filter", c.dir, c.root)}
        \cup {Button("ls.clear", c.dir, c.root) : cleared \in SearchBar(c.q) \ {FALSE}}
        \cup (IF c.total > LsPageSize
              THEN {[Button("ls.page", c.dir, c.root) EXCEPT !.offset = o, !.q = c.q] :
                      o \in PaginationBar(c, LsPageSize, c.total)}
                   \cup {[Button("ls.jump", c.dir, c.root) EXCEPT !.q = c.q]}
              ELSE {})

ListCard(dir, root, offset, q) ==
    LET entries == Entries(dir, q)
        slice == PageSlice(entries, offset, LsPageSize)
    IN  [kind |-> "list", dir |-> dir, root |-> root, q |-> q, elsewhere |-> dir # fileCwd,
         items |-> [i \in DOMAIN slice.items |-> [path |-> slice.items[i], isDir |-> IsDir(slice.items[i])]],
         total |-> Len(entries), offset |-> slice.offset]

(* buildFileCard: browsing starts where the file is.                       *)
FileCard(file) == [kind |-> "file", dir |-> Parent[file], root |-> Parent[file], file |-> file]

Buttons(c) ==
    IF c.kind = "file"
    THEN {Button("ls.file", c.file, NoPath), Button("ls.browse", c.dir, c.root)}
    ELSE HeaderButtons(c) \cup EntryButtons(c) \cup SearchAndPages(c)

(* Mutant of CmdLs: the way back leads to the directory of the user.       *)
CmdLsFromCwd(path, offset, root, q) ==
    IF path # NoPath /\ tree[path] = "none" THEN NoCard
    ELSE IF path # NoPath /\ ~ IsDir(path) THEN FileCard(path)
    ELSE LET dir == IF path = NoPath THEN fileCwd ELSE path
         IN  IF IsDir(dir) /\ dir \notin Unreadable
             THEN ListCard(dir, IF root = NoPath THEN fileCwd ELSE root, offset, q)
             ELSE NoCard

(* cmdLs, from the directory of the user when no path is given.  What is   *)
(* not there or cannot be read gives a text instead of a card.             *)
CmdLs(path, offset, root, q) ==
    IF path # NoPath /\ tree[path] = "none" THEN NoCard
    ELSE IF path # NoPath /\ ~ IsDir(path) THEN FileCard(path)
    ELSE LET dir == IF path = NoPath THEN fileCwd ELSE path
         IN  IF IsDir(dir) /\ dir \notin Unreadable
             THEN ListCard(dir, IF root = NoPath THEN dir ELSE root, offset, q)
             ELSE NoCard

-----------------------------------------------------------------------------
(* Commands.                                                               *)

(* A card is sent as a new message.                                        *)
SendCard(card, start) ==
    IF card = NoCard \/ Len(fileCards) = MaxCards
    THEN UNCHANGED <<fileCards, starts>>
    ELSE /\ fileCards' = Append(fileCards, card)
         /\ starts' = Append(starts, start)

(* /ls and /ls <path>.                                                     *)
Ls(path) ==
    LET card == CmdLs(path, 0, NoPath, NoInput)
    IN  /\ SendCard(card, IF path = NoPath THEN fileCwd ELSE IF IsDir(path) THEN path ELSE Parent[path])
        /\ UNCHANGED <<tree, fileCwd, patches, delivered>>

(* /cd: the directory must be there.  ".." is resolved before that.        *)
Cd(path) ==
    /\ fileCwd' = IF IsDir(path) THEN path ELSE fileCwd
    /\ UNCHANGED <<tree, fileCards, patches, delivered, starts>>

(* deliverFileToFeishu: a file of at most 30 MB.                           *)
DeliverFileToFeishu(path) == delivered' = delivered \cup (IF tree[path] = "file" THEN {path} ELSE {})

(* /download.                                                              *)
Download(path) ==
    /\ DeliverFileToFeishu(path)
    /\ UNCHANGED <<tree, fileCwd, fileCards, patches, starts>>

-----------------------------------------------------------------------------
(* Clicks: m is the message, v the value of the button, i the text.        *)

(* updateCardInPlace, as far as the handler goes: the update is on its way *)
(* while other clicks are handled.  An undefined card is refused, and so   *)
(* is the message that would replace it: nothing is seen.                  *)
UpdateCardInPlace(m, card) ==
    /\ UNCHANGED <<tree, fileCards, delivered, starts>>
    /\ patches' = IF card = NoCard THEN patches ELSE patches \cup {[to |-> m, card |-> card]}

(* ls.switch: the user moves there, the start of the browsing stays.       *)
HandleLsSwitch(m, v) ==
    /\ IF IsDir(v.path)
       THEN /\ fileCwd' = v.path
            /\ UpdateCardInPlace(m, CmdLs(v.path, 0, v.root, NoInput)')
       ELSE UNCHANGED <<tree, fileCwd, fileCards, patches, delivered, starts>>

(* ls.refresh: what has gone is replaced by the directory of the user.     *)
HandleLsRefresh(m, v) ==
    /\ UpdateCardInPlace(m, CmdLs(IF IsDir(v.path) THEN v.path ELSE NoPath, v.offset, v.root, v.q))
    /\ UNCHANGED fileCwd

(* ls.page, by a button or by the number of a page.                        *)
HandleLsPage(m, v, i) ==
    LET asked == PagingOffset(v.offset, i, LsPageSize)
    IN  /\ IF asked.ok /\ IsDir(v.path)
           THEN UpdateCardInPlace(m, CmdLs(v.path, asked.offset, v.root, v.q))
           ELSE UNCHANGED <<tree, fileCards, patches, delivered, starts>>
        /\ UNCHANGED fileCwd

(* ls.filter: from the first page.                                         *)
HandleLsFilter(m, v, i, cleared) ==
    LET q == SearchQueryFrom(i, cleared)
    IN  /\ IF IsDir(v.path)
           THEN UpdateCardInPlace(m, CmdLs(v.path, 0, v.root, q))
           ELSE UNCHANGED <<tree, fileCards, patches, delivered, starts>>
        /\ UNCHANGED fileCwd

(* ls.browse: another directory, from its first page, unfiltered.          *)
HandleLsBrowse(m, v) ==
    /\ IF IsDir(v.path)
       THEN UpdateCardInPlace(m, CmdLs(v.path, 0, v.root, NoInput))
       ELSE UNCHANGED <<tree, fileCards, patches, delivered, starts>>
    /\ UNCHANGED fileCwd

(* ls.file.                                                                *)
CardLsFile(v) ==
    /\ DeliverFileToFeishu(v.path)
    /\ UNCHANGED <<tree, fileCwd, fileCards, patches, starts>>

ClickFile(m) ==
    \E v \in Buttons(fileCards[m]) :
       \/ v.cmd = "ls.switch" /\ HandleLsSwitch(m, v)
       \/ v.cmd = "ls.refresh" /\ HandleLsRefresh(m, v)
       \/ v.cmd = "ls.page" /\ HandleLsPage(m, v, NoInput)
       \/ v.cmd = "ls.jump" /\ \E i \in {Word, DigitsOf(0), DigitsOf(2), DigitsOf(9)} : HandleLsPage(m, v, i)
       \/ v.cmd = "ls.filter" /\ \E i \in {NoInput, Word} : HandleLsFilter(m, v, i, FALSE)
       \/ v.cmd = "ls.clear" /\ HandleLsFilter(m, v, NoInput, TRUE)
       \/ v.cmd = "ls.browse" /\ HandleLsBrowse(m, v)
       \/ v.cmd = "ls.file" /\ CardLsFile(v)

-----------------------------------------------------------------------------
(* What goes on outside.                                                   *)

(* An update arrives; or it fails, and the card is sent as a new message,  *)
(* which may fail too.                                                     *)
PatchLands(p) ==
    /\ patches' = patches \ {p}
    /\ \/ fileCards' = [fileCards EXCEPT ![p.to] = p.card] /\ UNCHANGED starts
       \/ SendCard(p.card, starts[p.to])
    /\ UNCHANGED <<tree, fileCwd, delivered, clicks, changes>>

(* Somebody deletes or creates what has nothing below it.                  *)
TreeChanges(p) ==
    /\ changes < MaxChanges
    /\ changes' = changes + 1
    /\ Parent[p] # p
    /\ Children(p) = {}
    /\ IsDir(Parent[p])
    /\ \E k \in {"dir", "file", "none"} \ {tree[p]} : tree' = [tree EXCEPT ![p] = k]
    /\ UNCHANGED <<fileCwd, fileCards, patches, delivered, starts, clicks>>

FileCommand(path) == Ls(path) \/ Cd(path) \/ Download(path)

FileNext ==
    \/ /\ clicks < MaxClicks
       /\ clicks' = clicks + 1
       /\ changes' = changes
       /\ \/ Ls(NoPath)
          \/ \E p \in Paths : FileCommand(p)
          \/ \E m \in DOMAIN fileCards : ClickFile(m)
    \/ \E p \in patches : PatchLands(p)
    \/ \E p \in Paths : TreeChanges(p)

FileSpec == FileInit /\ [][FileNext]_fileVars

-----------------------------------------------------------------------------
(* Properties.                                                             *)

(* The way back on a card leads to the directory the person asked /ls for, *)
(* however they browse, page, filter, refresh or move (/cd and "switch")   *)
(* in between: the start travels in the buttons, never in the program.     *)
ReturnLeadsToStart ==
    \A m \in DOMAIN fileCards : fileCards[m].root = starts[m]
=============================================================================
