----------------------------- MODULE WorkspaceCards -----------------------------
(***************************************************************************)
(* The saved workspaces: workspace/index.ts, the /ws command and its list  *)
(* card (router/index.ts), and the /active card, whose pages run over two  *)
(* lists.  The clock is the machine's: it stands still between two quick   *)
(* clicks, and it may be set back.                                         *)
(***************************************************************************)
EXTENDS ListCards, FiniteSetsExt, SequencesExt

CONSTANTS
    WsNames,        \* alias names, in alphabetical order
    WsDirs,         \* directories, each there or gone
    WsMatches,      \* the names found by the word one searches for
    WsPageSize,     \* WS_PAGE_SIZE
    ActivePageSize, \* ACTIVE_PAGE_SIZE
    MaxClock,       \* bound: readings of the clock
    MaxRuns,        \* bound: runs of agents, and of bash, at a time
    MaxWsClicks     \* bound: commands and clicks

ASSUME WorkspaceAssumption ==
    /\ {WsPageSize, ActivePageSize} \subseteq Nat \ {0}
    /\ {MaxClock, MaxRuns, MaxWsClicks} \subseteq Nat
    /\ "-" \notin ToSet(WsNames)

NoList == [names |-> <<>>, offset |-> 0, total |-> 0, q |-> NoInput, at |-> 0]
Unset == [path |-> "-", lastUsedAt |-> 0]

VARIABLES
    saved,       \* WorkspaceStore.data: [WsNames -> entry, Unset when there is none]
    wsFile,      \* workspace.json
    sortMode,    \* wsSortPreference of the user
    wsCwd,       \* the directory of the user
    gone,        \* directories that are not there
    clock,
    wsCard,      \* what the list card shows
    runCounts,   \* runs of agents and of bash, in the order /active lists them
    activeCard,  \* what the card of /active shows
    \* History variables
    lastSaved,   \* the name saved or used last
    wsClicks

wsVars == <<saved, wsFile, sortMode, wsCwd, gone, clock, wsCard, runCounts, activeCard, lastSaved, wsClicks>>

WsNameSet == ToSet(WsNames)

WsInit ==
    /\ wsFile = [n \in WsNameSet |-> Unset]
    /\ saved = wsFile
    /\ sortMode = "recent"
    /\ wsCwd \in WsDirs
    /\ gone = {}
    /\ clock \in 1 .. MaxClock
    /\ wsCard = NoList
    /\ runCounts \in [agents : 0 .. MaxRuns, bash : 0 .. MaxRuns]
    /\ activeCard = <<>>
    /\ lastSaved = "-"
    /\ wsClicks = 0

-----------------------------------------------------------------------------
(* The store.                                                              *)

SavedNames == {n \in WsNameSet : saved[n] # Unset}

(* load: a file of the old format has paths only; their time is 0.         *)
LoadWorkspaces == wsFile

(* Mutant of Touch: the time of the clock, whatever the others have.       *)
TouchNow(data, n) == [data EXCEPT ![n].lastUsedAt = clock]

(* touch: later than every other entry, when the clock has not moved on.   *)
Touch(data, n) ==
    LET others == {data[m].lastUsedAt : m \in {x \in WsNameSet \ {n} : data[x] # Unset}}
        latest == Max(others \cup {clock, data[n].lastUsedAt})
    IN  [data EXCEPT ![n].lastUsedAt = IF \E t \in others : t >= clock THEN latest + 1 ELSE latest]

(* save: saving is a use.                                                  *)
SaveWorkspace(n, dir) == Touch([saved EXCEPT ![n] = [path |-> dir, lastUsedAt |-> 0]], n)

(* persist: the memory keeps a change whose write fails, and the command   *)
(* fails with it.                                                          *)
PersistWorkspaces(data, ok) == saved' = data /\ wsFile' = IF ok THEN data ELSE wsFile

-----------------------------------------------------------------------------
(* The list.                                                               *)

Before(m, n) ==
    LET byName == \E i, j \in DOMAIN WsNames : WsNames[i] = m /\ WsNames[j] = n /\ i < j
    IN  IF sortMode = "alpha" \/ saved[m].lastUsedAt = saved[n].lastUsedAt THEN byName
        ELSE saved[m].lastUsedAt > saved[n].lastUsedAt

(* cmdWs list: sorted, filtered, then cut into pages.                      *)
WsList(offset, q) ==
    LET inOrder == SetToSortSeq(SavedNames, Before)
        visible == SelectSeq(inOrder, LAMBDA n : q = NoInput \/ n \in WsMatches)
        slice == PageSlice(visible, offset, WsPageSize)
    IN  [names |-> slice.items, offset |-> slice.offset, total |-> Len(visible), q |-> q, at |-> slice.page]

(* Its buttons.                                                            *)
WsButton(cmd, name, offset, q) == [cmd |-> cmd, name |-> name, offset |-> offset, q |-> q]

WsButtons(c) ==
    {WsButton(cmd, n, c.offset, c.q) : cmd \in {"ws.use", "ws.remove"}, n \in ToSet(c.names)}
        \cup {WsButton("ws.filter", "-", 0, NoInput), WsButton("ws.sort", "-", 0, c.q)}
        \cup {WsButton("ws.page", "-", o, c.q) : o \in PaginationBar(c, WsPageSize, c.total)}

(* cmdWs save, use and remove.                                             *)
WsSave(n, ok) ==
    /\ PersistWorkspaces(SaveWorkspace(n, wsCwd), ok)
    /\ lastSaved' = n
    /\ UNCHANGED <<sortMode, wsCwd, wsCard>>

(* The directory must be there; the use is recorded, then one moves.       *)
WsUse(n, ok) ==
    /\ IF n \in SavedNames /\ saved[n].path \notin gone
       THEN /\ PersistWorkspaces(Touch(saved, n), ok)
            /\ wsCwd' = IF ok THEN saved[n].path ELSE wsCwd
            /\ lastSaved' = n
       ELSE UNCHANGED <<saved, wsFile, wsCwd, lastSaved>>
    /\ UNCHANGED sortMode

WsRemove(n, ok) ==
    /\ IF n \in SavedNames
       THEN /\ PersistWorkspaces([saved EXCEPT ![n] = Unset], ok)
            /\ lastSaved' = IF lastSaved = n THEN "-" ELSE lastSaved
       ELSE UNCHANGED <<saved, wsFile, lastSaved>>
    /\ UNCHANGED <<sortMode, wsCwd>>

(* refreshListCard: the page asked for, of the list as it is now.          *)
RefreshListCard(offset, q) == wsCard' = WsList(offset, q)'

-----------------------------------------------------------------------------
(* The clicks.                                                             *)

(* ws.use: the list is redrawn when one has moved.                         *)
HandleWsUse(v, ok) ==
    /\ WsUse(v.name, ok)
    /\ IF v.name \in SavedNames /\ saved[v.name].path \notin gone /\ ok THEN RefreshListCard(v.offset, v.q) ELSE UNCHANGED wsCard

(* ws.remove: and also when it was gone already; a failed write is thrown. *)
HandleWsRemove(v, ok) ==
    /\ WsRemove(v.name, ok)
    /\ IF ok THEN RefreshListCard(v.offset, v.q) ELSE UNCHANGED wsCard

HandleWsPage(v, i) ==
    LET asked == PagingOffset(v.offset, i, WsPageSize)
    IN  /\ UNCHANGED <<saved, wsFile, sortMode, wsCwd, lastSaved>>
        /\ IF asked.ok THEN RefreshListCard(asked.offset, v.q) ELSE UNCHANGED wsCard

HandleWsFilter(i, cleared) ==
    /\ UNCHANGED <<saved, wsFile, sortMode, wsCwd, lastSaved>>
    /\ RefreshListCard(0, SearchQueryFrom(i, cleared))

HandleWsSort(v) ==
    /\ sortMode' = IF sortMode = "recent" THEN "alpha" ELSE "recent"
    /\ UNCHANGED <<saved, wsFile, wsCwd, lastSaved>>
    /\ RefreshListCard(0, v.q)

ClickWs(ok) ==
    \E v \in WsButtons(wsCard) :
       \/ v.cmd = "ws.use" /\ HandleWsUse(v, ok)
       \/ v.cmd = "ws.remove" /\ HandleWsRemove(v, ok)
       \/ v.cmd = "ws.page" /\ ok /\ \E i \in {NoInput, Word, DigitsOf(9)} : HandleWsPage(v, i)
       \/ v.cmd = "ws.filter" /\ ok /\ \E i \in {NoInput, Word}, cleared \in SearchBar(wsCard.q) : HandleWsFilter(i, cleared)
       \/ v.cmd = "ws.sort" /\ ok /\ HandleWsSort(v)

-----------------------------------------------------------------------------
(* /active.                                                                *)

(* cmdActive, buildActiveCardFromMemory: the page is cut from the runs of  *)
(* the agents first, and what room is left from those of bash.             *)
BuildActiveCardFromMemory(agents, bash, offset) ==
    LET info == PageInfo(Len(agents) + Len(bash), offset, ActivePageSize)
        within == info.offset < Len(agents)
        ofAgents == IF within THEN SubSeq(agents, info.offset + 1, Min({info.offset + ActivePageSize, Len(agents)})) ELSE <<>>
        skipped == IF within THEN 0 ELSE info.offset - Len(agents)
        room == ActivePageSize - Len(ofAgents)
        ofBash == IF skipped < Len(bash) /\ room > 0 THEN SubSeq(bash, skipped + 1, Min({skipped + room, Len(bash)})) ELSE <<>>
    IN  ofAgents \o ofBash

AgentRuns(n) == [i \in 1 .. n |-> [kind |-> "agent", run |-> i]]
BashRuns(n) == [i \in 1 .. n |-> [kind |-> "bash", run |-> i]]

(* active.page, and /active itself.                                        *)
HandleActivePage(offset, i) ==
    LET asked == NormalizePageArgs(ActivePageSize, offset, i, ActivePageSize)
    IN  /\ activeCard' = IF asked.ok /\ runCounts.agents + runCounts.bash > 0
                         THEN BuildActiveCardFromMemory(AgentRuns(runCounts.agents), BashRuns(runCounts.bash), asked.offset)
                         ELSE activeCard
        /\ UNCHANGED <<saved, wsFile, sortMode, wsCwd, wsCard, lastSaved>>

-----------------------------------------------------------------------------

WsList0 == wsCard' = WsList(0, NoInput) /\ UNCHANGED <<saved, wsFile, sortMode, wsCwd, lastSaved>>

WsCommand ==
    /\ wsClicks < MaxWsClicks
    /\ wsClicks' = wsClicks + 1
    /\ UNCHANGED <<gone, clock, runCounts>>
    /\ \/ WsList0 /\ UNCHANGED activeCard
       \/ \E ok \in BOOLEAN :
            \/ \E n \in WsNameSet :
                 /\ \/ WsSave(n, ok)
                    \/ WsUse(n, ok) /\ UNCHANGED wsCard
                    \/ WsRemove(n, ok) /\ UNCHANGED wsCard
                 /\ UNCHANGED activeCard
            \/ ClickWs(ok) /\ UNCHANGED activeCard
       \/ \E offset \in 0 .. MaxRuns, i \in {NoInput, DigitsOf(1), DigitsOf(3), Word} : HandleActivePage(offset, i)

(* The clock is read anew, later or earlier; directories come and go; the  *)
(* process starts again from the file, with the default order.             *)
Meanwhile ==
    /\ \/ clock' \in (1 .. MaxClock) \ {clock} /\ UNCHANGED <<saved, sortMode, gone, lastSaved>>
       \/ \E d \in WsDirs : gone' = (IF d \in gone THEN gone \ {d} ELSE gone \cup {d}) /\ UNCHANGED <<saved, sortMode, clock, lastSaved>>
       \/ /\ saved # wsFile \/ sortMode # "recent"
          /\ saved' = LoadWorkspaces
          /\ sortMode' = "recent"
          /\ lastSaved' = IF saved = wsFile THEN lastSaved ELSE "-"
          /\ UNCHANGED <<clock, gone>>
    /\ UNCHANGED <<wsFile, wsCwd, wsCard, runCounts, activeCard, wsClicks>>

WsNext == WsCommand \/ Meanwhile

WsSpec == WsInit /\ [][WsNext]_wsVars

-----------------------------------------------------------------------------
(* Properties.                                                             *)

(* What was saved or used last heads the list by use, even when the clock  *)
(* stands still or is set back, and across a restart.                      *)
LastUsedIsFirst ==
    \A n \in SavedNames \ {lastSaved} : lastSaved \in SavedNames => saved[lastSaved].lastUsedAt > saved[n].lastUsedAt

=============================================================================
