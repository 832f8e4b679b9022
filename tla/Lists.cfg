SPECIFICATION Spec
CONSTANTS
  Paths = {"/", "a", "b", "f", "g"}
  Parent <- MCParent
  LocaleOrder <- MCOrder
  FirstTree <- MCTree
  Matches = {"f"}
  Unreadable = {}
  LsPageSize = 2
  MaxCards = 2
  MaxClicks = 3
  MaxChanges = 1
  Texts = {"t"}
  BadText = "long"
  Names = {"x"}
  BadName = "x y"
  MaxOrders = 2
  OrderPageSize = 1
  MaxOrderIds = 3
  MaxOrderCards = 2
  MaxOrderClicks = 7
  WsNames <- MCNames
  WsDirs = {"A"}
  WsMatches = {"a"}
  WsPageSize = 1
  ActivePageSize = 1
  MaxClock = 2
  MaxRuns = 1
  MaxWsClicks = 4
  ConfigAgents = {"codex", "dsh", "kimi", "opencode"}
  ModelsOf <- MCModels
  EffortsOf <- MCEfforts
  MaxEdits = 2
  MaxConfigCards = 2
  ReaderKinds = {"claude", "pi", "codex", "kimi", "opencode", "dsh"}
  ChunkSizes = {2, 4}
  MaxLines = 3
  MaxEvents = 2
  Cwds = {"a", "a2", "b"}
  Dirs = {"A", "B"}
  DirOf <- MCDirOf
  SessionIds = {"s"}
  MaxStamp = 4
  MaxAsks = 2
INVARIANTS
  LastUsedIsFirst
  EventsFollowTheUser
  ResponsesCountOnce
  IndexTellsTheFile
  SessionIsFound
  ReturnLeadsToStart
  DeletedStaysDeleted
  NoCardGoesBack
CHECK_DEADLOCK FALSE
