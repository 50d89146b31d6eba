SPECIFICATION ServicesSpec
CONSTANTS
  c1 = c1
  c2 = c2
  c3 = c3
  None = None
  Tokens = {t1, t2, t3}
  Links = {k1, k2, k3}
  Requests = {r1, r2}
  Menus <- MenusSmall
  Cats = {c1, c2, c3, c4}
  NoCat = NoCat
  Admins = {r1, r2}
  Planted <- Chain
  MaxDepth = 3
  MaxEdits = 2
  Messages = {1, 2, 3}
  PageLimit = 1
  MaxInstant = 1
  Entries = {k1, k2, k3}
  NoEntry = NoEntry
  Tabs = {r1, r2}
  MaxSaved = 2
  Judges = {r1, r2}
  DayEnd = 6
  Weeks <- WeeksSmall
  Exceptions <- ExceptionsSmall
  BusyLists <- BusySmall
  Durations = {1, 2}
  NoException = NoException
  DayOff = DayOff
  Editors = {r1, r2}
  Rows = {1, 2, 3}
  Keys = {1, 2, 3}
  Limits = {1, 2}
  Ties <- Either
  Listed <- AllLists
  MaxChanges = 1
CHECK_DEADLOCK FALSE
SYMMETRY Interchangeable
INVARIANTS
  LinkServesOnce
  
  SlotsExact
  WalkComplete
  RepeatsExplained
PROPERTIES
  FamiliesImplemented
  ClosedStaysClosed
  
  NothingMissed
  OwnListsKept
  VerdictStands
  ApprovalLawful
