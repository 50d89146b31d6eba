SPECIFICATION ScheduleSpec
CONSTANTS
  DayEnd = 6
  Weeks <- WeeksSmall
  Exceptions <- ExceptionsSmall
  BusyLists <- BusySmall
  Durations = {1, 2}
  NoException = NoException
  DayOff = DayOff
  Editors = {e1, e2}
CHECK_DEADLOCK FALSE
INVARIANTS
  EveryWindowOffered
