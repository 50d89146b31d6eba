SPECIFICATION Spec
CONSTANTS
  b1 = b1
  b2 = b2
  b3 = b3
  m1 = m1
  c1 = c1
  r1 = r1
  r2 = r2
  Bookings = {b1}
  Masters = {m1}
  Clients = {c1}
  NoBooking = NoBooking
  MasterOf <- OneMaster
  ClientOf <- OneClient
  Duration <- TwoUnits
  InstantMasters = {}
  Requests = {r1, r2}
  Jobs = {}
  Ops = {"Reject", "ClientCancel"}
  InitialStatuses = {"PENDING"}
  Starts = {1, 2}
  Horizon = 0
  MIN_LEAD = 1
  EARLY_START_WINDOW = 2
  RESCHEDULE_WINDOW = 2
  MAX_OPEN_PENDING = 2
  MAX_RESCHEDULE = 1
  INSTANT_BOOK_MIN_SCORE = 90
  MAX_ATTEMPTS = 3
  EXPIRY_BATCH = 2
  MaxFaults = 0
PROPERTIES
  TerminalIsFinal
\* Once every booking has reached a terminal status the service is idle.
CHECK_DEADLOCK FALSE
