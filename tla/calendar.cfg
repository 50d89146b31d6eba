SPECIFICATION Spec
CONSTANTS
  b1 = b1
  b2 = b2
  b3 = b3
  m1 = m1
  c1 = c1
  r1 = r1
  r2 = r2
  Bookings = {b1, b2, b3}
  Masters = {m1}
  Clients = {c1}
  NoBooking = NoBooking
  MasterOf <- OneMaster
  ClientOf <- OneClient
  Duration <- TwoOrThree
  InstantMasters = {m1}
  Requests = {r1, r2}
  Jobs = {}
  Ops = {"Create", "Reschedule", "Accept", "MasterCancel", "Complete"}
  InitialStatuses = {"NONE", "PENDING", "IN_PROGRESS"}
  Starts = {1, 3}
  Horizon = 0
  MIN_LEAD = 1
  EARLY_START_WINDOW = 2
  RESCHEDULE_WINDOW = 1
  MAX_OPEN_PENDING = 1
  MAX_RESCHEDULE = 1
  INSTANT_BOOK_MIN_SCORE = 90
  MAX_ATTEMPTS = 2
  EXPIRY_BATCH = 2
  MaxFaults = 0
INVARIANTS
  MasterNoOverlap
  CapsOvershoot
PROPERTIES
  ImplementsCalendar
SYMMETRY CalendarSymmetry
\* Once every booking has reached a terminal status the service is idle.
CHECK_DEADLOCK FALSE
