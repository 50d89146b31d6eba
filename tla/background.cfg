SPECIFICATION BackgroundSpec
CONSTANTS
  a1 = a1
  a2 = a2
  m1 = m1
  p1 = p1
  None = None
  Bookings = {b1, b2}
  Sources = {b1, b2}
  Requests = {r1, r2}
  Ratings = {1, 5}
  Mutable = {"REVIEW_INVITATION"}
  Menus <- MenusSmall
  MaxCrashes = 1
  Files = {a1, a2, m1, p1}
  Avatars = {a1, a2}
  Misdeclared = {m1}
  FirstAvatar = a1
  NoFile = NoFile
  Uploaders = {r1, r2}
  BatchSize = 1
  Uploads <- UploadsSmall
  UploadCrashes = 1
  Visits = {b1, b2}
  Lead = 3
  Window = 2
  ReminderBatch = 1
  LastRun = 6
  u1 = u1
  u2 = u2
  v1 = v1
  s1 = s1
  s2 = s2
  n1 = n1
  n2 = n2
  Clients = {u1, u2}
  Masters = {v1}
  Sockets = {s1, s2}
  Nodes = {n1, n2}
  OwnerOf <- TwoOwners
  NodeOf <- TwoNodes
  Pairs <- TwoPairs
  Engagements <- EngagementsSmall
  MaxEvents = 1
  MaxDeaths = 1
CHECK_DEADLOCK FALSE
INVARIANTS
  NoticeOnce
  YoungFileKeepsObject
  RemindedOnce
  RelayReaches
PROPERTIES
  RatingHeals
  
  
  
