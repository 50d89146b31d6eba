SPECIFICATION InboundSpec
CONSTANTS
  c1 = c1
  c2 = c2
  k1 = k1
  p1 = p1
  p2 = p2
  e1 = e1
  NoKey = NoKey
  NoCall = NoCall
  Calls = {c1, c2}
  Keys = {k1}
  Routes = {"checkout", "booking"}
  MaxFaults = 2
  Products = {p1, p2}
  MAX_ITEM_QUANTITY = 1
  Quantities = {1}
  Editors = {e1}
  Served <- EveryEndpoint
  Nobody = Nobody
  MaxLosses = 1
  i1 = i1
  i2 = i2
  Ips = {i1, i2}
  Emails = {e1}
  NoEmail = NoEmail
  Crowds <- CrowdsSmall
  Owners = {e1}
  Limit = 2
  Ttl = 3
  Grace = 1
  LastMoment = 5
  m1 = m1
  m2 = m2
  m3 = m3
  o1 = o1
  o2 = o2
  o3 = o3
  h1 = h1
  h2 = h2
  h3 = h3
  NoTopic = NoTopic
  NoQuery = NoQuery
  Pros = {m1, m2, m3}
  Offers = {o1, o2, o3}
  OwnerOf <- OwnerSmall
  Topics = {h1, h2, h3}
  Joined <- JoinedSmall
  Away <- AwaySmall
  Reach <- ReachSmall
  Now = 1
  Market <- MarketSmall
  Queries <- QueriesSmall
  Errands = {"profile", "section", "favorite", "recent"}
  MaxChanges = 1
  MaxCalls = 2
  v1 = v1
  v2 = v2
  v3 = v3
  w1 = w1
  w2 = w2
  a1 = a1
  a2 = a2
  Visits = {v1, v2, v3}
  PriceOf <- PriceSmall
  ClientOf <- ClientSmall
  TradeOf <- TradeSmall
  Trades = {w1, w2}
  Areas = {a1, a2}
  AreaOf <- AreaSmall
  WindowDays = 2
  Ledgers <- LedgersSmall
  MaxMoves = 1
INVARIANTS
  KeyOrdersOnce
  SuccessesAgree
  ReplayMatchesRequest
  EntitledAreServed
  BurstBounded
  SearchSound
  
PROPERTIES
  LinesLeaveOrdered
  
  
CHECK_DEADLOCK FALSE
