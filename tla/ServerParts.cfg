SPECIFICATION PartsSpec
CONSTANTS
  Goroutine = {w1, w2, w3, w4}
  Closers = {w1, w2}
  Nobody = Nobody
  Half = 4
  Write = 6
  Stall = 1
  Delay = 2
  Patience = 16
  a1 = a1
  a2 = a2
  p1 = p1
  p2 = p2
  Address = {a1, a2, p1, p2}
  Networks <- TwoNetworks
  NoAddress = NoAddress
  MaxSent = 2
  MaxHops = 2
  MaxRooms = 2
  MaxProxies = 2
  Files <- MCFiles
  Generated <- MCGenerated
  h1 = h1
  h2 = h2
  g1 = g1
  g2 = g2
  d1 = d1
  d2 = d2
  NoIPv4 = NoIPv4
  IPv4 <- MCIPv4
  Device = {d1, d2}
  Subnets <- ThreeSubnets
  Routes <- MCRoutes
  Links <- MCLinks
  Overrides = {NoIPv4, h1}
INVARIANTS PartsTypeOK WritersKeptApart  TrueClientCharged  LeastMetricGateway
PROPERTIES WritesEnd
