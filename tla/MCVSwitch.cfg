CONSTANTS
  m1 = m1
  m2 = m2
  m3 = m3
  h1 = h1
  h2 = h2
  p1 = p1
  p2 = p2
  Broadcast = ff
  MAC = {m1, m2, m3}
  Host = {h1, h2}
  UdpPort = {p1, p2}
  Addr <- TwoPorts
  Traffic <- AnyTraffic
  MaxAge = 1

SPECIFICATION FairSpec

INVARIANTS
  TypeOK
  TableIsRecentlyHeard
  TickNeverLost

PROPERTIES
  ImplementsLearningSwitch
  SilentStationForgotten
