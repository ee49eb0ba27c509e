CONSTANTS
  m1 = m1
  m2 = m2
  m3 = m3
  h1 = h1
  h2 = h2
  p1 = p1
  p2 = p2
  Broadcast = ff
  MAC = {m1, m2}
  Host = {h1, h2}
  UdpPort = {p1}
  Addr <- SameNumber
  Traffic <- AnyTraffic
  MaxAge = 0

SPECIFICATION Spec

PROPERTY FramesGoAsDocumented
