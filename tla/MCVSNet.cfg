CONSTANTS
  pA = pA
  pB = pB
  mA = mA
  mB = mB
  a1 = a1
  a2 = a2
  b1 = b1
  MAC = {mA, mB}
  Broadcast = ff
  Addr = {a1, a2, b1}
  Alike <- SameAddress
  Port = {pA, pB}
  Behind <- OneStation
  Local <- OwnAddresses
  Frame <- Unicasts
  Stranger = {other}
  SwitchAddr = switch
  NoAddr = none
  MaxInFlight = 2

SPECIFICATION FairNetSpec

INVARIANTS
  NetTypeOK
  NoEcho
PROPERTY EventuallyLocated
