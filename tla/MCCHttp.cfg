CONSTANTS
  Client = {"a", "b", "c"}
  Path <- Path1
  Sends <- Sends1
  Root = "root"
  Garbled = "garbled"
  None = none
  MAX_EPOLL_EVENTS = 4

SPECIFICATION FairSpec

CHECK_DEADLOCK FALSE

INVARIANTS
  TypeOK
  RepliesMatchRequests
  CountIsOpenSockets
PROPERTIES
  LastAcceptedIsAnswered
