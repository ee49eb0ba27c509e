CONSTANTS
  s1 = s1
  s2 = s2
  f1 = f1
  f2 = f2
  NoName = none
  NoClient = nobody
  Client = {c1, c2}
  Name = {s1, s2, f1, f2}
  Configs <- FileEdits
  DefSocket = s2
  DefFile = f1
  SocketOpt = none
  FileOpt = none
  need_fork = TRUE
  Signals = {"TERM", "HUP"}
  HangUps = TRUE

SPECIFICATION FairSpec

INVARIANTS
  TypeOK
  SocketFileFollowsDaemon

PROPERTIES
  EveryTextIsServed
  TermEndsAtNextClient
