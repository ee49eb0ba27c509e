CONSTANTS
  Q = "q"
  S = "s"
  Number <- Number1
  File = {"a", "b", "c"}
  Content <- Content1
  threads_num = 2
  topsize = 2
  INT = 8
  SIZE = 16

SPECIFICATION ParserSpec

CHECK_DEADLOCK FALSE

INVARIANT
  RefererIsCounted
