CONSTANTS
  FF = "FF"
  D8 = "D8"
  D9 = "D9"
  P = "P"
  K = "K"
  LocalType = "local"
  Size <- Size1
  MAX_FILENAME_LENGTH = 3
  Inputs <- Inputs1
\* More answer than fits into the buffer
  Addresses = 2
  Banner = 3
  Answer = 6
  Echo = 2
  BUF_SIZE = 5
  Root = "root"
  Dir = {"root", "d1", "d2"}
  RegularFile = {"f", "g", "h"}
  Trees <- Trees1

SPECIFICATION ToolsSpec

\* The programs end.
CHECK_DEADLOCK FALSE

INVARIANT HangsUnderOwnDirectory
