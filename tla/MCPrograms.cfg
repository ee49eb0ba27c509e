\* The logging library
CONSTANTS
  Caller = {t1, t2}
  Nobody = nobody
  LogFile = {f1}
  stderr = stderr
  Level = {LERR, LINFO}
  LERR = LERR
  Quiet = TRUE

\* The word counter
  NoWord = none
  Char <- Char1
  Space <- Space1
  MAX_WORD_LENGTH <- MaxLength1
  Word <- Word1
  hash <- Hash1
  Files <- Files1
  InitSize = 1
  MaxAdds = 15

\* The log parser
  Q = "q"
  S = "s"
  Number <- Number1
  File = {"a", "b", "c"}
  Content <- Content1
  threads_num = 2
  topsize = 2
  INT = 8
  SIZE = 16

\* A narrow board on which whole rows are soon filled
  BOX_W = 4
  BOX_H = 5
  START_X = 0
  KEY_PERIOD = 1
  FALL_PERIOD = 2
  Kinds = {2, 3, 7}

\* The search for pictures and archives
  FF = "FF"
  D8 = "D8"
  D9 = "D9"
  P = "P"
  K = "K"
  LocalType = "local"
  Size <- Size1
  MAX_FILENAME_LENGTH = 3
  Inputs <- Inputs1

\* More answer than fits into the buffer
  Addresses = 2
  Banner = 3
  Answer = 6
  Echo = 2
  BUF_SIZE = 5

\* The tree of files
  Root = "root"
  Dir = {"root", "d1", "d2"}
  RegularFile = {"f", "g", "h"}
  Trees <- Trees1

SPECIFICATION ProgramsSpec

\* The programs end.
CHECK_DEADLOCK FALSE

INVARIANTS
  LoggerTypeOK
  MessageWhole
  TableTypeOK
  EveryWordIsFound
  CountsAreRight
  FittingWordsAreCounted
  ParserTypeOK
  EveryLineCountedOnce
  SharesThatFitAreExact
  TopIsHeaviest
  TetrisTypeOK
  NoFullRowRemains
  BelowIsNeverFull
  SearchStopsAtSignature
  ArchiveIsListed
  PromptAnswerIsShown
  HangsInOwnDirectory

PROPERTIES
  CallsReturn
  AddReturns
  PutTakesFreeCells
  ScanCollapses
  BlockComes
