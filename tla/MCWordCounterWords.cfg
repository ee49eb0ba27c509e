CONSTANTS
  NoWord = none
  Char <- Char1
  Space <- Space1
  MAX_WORD_LENGTH <- MaxLength1
  Word <- Word1
  hash <- Hash1
  Files <- Files1
  InitSize = 1
  MaxAdds = 15

SPECIFICATION CounterSpec

CHECK_DEADLOCK FALSE

INVARIANT WordsAreCounted
