CONSTANTS
  a = a
  b = b
  Nul = Nul
  Eof = Eof
  Chars <- MC_Chars
  NUL = Nul
  EOF = Eof
  Sizes <- MC_Sizes
  Histories <- MC_Histories
  StreamMayEnd = TRUE
  MaxLen = 2
  MaxHistory = 3
SPECIFICATION Spec
INVARIANTS
  TypeOK
  HistoryBounded
\* an undefined edit stops the program, and an ended stream can fill the
\* line to its bound: those states have no successor
CHECK_DEADLOCK FALSE
