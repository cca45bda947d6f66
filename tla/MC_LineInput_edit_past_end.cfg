CONSTANTS
  a = a
  b = b
  Nul = Nul
  Eof = Eof
  Chars <- MC_Chars
  NUL = Nul
  EOF = Eof
  Sizes <- MC_Sizes
  Histories <- MC_Histories
  StreamMayEnd = TRUE
  MaxLen = 2
  MaxHistory = 3
SPECIFICATION Spec
INVARIANTS
  NoEditPastEnd
\* a full line at the end of the stream, or an edit past the end of the
\* string, is where the model stops
CHECK_DEADLOCK FALSE
