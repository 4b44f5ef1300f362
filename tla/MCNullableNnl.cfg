CONSTANTS
  Nil = Nil
  Eof = "%eof"
  Start = "%start"
  Grammars <- Decl
SPECIFICATION Spec
INVARIANT NnlIsNonNullableLength
CHECK_DEADLOCK FALSE
