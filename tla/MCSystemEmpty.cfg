CONSTANTS
  Nil = Nil
  Eof = "%eof"
  Start = "%start"
  Grammars <- EmptyRule
  MaxBuckets = 8
  AddrMaps <- OneMap
  MaxTokens = 4
  MaxReduces = 8
SPECIFICATION Spec
INVARIANT AcceptsWithoutConflicts
CHECK_DEADLOCK FALSE
