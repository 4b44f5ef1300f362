CONSTANTS
  Nil = Nil
  Eof = "%eof"
  Start = "%start"
  Grammars <- Files
  MaxBuckets = 8
  AddrMaps <- OneMap
  MaxTokens = 5
  MaxReduces = 8
SPECIFICATION FairSpec
INVARIANTS AcceptsSentences AcceptsOnlySentences NeverUnderflows ValuesInOrder
PROPERTY CallsReturn
CHECK_DEADLOCK FALSE
