CONSTANTS
  Nil = Nil
  Eof = "%eof"
  Start = "%start"
  Grammars <- Every
  MaxBuckets = 8
  AddrMaps <- OneMap
SPECIFICATION Spec
INVARIANTS LookaheadsSound LookaheadsComplete ConflictsExact ArraysFaithful
