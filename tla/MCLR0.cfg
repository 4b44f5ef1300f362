CONSTANTS
  Nil = Nil
  Eof = "%eof"
  Start = "%start"
  Grammars <- Every
  MaxBuckets = 2
  AddrMaps <- SomeMaps
SPECIFICATION Spec
INVARIANTS KernelsUnique GototabsExact ClosureFits ReservedStates
PROPERTIES Refines Terminates
CHECK_DEADLOCK FALSE
