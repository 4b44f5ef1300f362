CONSTANTS
  Nil = Nil
  Addresses <- SomeAddresses
  Reserve = 1
  Viable <- ViablePrefix
  Words = {"a", "b"}
  Runs = {"x"}
  Pragmas = {"%name", "%type", "%start_symbol", "%fallback", "%syntax_error"}
  MaxPieces = 7
SPECIFICATION TextsSpec
INVARIANTS BlocksSound CallsMeanSource AcceptsRulesOnly StringsKept ValuesUsedOnce
CHECK_DEADLOCK FALSE
