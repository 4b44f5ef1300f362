CONSTANTS
  IntBits = 32
  UnitSize = 64
  Names = {a}
  Universe = 3
  Numbers <- Terminals
  Asked <- AllSymbols
SPECIFICATION Spec
INVARIANT SizeCountsHas
