CONSTANTS
  IntBits = 32
  UnitSize = 64
  Names = {a, b}
  Universe = 95
  Numbers <- SomeNumbers
  Asked <- SafeNumbers
SPECIFICATION UtilitiesSpec
INVARIANT BehavesAsSet
PROPERTIES ReportsGrowth SortsAscending EndsAsReported LineEnds
CHECK_DEADLOCK FALSE
