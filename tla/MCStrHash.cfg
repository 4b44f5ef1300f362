CONSTANTS
  Keys <- FourNames
  Payloads <- TwoSymbols
  Buckets <- TwoBuckets
  Nil = Nil
SPECIFICATION Spec
INVARIANTS OneItemPerKey ChainsExact
PROPERTY Refines
