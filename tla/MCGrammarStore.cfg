CONSTANTS
  Nil = Nil
  Eof = Eof
  Start = Start
  a = a
  b = b
  c = c
  Names <- SomeNames
  Typed <- SomeTyped
  RightSides <- SomeRightSides
  Types = {x}
  MaxRules = 2
SPECIFICATION Spec
INVARIANT ListSound
PROPERTY CompletesAsDefined
CHECK_DEADLOCK FALSE
