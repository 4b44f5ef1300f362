CONSTANTS
  Graphs <- Relations
  Base <- Self
SPECIFICATION Spec
INVARIANTS Sound StackDiscipline
PROPERTIES PopsSolved Terminates
CHECK_DEADLOCK FALSE
