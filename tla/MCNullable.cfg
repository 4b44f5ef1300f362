CONSTANTS
  Nil = Nil
  Eof = "%eof"
  Start = "%start"
  Grammars <- Every
SPECIFICATION Spec
INVARIANTS TypeOK ExactAtEnd NnlExactForNonNullable IntrusiveListsSound
PROPERTIES Refines Terminates
CHECK_DEADLOCK FALSE
