SPECIFICATION Spec
CONSTANTS
  Base = 3
  Start = 2
  Messages <- MCMessages
  NoiseBound = 4
  SendBound = 3
CHECK_DEADLOCK FALSE
INVARIANTS
  TypeOK
  ParserScans
  Resynchronises
