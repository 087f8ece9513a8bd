SPECIFICATION Spec
CONSTANTS
  Ids = {1, 2, 3}
  Casts <- MCCasts
  Messages <- MCMessages
  MaxLiteral = 8
  LiteralMinusMax = 4
  MaxUid = 1000
  None = None
INVARIANTS
  AnswersInStep
  ChangesAreHeard
  NoCallIsStranded
CHECK_DEADLOCK FALSE
