SPECIFICATION Spec
CONSTANTS
  Keys <- MCKeys
  Versions = 5
  Casts <- MCCastsReopen
  None = None
INVARIANT
  AnswersStayInTheirOpening
