SPECIFICATION Spec
CONSTANTS
  Keys <- MCKeys
  Versions = 5
  Casts <- MCCasts
  None = None
INVARIANTS
  TypedTextSurvives
  NothingUnseenIsOverwritten
  AutosaveCatchesUp
