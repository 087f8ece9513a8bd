CONSTANTS
  Casts <- MCCasts
  Window = 4
  MaxQueued = 5
  AckBatch = 3
  MaxFrame = 2
  SocketBuffer = 1
  Gone = Gone
  Junk = Junk
SPECIFICATION Spec
INVARIANTS
  RelayCarriesAll
  RepliesAreTheirs
PROPERTIES
  KeepsSubmitPromise
  SubmissionsSettle
