SPECIFICATION Spec
CONSTANTS
  Clients = {c1, c2}
  Messages = {m1, m2}
  Ops = {o1, o2, o3}
  None = None
  Homes = {"imap", "nofolder", "vault"}
  ProviderFiles = TRUE
  MaxVersion = 2
  MaxFaults = 1
SYMMETRY Symmetry
INVARIANTS
  OneSubmissionPerAsk
  RecordIsTruthful
  MaybeSentIsRemembered
PROPERTIES
  AcceptedIsFinal
  KeepsPromise
CHECK_DEADLOCK FALSE
