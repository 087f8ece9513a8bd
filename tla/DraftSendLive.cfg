SPECIFICATION FairSpec
CONSTANTS
  Clients = {c1, c2}
  Messages = {m1}
  Ops = {o1, o2, o3}
  None = None
  Homes = {"imap"}
  ProviderFiles = FALSE
  MaxVersion = 1
  MaxFaults = 1
PROPERTIES
  HeldEnds
  AcceptedIsFinished
CHECK_DEADLOCK FALSE
