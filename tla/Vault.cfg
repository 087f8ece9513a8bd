SPECIFICATION VaultSpec
CONSTANTS
  t1 = t1
  t2 = t2
  t3 = t3
  Tabs = {t1, t2, t3}
  DeviceOf <- MCDeviceOf
  Types = {"draft", "consents", "address"}
  Contents = {v1, v2, v3}
  None = None
  MaxFaults = 1
  p1 = p1
  p2 = p2
  p3 = p3
  Browsers = {t1, t2}
  Passkeys = {p1, p2, p3}
  Passwords = {w1, w2}
  CliKeys = {key}
  Casts <- UnlockCasts
  Null = None
  MaxRequests = 3
  MaxDeks = 2
SYMMETRY Symmetry
INVARIANTS
  CasStaysReadable
  FreshReads
  EveryWayInOpensTheVault
PROPERTIES
  SignedOutPlantNothing
CHECK_DEADLOCK FALSE
