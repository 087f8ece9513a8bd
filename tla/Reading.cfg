SPECIFICATION ReadingSpec
CONSTANTS
  Header <- MCHeader
  OddIds = {"odd"}
  NoId = "no"
  Casts <- MCCasts
  MaxSteps = 3
  Shells = {"one", "two"}
  Tabs = {"left", "right"}
  Accounts = {"ann", "bob"}
  KeyIds = {"k0", "k1", "k2"}
  Ports = {1, 2}
  LoginCasts <- MCLoginCasts
  Nobody = "nobody"
INVARIANTS ConversationsAreRight ReadsFindTheirMail LoginsHold
CHECK_DEADLOCK FALSE
