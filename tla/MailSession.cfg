CONSTANTS
  Folders <- MCFolders
  FolderOrder <- MCOrder
  Clients = {"a", "b"}
  Casts <- MCCasts
  NoMark = NoMark
  NoFile = NoFile
  NoSnap = NoSnap
  NoTask = NoTask
  NoRun = NoRun
  Window = 2
SPECIFICATION Spec
INVARIANTS
  CacheIsTheFolder
  AQuietPassSettles
  WritesHold
  NothingAfterTheLock
