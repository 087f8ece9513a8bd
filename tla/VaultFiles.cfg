SPECIFICATION FilesSpec
CONSTANTS
  d1 = d1
  d2 = d2
  Devices = {d1, d2}
  OldBuilds = {d2}
  Casts <- MCCasts
  Files = {f1, f2, f3}
  None = None
  MaxVersion = 3
  u1 = u1
  u2 = u2
  u3 = u3
  r1 = r1
  r2 = r2
  x1 = x1
  x2 = x2
  MaxId = 3
  Sizes = {1, 2}
  Cap = 3
  Uploads = {u1, u2, u3}
  Removals = {r1, r2}
  Resets = {x1, x2}
  Plans <- MCPlans
  PageSize = 2
  MaxFaults = 1
SYMMETRY Symmetry
INVARIANTS
  NamedFilesStand
  UnsavedFilesStand
  BytesAreCounted
  AnsweredFilesStand
CHECK_DEADLOCK FALSE
