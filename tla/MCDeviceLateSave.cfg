SPECIFICATION DeviceSpec
CONSTANTS
  a = a  b = b  f1 = f1  f2 = f2  f3 = f3  c1 = c1  c2 = c2  n1 = n1  n2 = n2  n3 = n3  n4 = n4  p1 = p1  p2 = p2
  Device = {a}
  Kinds <- Deletes
  MaxHolds = 1
  MaxOps = 1
  MaxUid = 1
  MaxFaults = 0
  Folder = {f1}
  MaxChanges = 1
  MaxActs = 1
  Collection = {c1}
  Note = {n1}
  MaxCommands = 1
  MaxItems = 1
  Picture = {n2, n3, n4}
  MaxImages = 3
  MaxUploads = 0
  MaxImageActs = 5
  Profile = {p1}
  MaxVersions = 1
  MaxUpdates = 1
  MaxStumbles = 0
  MaxAttempts = 1
SYMMETRY NoteSymmetry
INVARIANT LateSavesResolve
CHECK_DEADLOCK FALSE
