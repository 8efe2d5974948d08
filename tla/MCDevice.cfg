SPECIFICATION DeviceSpec
CONSTANTS
  a = a  b = b  f1 = f1  f2 = f2  f3 = f3  c1 = c1  c2 = c2  n1 = n1  n2 = n2  n3 = n3  n4 = n4  p1 = p1  p2 = p2
  Device = {a, b}
  Kinds <- Deletes
  MaxHolds = 3
  MaxOps = 2
  MaxUid = 4
  MaxFaults = 1
  Folder = {f1, f2, f3}
  MaxChanges = 4
  MaxActs = 1
  Collection = {c1, c2}
  Note = {n1}
  MaxCommands = 5
  MaxItems = 4
  Picture = {n1, n2}
  MaxImages = 3
  MaxUploads = 2
  MaxImageActs = 3
  Profile = {p1, p2}
  MaxVersions = 3
  MaxUpdates = 1
  MaxStumbles = 1
  MaxAttempts = 2
SYMMETRY Symmetry
INVARIANTS
  NothingSkipped SentOnce 
  NothingLeftBehind ScopesFollowFolders ImagesStay WindowsAreOwed
CHECK_DEADLOCK FALSE
