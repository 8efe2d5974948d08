SPECIFICATION Spec
CONSTANTS
  r1 = r1  r2 = r2  r3 = r3  n1 = n1  n2 = n2  c1 = c1  c2 = c2  k1 = k1  k2 = k2
  nokey = nokey  ow = ow  p1 = p1  p2 = p2  x = x  d1 = d1  d2 = d2  d3 = d3
  Request = {r1, r2}
  Owned = {1, 2, 3}
  StorageLimit = 2
  SpaceLimit = 2
  Note = {n1, n2}
  Chunk = {c1, c2}
  BlobKey = {k1, k2}
  NoKey = nokey
  Kept = 1
  MaxStops = 1
  Person = {ow, p1, p2}
  Maker = ow
  MaxUses = 1
  MaxMembers = 2
  MaxLinks = 1
  Connection = {c1, c2}
  Address = {x}
  PerCaller <- PerCallerCaps
  Total <- TotalCaps
  Largest = 2
  Grace = 1
  Device = {d1, d2}
  Code = {k1}
  MaxRequests = 2
  MaxKeys = 1
  MaxWrong = 1
  Socket = {d1, d2, d3}
  Owner <- Owners
  MaxQueued = 0
  MaxNews = 2
  Popout = {n1}
  Asker = {r1}
  MaxCloses = 2
  MaxMoves = 3
  MaxLaunches = 6
  MaxCrashes = 2
  Retries = 3
  Profile = {1}
  Opener = {r1}
  MaxStarts = 3
INVARIANTS
  RevisionsReadable
  PlacesKept
  GatesBalanced
  SessionsRest
  
  
  NobodyIsAbandoned
PROPERTIES
  PlanKept
  RequestsEnd
  OrphansGo
  JoinsAreAuthorised
  RoomComesBack
  NothingUnsavedCloses
  CancelledHolds
  FrozenThaws
  ImplementsSwitch
  FenceFalls
CHECK_DEADLOCK FALSE
