SPECIFICATION PartsSpec
CONSTANTS
  Account = {o, m, t}
  Item = {main, note}
  Main = main
  Rev = {r1, r2, gone}
  Tombstone = {gone}
  NoRev = norev
  NoAccount = nobody
  Keep = 1
  ItemSets = {{main}, {note}, {main, note}}
  DepSets = {{}, {note}}
  Cursors <- NoStoken
  Coll = {c1}
  MaxNum = 4
  a = a
  b = b
  Device = {a, b}
  Kinds <- Deletes
  MaxHolds = 3
  MaxOps = 3
  MaxUid = 4
  MaxFaults = 0
INVARIANTS
  DeletedIsEmpty
  AuthorityIsLive
  RowsBehindStoken
  NumbersAreUnique
PROPERTIES
  LossIsAnnounced
  DeletionIsFinal
  CursorSettles
  RowsAgree
CHECK_DEADLOCK FALSE
