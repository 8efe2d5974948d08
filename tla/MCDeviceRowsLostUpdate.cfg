SPECIFICATION RowsSpec
CONSTANTS
  a = a
  b = b
  Device = {a, b}
  Kinds <- Edits
  MaxHolds = 3
  MaxOps = 3
  MaxUid = 1
  MaxFaults = 0
INVARIANT CleanIsSent
