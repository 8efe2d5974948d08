SPECIFICATION RowsSpec
CONSTANTS
  a = a
  b = b
  Device = {a, b}
  Kinds <- Stops
  MaxHolds = 3
  MaxOps = 2
  MaxUid = 2
  MaxFaults = 0
INVARIANT OwnContentComesBack
