SPECIFICATION RowsSpec
CONSTANTS
  a = a
  b = b
  Device = {a}
  Kinds <- JustMoves
  MaxHolds = 3
  MaxOps = 3
  MaxUid = 2
  MaxFaults = 0
INVARIANT NoOldIdentity
