SPECIFICATION RowsSpec
CONSTANTS
  a = a
  b = b
  Device = {a, b}
  Kinds <- AllKinds
  MaxHolds = 3
  MaxOps = 2
  MaxUid = 2
  MaxFaults = 1
SYMMETRY Symmetry
INVARIANTS AccountCursorBehind RoutedHome
 
