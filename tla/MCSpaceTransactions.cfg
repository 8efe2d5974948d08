SPECIFICATION FairSpec
CONSTANTS
  Account = {o, m}
  Item = {main}
  Main = main
  Rev = {r1, gone}
  Tombstone = {gone}
  NoRev = norev
  NoAccount = nobody
  Keep = 1
  ItemSets = {{main}}
  DepSets = {{}}
  Cursors <- MCCursors
  Coll = {c1, c2}
  MaxNum = 3
  Tx = {t1, t2}
  NoTx = notx
PROPERTIES
  ImplementsLog
  
CHECK_DEADLOCK FALSE
