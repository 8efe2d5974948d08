SPECIFICATION FairSpec
CONSTANTS
  s1 = s1
  s2 = s2
  phone = phone
  laptop = laptop
  ann = ann
  Socket = {s1, s2}
  Session = {phone, laptop}
  Account = {ann}
  Opened <- MCOpened
  Holder <- MCHolder
  MaxEvents = 2
INVARIANTS NobodyStays NobodyIsForgotten
PROPERTY SocketsFollow
