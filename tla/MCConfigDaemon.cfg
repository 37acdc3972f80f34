SPECIFICATION FairSpec
CONSTANTS
  c1 = c1
  c2 = c2
  u1 = u1
  u2 = u2
  item = item
  block = block
  list = list
  one = one
  Client <- Both
  Stream <- Both
  ClientOf <- SameClient
  User = {u1, u2}
  Item = {item}
  Block = {block}
  List = {list}
  Value = {one}
  Empty = Empty
  Absent = Absent
  Root = Root
  NoUser = NoUser
  Nobody = Nobody
  NoFile = NoFile
  File <- Files
  LogUsable = {TRUE}
  ForeignSet = FALSE
  LoadOverNew = FALSE
  SlowPeer = FALSE
  MaxRequests = 3
INVARIANTS   NoDanglingPointer
PROPERTIES LockIsGranted AbandonedEnds
