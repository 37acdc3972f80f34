SPECIFICATION FairSpec
CONSTANTS
  o1 = o1
  i1 = i1
  i2 = i2
  Outbound = {o1}
  Inbound <- Peers
  RefMod = 5
  Faults = {}
INVARIANTS TypeOK NoUseAfterDelete RefcIsHolders HandlersLive
PROPERTIES ConnectReturns DestroyEnds
CHECK_DEADLOCK FALSE
