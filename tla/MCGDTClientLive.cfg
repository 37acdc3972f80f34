SPECIFICATION FairSpec
CONSTANTS
  Streams = {s1, s2}
  Uuid = {u1}
  NoStream = NoStream
  NoUuid = NoUuid
  InternalCap = 2
  MaxRecv = 2
  Outbound = TRUE
  Lossy = TRUE
  MayStop = TRUE
  Overtake = FALSE
  MidSend = FALSE
PROPERTIES
  EventuallyTold Terminates
CHECK_DEADLOCK FALSE
