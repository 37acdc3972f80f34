SPECIFICATION Spec
CONSTANTS
  Streams = {s1, s2}
  Uuid = {u1, u2}
  NoStream = NoStream
  NoUuid = NoUuid
  InternalCap = 2
  MaxRecv = 3
  Outbound = TRUE
  Lossy = TRUE
  MayStop = FALSE
  Overtake = TRUE
  MidSend = FALSE
SYMMETRY Symmetry
INVARIANTS
  TimedOutNotQueued
