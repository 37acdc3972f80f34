SPECIFICATION FairSpec
CONSTANTS
  Item = {i1, i2}
  NoItem = NoItem
  QSIZE = 8
  WATERMARK = 4
  FlushFlags <- FlushAny
INVARIANTS
  NoSlotRace
  RefusalBound
PROPERTY
  FifoSpec NeverStuckFull
CHECK_DEADLOCK FALSE
