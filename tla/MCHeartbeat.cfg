CONSTANTS
    Client = {c1, c2}
    MaxMissed = 1
    MaxDown = 2
SPECIFICATION FairSpec
INVARIANTS WatchedByOne NoUseAfterFree
PROPERTIES Reconnects ThreadsEnd
CHECK_DEADLOCK FALSE
