\* Three call objects, two payloads, two random numbers, two IN threads.
SPECIFICATION FairSpec
CONSTANTS
    Call = {c1, c2, c3}
    Payload = {p1, p2}
    Guid = {g1, g2}
    In = {i1, i2}
    Messages = 2
    MaxInvalid = 1
INVARIANTS OneOwner AnsweredOnce
PROPERTIES EveryCallEnds
CHECK_DEADLOCK FALSE
