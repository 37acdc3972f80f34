CONSTANTS
    MaxNum = 16
    MaxFaults = 6
SPECIFICATION FairSpec
INVARIANTS InSequence EndsAgree
PROPERTIES ConversationSpec EveryStreamEnds
CHECK_DEADLOCK FALSE
