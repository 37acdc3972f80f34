CONSTANTS
    u1 = u1
    u2 = u2
    User = {u1, u2}
    Item = {a, b}
    Pool <- MCPool
    MaxCommits = 2
    MaxFaults = 1
SYMMETRY Symmetry
SPECIFICATION Spec
  
PROPERTIES WholeUpdates
CHECK_DEADLOCK FALSE
