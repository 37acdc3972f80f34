SPECIFICATION SmsgSpec
CONSTANTS
    Stream = {s1, s2}
    Msg = {1, 2}
    Id = {1, 2, 3}
    Size <- MCSize
    Octets = {2, 3}
    Requests <- MCRequests
    Results <- MCResults
    PoolSize <- MCPoolSize
INVARIANTS Reassembled HeldOnce
CONSTRAINT Explored
SYMMETRY MCSymmetry
