SPECIFICATION Spec
CONSTANTS
    p1 = p1  p2 = p2
    Procs = {p1, p2}
    Corpora <- MCCorpora
    Requests <- MCRequests
    ChunkSize = 9
    CutSize = 6
    MinRoom = 1
    MaxPerDocument = 2
    CandidateMargin = 1
    MaxTopK = 6
    MaxStarts = 2
INVARIANTS
    LossExplained
    ForeignIndexExplained
    MissExplained
CHECK_DEADLOCK FALSE
SYMMETRY AnyProc
