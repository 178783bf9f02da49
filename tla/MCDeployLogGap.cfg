\* A client that already has the note's place loses lines without being told.
CONSTANTS
    c1 = c1
    c2 = c2
    Free = Free
    Clients <- OneClient
    Stalled <- NoClient
    LogSizes <- OneSize
    MaxBytes = 6
    MaxEvents = 3
    MaxSeq = 7
    MaxStreams = 2
SPECIFICATION Spec
INVARIANTS
    GapIsAnnounced
CHECK_DEADLOCK FALSE
