\* A session of a chunk out and two in; a docker command of two lines; a project
\* of two volumes, backed up in parts of two chunks and restored from two entries.
SPECIFICATION PipesSpec
CONSTANTS
    v1 = v1
    v2 = v2
    MaxOut = 1
    MaxIn = 2
    MergedCap = 1
    StdinRoom = 1
    MaxLines = 2
    Volumes = 2
    Chunks = 2
    RestoreVolumes <- TwoVolumes
    Entries = 2
INVARIANTS
    ExitComesLast
    PipesAreWhole
PROPERTIES
    SessionEnds
    CommandReturns
    BackupEnds
    RestoreEnds
CHECK_DEADLOCK FALSE
