\* Two clients, one of which may stop reading: wake-ups, cancellation, progress;
\* two calls on two ids, up to three runs: the registry safe, every run forgotten.
CONSTANTS
    c1 = c1
    c2 = c2
    Free = Free
    Clients <- TwoClients
    Stalled <- SecondClient
    LogSizes <- OneSize
    MaxBytes = 6
    MaxEvents = 1
    MaxSeq = 3
    MaxStreams = 1
    i1 = i1
    i2 = i2
    k1 = k1
    k2 = k2
    r1 = r1
    r2 = r2
    r3 = r3
    NoRun = NoRun
    NoCall = NoCall
    Ids <- TwoIds
    Calls <- TwoCalls
    Runs <- ThreeRuns
    LogBytes <- Sizes
    Budget = 3
SPECIFICATION DeploysSpec
INVARIANTS
    RunsAreKept
PROPERTIES
    StreamEnds
    DeployIsNotHeldUp
    EveryRunIsForgotten
CHECK_DEADLOCK FALSE
