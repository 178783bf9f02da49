\* One client over a small budget: six events, two line sizes, two streams.  Two
\* screenshots and a connection; a page of four documents, of which one is allowed once
\* it was loaded, in units of 15 seconds.
SPECIFICATION FeedsSpec
CONSTANTS
    c1 = c1
    c2 = c2
    t1 = t1
    Free = Free
    Clients <- OneClient
    Stalled <- NoClient
    LogSizes <- TwoSizes
    MaxBytes = 6
    MaxEvents = 3
    MaxSeq = 6
    MaxStreams = 2
    Captures <- TwoCaptures
    Tunnels <- OneTunnel
    NoCapture = NoCapture
    BrowserDeadline = 5
    NavTimeout = 2
    IdleTimeout = 1
    CallTimeout = 2
    ConsentGrace = 1
    NavigationsAfterLoad = 1
    MaxAsks = 4
INVARIANTS
    BudgetHolds
    ScreenshotsAreSound
PROPERTIES
    ImplementsDeployFeed
CHECK_DEADLOCK FALSE
