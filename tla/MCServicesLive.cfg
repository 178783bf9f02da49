\* Three operations on two stacks, of which those on s1 may never end; one cron
\* job whose command may fork and ignore SIGTERM, polled and killed, and a crash;
\* two containers that change state three times; two builds and two steps.
SPECIFICATION LiveSpec
CONSTANTS
    p1 = p1
    p2 = p2
    p3 = p3
    s1 = s1
    s2 = s2
    l1 = l1
    l2 = l2
    l3 = l3
    j1 = j1
    c1 = c1
    c2 = c2
    b1 = b1
    b2 = b2
    x1 = x1
    Nobody = Nobody
    NoLock = NoLock
    Procs <- ThreeProcs
    Slugs <- TwoSlugs
    Locks <- ThreeLocks
    SlowSlugs <- OneSlug
    Jobs <- OneJob
    MaxLive = 1
    MaxProcs = 2
    MaxCrashes = 1
    Ids <- TwoIds
    Churns = 3
    Breaks = 1
    Builds <- TwoBuilds
    Steps <- OneStep
    NoBuild = NoBuild
INVARIANTS
    EntryLivesWhileUsed
    JobsAreClean
PROPERTIES
    WaiterGetsIn
    ImplementsStackMutex
    AnswersMoveForward
    EveryJobIsForgotten
    RosterCatchesUp
    CapFollowsBuilds
CHECK_DEADLOCK FALSE
