\* Three key pairs, two calls and two crashes of the identity; three writes of two
\* keys, one of them overwriting, and a restore; two containers, of which one is
\* routed to and one a one-shot; one import and two of images; two apps, two
\* images and a volume; three configurations of Traefik, one call at a time, and a
\* kill; two calls of a console; a container's metrics; three records of build cache; two
\* deploys of a working copy with two steps of its services and a crash; two
\* networks, one of a preview, and two calls at once; two images with
\* two names and two pushes of them.
SPECIFICATION SafeSpec
CONSTANTS
    c1 = c1
    c2 = c2
    k0 = k0
    k1 = k1
    k2 = k2
    a0 = a0
    a1 = a1
    w1 = w1
    w2 = w2
    w3 = w3
    r1 = r1
    o1 = o1
    o2 = o2
    b1 = b1
    b2 = b2
    i1 = i1
    i2 = i2
    t1 = t1
    t2 = t2
    t3 = t3
    s1 = s1
    s2 = s2
    f1 = f1
    f2 = f2
    f3 = f3
    x1 = x1
    v1 = v1
    v2 = v2
    n1 = n1
    n2 = n2
    y1 = y1
    y2 = y2
    m1 = m1
    m2 = m2
    g1 = g1
    g2 = g2
    Calls <- TwoCalls
    Keys <- ThreeKeys
    CAs <- TwoCAs
    None = None
    MaxCrashes = 2
    MaxTokens = 2
    Writes <- ThreeWrites
    Restores <- OneRestore
    Artifacts <- TwoObjects
    KeyOf <- TwoOfOneKey
    Overwriting <- OneWrite
    Overlapping = FALSE
    NoFile = NoFile
    BackupCrashes = 1
    Containers <- TwoBoxes
    Routed <- OneBox
    OneShots <- OtherBox
    HealthChecks <- OtherBox
    Settle = 2
    Quick = 1
    PortGrace = 1
    Worker = 3
    RestartLimit = 2
    ReadyTimeout = 3
    Deaths = 1
    Parts = 2
    ImageCopies <- TwoImages
    Tags <- ThreeTags
    RefOf <- OwnTags
    NoCall = NoCall
    Apps <- TwoApps
    Owner = s1
    Images = 2
    Keep = 1
    Reusing = FALSE
    Configs <- ThreeConfigs
    AtOnce = FALSE
    TraefikStops = 1
    Boxes <- TwoBoxes
    BoxImages <- OneImage
    ExecCalls <- TwoCalls
    ShellTTL = 1
    ShellCacheMax = 1
    NoEntry = NoEntry
    Moments = 1
    Metered <- OneMeter
    UnhealthyTicks = 2
    MinWindow = 2
    Ticks = 3
    MaxUse = 2
    CacheRecords <- ThreeRecords
    CacheSizes <- OneOrTwo
    CacheAges <- SomeAges
    Ceilings <- SomeCeilings
    MinAges <- SomeMinAges
    Contents <- TwoContents
    SourceTrees <- SomeTrees
    MaxSyncs = 2
    MaxOwn = 2
    CopyCrashes = 1
    Nets <- TwoNets
    NetApps <- TwoApps
    NetOf <- NetOfEach
    Previews <- OtherNet
    MaxCalls = 2
    LookFails = FALSE
    Layers <- TwoLayers
    Names <- TwoNames
    RepoOf <- RepoOfEach
    NoLayer = NoLayer
    Renaming = FALSE
INVARIANTS
    IdentityIsKept
    BackupsHold
    VerdictIsRight
    CopiesAreWhole
    CleanupIsSafe
    ProxyIsKept
    PlanFits
    MetricsAreHonest
CHECK_DEADLOCK FALSE
