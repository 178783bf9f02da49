\* Two pairs, two StopListening calls, two starts; two updates and an uninstall
\* at once, three starts of the process.
SPECIFICATION AgentSpec
CONSTANTS
    c1 = c1
    c2 = c2
    a1 = a1
    a2 = a2
    u1 = u1
    u2 = u2
    r1 = r1
    Calls <- TwoCalls
    Addresses <- TwoAddresses
    Pairs <- TwoPairs
    NoAddress = NoAddress
    Free = Free
    MaxBackoff = 1
    MaxStarts = 2
    Updates <- TwoUpdates
    Uninstalls <- OneUninstall
    Versions <- SomeVersions
    NoBinary = NoBinary
    MaxLives = 3
INVARIANTS
    WayIn
    StopIsRemembered
    RemovedForGood
PROPERTIES
    NewPairIsDialed
    SignalEndsIt
    NeverDowngrades
    RemovedStaysDown
CHECK_DEADLOCK FALSE
