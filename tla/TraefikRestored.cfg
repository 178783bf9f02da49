\* Two calls, one after the other; the agent is not killed.
SPECIFICATION TraefikSpec
CONSTANTS
    f1 = f1
    f2 = f2
    Configs = {f1, f2}
    AtOnce = FALSE
    TraefikStops = 0
INVARIANT
    RestoredIsInForce
CHECK_DEADLOCK FALSE
