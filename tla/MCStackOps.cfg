\* One deploy, two calls, one crash.
CONSTANTS
    d1 = d1
    d2 = d2
    c1 = c1
    c2 = c2
    Before = Before
    None = None
    Stack = Stack
    Deploys <- OneDeploy
    Controls <- TwoCalls
    Kinds <- AllKinds
    MaxCrashes = 1
SPECIFICATION FairSpec
INVARIANTS
    DeployRunsItsStack
    ContainersKeepTheirFiles
    CredentialsWhileNeeded
PROPERTY EveryOperationAnswers
\* Operations answer and are over.
CHECK_DEADLOCK FALSE
