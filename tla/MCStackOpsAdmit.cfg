\* The same deploy and calls: is what starts what was looked at?
CONSTANTS
    d1 = d1
    d2 = d2
    c1 = c1
    c2 = c2
    Before = Before
    None = None
    Stack = Stack
    Deploys <- OneDeploy
    Controls <- TwoCalls
    Kinds <- AllKinds
    MaxCrashes = 0
SPECIFICATION Spec
INVARIANT CheckedIsWhatStarts
CHECK_DEADLOCK FALSE
