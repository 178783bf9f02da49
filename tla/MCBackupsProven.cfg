\* The second write replaces the artifact between a restore's check of it and its opening.
SPECIFICATION BackupsSpec
CONSTANTS
    w1 = w1
    w2 = w2
    r1 = r1
    o1 = o1
    Writes <- TwoWrites
    Restores <- OneRestore
    Artifacts <- OneObject
    KeyOf <- SameKey
    Overwriting <- OneWrite
    Overlapping = FALSE
    NoFile = NoFile
    BackupCrashes = 0
INVARIANT StoreRestoreIsProven
CHECK_DEADLOCK FALSE
