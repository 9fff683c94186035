SPECIFICATION FairSpec
CONSTANTS
    Pod = p
    Apps = {a, b}
    Faults = {"agent", "resize", "store", "restore"}
    MaxCrashes = 2
INVARIANT IdleIsStored
 
CHECK_DEADLOCK FALSE
