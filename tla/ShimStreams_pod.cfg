SPECIFICATION FairSpec
CONSTANTS
    Pod = p
    Apps = {a}
    Givens <- MCGivens
    PodGivens <- MCPodGivens
    Overlap = FALSE
    MaxIn = 2
    MaxOut = 1
    PipeCap = 1
    None = None
INVARIANT RunsItsOwnImage
INVARIANT EndIsReal
INVARIANT OutputIsComplete
 
INVARIANT ClosedOnce
 
 
CHECK_DEADLOCK FALSE
