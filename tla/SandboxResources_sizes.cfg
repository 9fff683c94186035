SPECIFICATION Spec
CONSTANTS
    Pod = p
    Apps = {a, b}
    Requests <- MCRequests
    Updates <- MCUpdates
    Period = 100
    NumVCPUs = 1
    DefaultMaxVCPUs = 4
    MemorySize = 2
    HostMemMB = 6
    BlockSizeMB = 2
    Probe = TRUE
    VirtioMem = {TRUE, FALSE}
    MaxOps = 6
    MaxFaults = 1
 
INVARIANT OnlineUnlessFaulty
SYMMETRY AppSymmetry
CHECK_DEADLOCK FALSE
