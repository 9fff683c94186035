SPECIFICATION FairSpec
CONSTANTS
    r1 = r1
    None = None
    Callers <- MCCallers
    WatcherChannelSize = 1
INVARIANT OneConnection
 
PROPERTY NoSendOnClosed
PROPERTY DeathIsNoticed
PROPERTY StopReturnsUnlessStuck
CHECK_DEADLOCK FALSE
