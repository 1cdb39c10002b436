SPECIFICATION FairSpec
CONSTANTS
    Threads = {t1, t2}
    Handles = {h1}
    NoThread = NoThread
    NoHandle = NoHandle
    Ops = {"open", "list_dir", "connect"}
    MaxProbes = 0
PROPERTIES
    LockIsReleased
    CleanupFreesTheClient
