SPECIFICATION FairSpec
CONSTANTS
    Tasks = {t1}
    Handles = {h1, h2}
    NoTask = NoTask
    NoHandle = NoHandle
    Ops = {"rename", "remove_dir", "exec", "create", "open", "list_dir", "stat_root", "is_connected", "welcome_message", "connect", "disconnect", "stream"}
    MaxProbes = 1
    Cancellable = {"call", "finish"}
PROPERTIES
    LockIsReleased
    CleanupFreesTheClient
