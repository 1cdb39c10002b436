SPECIFICATION Spec
CONSTANTS
    Threads = {t1, t2}
    Handles = {h1, h2}
    NoThread = NoThread
    NoHandle = NoHandle
    Ops = {"rename", "remove_dir", "exec", "create", "open", "list_dir", "stat_root", "is_connected", "welcome_message", "connect", "disconnect", "stream"}
    MaxProbes = 1
SYMMETRY Symmetric
INVARIANTS
    TypeOK
    CommandsOnSyncedChannel
    ControlChannelExclusive
    ReadStartsAtOffset
    NoStrayRestartMarker
    UnusableForAReason
    HandleKeepsSession
    SessionAnswersAreTrue
PROPERTIES
    ConnectLeavesItUsable
    ImplementsManagedControl
