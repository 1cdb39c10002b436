SPECIFICATION Spec
CONSTANTS
    Tasks = {t1, t2}
    Handles = {h1, h2}
    NoTask = NoTask
    NoHandle = NoHandle
    Ops = {"rename", "open", "list_dir", "is_connected", "connect", "disconnect"}
    MaxProbes = 1
    Cancellable = {"call"}
SYMMETRY Symmetric
INVARIANTS
    TypeOK
    ControlChannelExclusive
    OutOfStepIsMarked
    HandleKeepsSession
    ConnectedAnswerIsTrue
