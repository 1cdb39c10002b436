SPECIFICATION Spec
CONSTANTS
    Tasks = {t1, t2}
    Handles = {h1}
    NoTask = NoTask
    NoHandle = NoHandle
    Ops = {"rename", "connect"}
    MaxProbes = 0
    Cancellable = {}
INVARIANTS
    CommandsOnSyncedChannel
