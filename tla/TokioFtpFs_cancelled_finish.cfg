SPECIFICATION Spec
CONSTANTS
    Tasks = {t1}
    Handles = {h1}
    NoTask = NoTask
    NoHandle = NoHandle
    Ops = {"open", "connect"}
    MaxProbes = 0
    Cancellable = {"finish"}
INVARIANTS
    CommandsOnSyncedChannel
