SPECIFICATION Spec
INVARIANTS
    CompletionIsTraceable
    NothingIsLost
    FailedEndCostsTheConnection
CHECK_DEADLOCK FALSE
