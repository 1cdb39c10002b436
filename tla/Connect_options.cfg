SPECIFICATION Spec
CONSTANTS
    MaxSessions = 2
    MaxSettings = 3
INVARIANTS
    CredentialsStayPrivate
    StoredSessionIsReady
    OnlyAcceptedPeers
    CopiesMatchStream
    OneSessionAtATime
CHECK_DEADLOCK FALSE
