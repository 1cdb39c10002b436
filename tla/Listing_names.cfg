SPECIFICATION Spec
CONSTANTS
    Paths <- MCPaths
    Entries <- MCEntries
    Junk <- MCJunk
INVARIANTS
    NamesAreExact
    OrdinaryNamesAreListed
    JunkFailsTheListing
    ListedPathsAreUsable
    WireNamesThePath
CHECK_DEADLOCK FALSE
