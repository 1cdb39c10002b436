SPECIFICATION Spec
CONSTANTS
    Paths <- MCPaths
    Entries <- MCEntries
    Junk <- MCJunk
INVARIANTS
    ArrowsAreExact
CHECK_DEADLOCK FALSE
