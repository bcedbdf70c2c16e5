SPECIFICATION RefSpec
CONSTANTS
    err = err
    Err <- err
    Text <- MCText
    Parsed <- MCParsed
    Parts = 2
    Nfc <- MCNfc
    Rank <- MCRank
    Requests <- MCRequests
INVARIANTS
    RefTypeOK
    DuplicatesNeverIdentified
PROPERTIES
    ImplementsRefPromise
CHECK_DEADLOCK FALSE
