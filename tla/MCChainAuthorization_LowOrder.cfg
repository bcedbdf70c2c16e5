SPECIFICATION Spec
CONSTANTS
    absent = absent
    null = null
    malformed = malformed
    notObject = notObject
    none = none
    err = err
    Absent <- absent
    Null <- null
    Malformed <- malformed
    NotObject <- notObject
    None <- none
    Err <- err
    Text <- MCText
    Ms <- MCMs
    Number <- MCNumber
    AsI64 <- MCAsI64
    AsF64 <- MCCoarseAsF64
    NegativeZeros = {"-0"}
    MaxI64 <- MaxInteger
    Links <- MCLinks
    Chains <- MCChains
    KeyHex <- MCKeyHex
    badHex = badHex
    BadHex <- badHex
    Points = {"A", "B", "O"}
    SmallOrder = {"O"}
    Anyone = "anyone"
    Times <- MCTimes
    Roots <- MCRoots
INVARIANTS
    LowOrderKeyNotRejected
CHECK_DEADLOCK FALSE
