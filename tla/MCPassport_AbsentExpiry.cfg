SPECIFICATION PassportSpec
CONSTANTS
    absent = absent
    null = null
    malformed = malformed
    notObject = notObject
    none = none
    err = err
    badHex = badHex
    Absent <- absent
    Null <- null
    Malformed <- malformed
    NotObject <- notObject
    None <- none
    Err <- err
    Text <- MCText
    Ms <- MCMs
    Number <- MCNumber
    AsI64 <- MCAsI64
    AsF64 <- MCAsF64
    NegativeZeros = {"-0"}
    MaxI64 <- MaxInteger
    KeyHex <- MCKeyHex
    BadHex <- badHex
    Points = {"A", "B", "O"}
    SmallOrder = {"O"}
    Anyone = "anyone"
    Envelopes <- MCEnvelopes
    Options <- MCOptions
INVARIANTS
    AbsenceLeavesWindowOpen
CHECK_DEADLOCK FALSE
