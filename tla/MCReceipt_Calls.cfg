SPECIFICATION ReceiptSpec
CONSTANTS
    absent = absent
    null = null
    malformed = malformed
    notObject = notObject
    none = none
    err = err
    badHex = badHex
    unsigned = unsigned
    Absent <- absent
    Null <- null
    Malformed <- malformed
    NotObject <- notObject
    None <- none
    Err <- err
    Text <- MCText
    Ms <- MCMs
    Number <- MCNumber
    AsI64 <- MCAsI64
    AsF64 <- MCAsF64
    NegativeZeros = {"-0"}
    MaxI64 = 31
    KeyHex <- MCResolverKeys
    BadHex <- badHex
    Points = {"A", "B", "O"}
    SmallOrder = {"O"}
    Anyone = "anyone"
    Receipts <- MCReceipts
    Hex64 = {"digest 1", "digest 2"}
    Rank <- MCRank
    Formatted <- MCFormatted
    Unsafe = {"3"}
INVARIANTS
    ReceiptTypeOK
    ValidMeansSigned
    ResolverAskedInOrder
    FailuresKeptApart
    ValidationNamesFirstOffence
PROPERTIES
    ImplementsReceiptPromise
CHECK_DEADLOCK FALSE
