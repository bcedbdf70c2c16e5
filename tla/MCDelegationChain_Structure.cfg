SPECIFICATION StructureSpec
CONSTANTS
    absent = absent
    null = null
    malformed = malformed
    notObject = notObject
    none = none
    err = err
    badHex = badHex
    Absent <- absent
    Null <- null
    Malformed <- malformed
    NotObject <- notObject
    None <- none
    Err <- err
    Text <- MCText
    Ms <- MCMs
    Number <- MCNumber
    AsI64 <- MCAsI64
    AsF64 <- MCAsF64
    NegativeZeros = {"-0"}
    MaxI64 <- MaxInteger
    Links <- MCLinks
    Chains <- MCChains
INVARIANTS
    TypeOK
    GateMakesReadingTotal
    EffectiveCeilings
    AcceptedNeverWidens
    DepthCeilingBoundsLength
    AcceptedExpiryContained
    AcceptedScopeWithinAncestors
    RefusalNamesFirstOffender
    NullMembersDoNotMatter
PROPERTIES
    CeilingOnlyTightens
    ImplementsPromise
CHECK_DEADLOCK FALSE
