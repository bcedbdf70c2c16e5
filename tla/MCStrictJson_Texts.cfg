SPECIFICATION StrictSpec
CONSTANTS
    Character <- MCCharacter
    Texts <- MCTexts
    Limits <- MCLimits
INVARIANTS
    StrictTypeOK
    RecursionBounded
    VerdictNamesFirstOffence
    ScanAgreesWithParser
PROPERTIES
    ImplementsParserPromise
CHECK_DEADLOCK FALSE
