CONSTANTS
    Texts <- MCTexts
    Messages <- MCMessages
    Stale <- MCStale
    Names <- MCNames
    Numbers <- MCNumbers
    ArgLists <- MCArgLists
    Patterns <- MCPatterns
    Paths <- MCPaths
    Controllers <- MCControllers
    Positions <- MCPositions
    Addresses <- MCAddresses
    Values <- MCValues
    Tests <- MCTests
    PopTags <- MCPopTags
    ForeignBytes <- MCForeign
    MaxArgs = 2
    MaxPops = 3
SPECIFICATION Spec
INVARIANTS
    ColourAsWritten
    RgbAsClamped
    OrientationAsTurned
    RawAsSent
    KnobReachesLamp
    MatchIsMeant
    PartialIsMeant
    DirectoryMatches
    ArrivesAsPushed
    AcceptedIsCanonical
    ChainTellsTheTruth
CHECK_DEADLOCK FALSE
