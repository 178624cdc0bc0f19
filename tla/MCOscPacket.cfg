CONSTANTS
    Messages <- MCMessages
    TimeTags <- MCTimeTags
    MaxCalls = 6
    Foreign <- MCForeign
SPECIFICATION Spec
INVARIANTS
    TypeOK
    StaysInside
    EveryWordUsedOnce
    RoundTrip
    AllOrNothing
PROPERTY ReadingEnds
CHECK_DEADLOCK FALSE
