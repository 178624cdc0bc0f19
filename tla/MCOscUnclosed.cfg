CONSTANTS
    Messages <- MCMessages
    TimeTags <- MCTimeTags
    MaxCalls = 3
    Foreign = {}
SPECIFICATION Spec
INVARIANT SentIsClosed
CHECK_DEADLOCK FALSE
