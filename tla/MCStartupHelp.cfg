CONSTANTS
    CommandLines <- MCCommandLines
    StdinIsTty = TRUE
SPECIFICATION Spec
INVARIANT DocumentedOptionsAccepted
CHECK_DEADLOCK FALSE
