CONSTANTS
    CommandLines <- MCCommandLines
    StdinIsTty = TRUE
SPECIFICATION Spec
INVARIANTS
    TypeOK
    TerminalGivenBack
    LogMaskAsDocumented
    RunsWithEverything
PROPERTY StartupEnds
CHECK_DEADLOCK FALSE
