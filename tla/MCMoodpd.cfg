CONSTANTS
    Sizes = {1, 2, 3}
    KernelRoom = 1
    MaxAccepted = 16
    FrameLen <- MCShortFrames
    NoisySockets = {}
    OscContents <- MCOscContents
    LampIsTty = TRUE
    StdinIsTty = TRUE
    WakeRoom = 1
    QueueRoom = 1
    MaxPackets = 2
    MaxFaults = 1
SPECIFICATION Spec
INVARIANTS
    TypeOK
    ExactlyDue
    NeverSleepsOnWork
    RecvNeverBlocks
CHECK_DEADLOCK FALSE
