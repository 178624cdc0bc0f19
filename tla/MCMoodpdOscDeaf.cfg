CONSTANTS
    Sizes = {1, 2, 3}
    KernelRoom = 2
    MaxAccepted = 16
    FrameLen <- MCFrameLen
    NoisySockets = {"osc"}
    OscContents <- MCOscContents
    LampIsTty = TRUE
    StdinIsTty = FALSE
    WakeRoom = 1
    QueueRoom = 1
    MaxPackets = 0
    MaxFaults = 1
SPECIFICATION Spec
INVARIANT OscServerListens
CHECK_DEADLOCK FALSE
