CONSTANTS
    Sizes = {1, 2, 3}
    KernelRoom = 2
    MaxAccepted = 16
    FrameLen <- MCFrameLen
    NoisySockets = {"sock", "osc"}
    OscContents <- MCOscContents
    LampIsTty = TRUE
    StdinIsTty = FALSE
    WakeRoom = 1
    QueueRoom = 1
    MaxPackets = 1
    MaxFaults = 1
SPECIFICATION FairSpec
INVARIANT RawOnlyFromTerminal
PROPERTIES
    EveryPacketServed
    LampLossEndsDaemon
    ImplementsLiveStream
CHECK_DEADLOCK FALSE
