CONSTANTS
    Sizes = {1, 2, 3}
    KernelRoom = 3
    MaxAccepted = 9
SPECIFICATION WriterSpec
INVARIANTS
    WriterTypeOK
    ExactlyOnceInOrder
    BufferIsTheRest
PROPERTY ImplementsStream
CHECK_DEADLOCK FALSE
