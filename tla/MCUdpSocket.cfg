CONSTANTS
    Fds = {f1, f2}
    Addrs = {a, b}
    None = none
    AddressLists <- MCAddressLists
SPECIFICATION Spec
INVARIANTS
    UdpTypeOK
    NoDescriptorLost
    OpenTellsTheTruth
    ErrorMeansClosed
    SentWhereAsked
