CONSTANTS
    Texts = {}
    Messages = {}
    Stale = {}
    Names = {}
    Numbers = {}
    ArgLists = {}
    Patterns = {}
    Paths = {}
    Controllers = {}
    Positions = {}
    Addresses <- MCAddresses
    Values <- MCValues
    Tests <- MCTests
    PopTags <- MCPopTags
    ForeignBytes <- MCForeign
    MaxArgs = 2
    MaxPops = 3
SPECIFICATION Spec
INVARIANT BlobsHaveTheirSize
CHECK_DEADLOCK FALSE
