SPECIFICATION FairSpec
CONSTANTS
    Trunks <- JoinedTrunks
    Dialling <- JoinedDialling
    Called <- OneCalled
    ConnCount = 2
    MaxStaged = 1
    MaxResets = 1
INVARIANTS
    HostKnowsLink
    LinkOwnsConnection
PROPERTIES
    HandshakeEnds
    LinkReturns
CHECK_DEADLOCK FALSE
