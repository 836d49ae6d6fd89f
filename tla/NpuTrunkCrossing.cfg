SPECIFICATION FairSpec
CONSTANTS
    Trunks <- JoinedDialling
    Dialling <- JoinedDialling
    Called <- NoneCalled
    ConnCount = 2
    MaxStaged = 1
    MaxResets = 0
PROPERTY
    LinkComesUp
CHECK_DEADLOCK FALSE
