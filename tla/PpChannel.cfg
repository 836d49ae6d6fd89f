SPECIFICATION FairSpec
CONSTANTS
    PpuCount = 2
    ChannelCount = 2
    RecordWords = 2
    MaxPpBuf = 2
    MaxWords = 2
    StatusDelay = 1
    ActivateDelay = 1
    DisconnectDelay = 2
    PanelWords = 1
    LoadWords = 3
    MaxDeadstarts = 1
INVARIANTS
    PendingDisconnectHasOwner
    InputConserved
    OutputConserved
PROPERTIES
    LastWordReachesTape
    NoInputLostByDisconnect
    PanelLoaded
    TransferEnds
