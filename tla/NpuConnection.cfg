SPECIFICATION FairSpec
CONSTANTS
    PortCount = 2
    CnCount = 2
    Window = 1
    MaxInFlight = 1
    MaxResets = 1
INVARIANTS
    TypeOK
    RemembersLiveTerminal
    ConnectionHasTerminal
    QuietMeansAgreed
    NoUnexpectedMessage
    BlockInOnePlace
PROPERTY
    NobodyWaitsForever
