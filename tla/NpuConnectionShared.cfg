SPECIFICATION Spec
CONSTANTS
    PortCount = 1
    CnCount = 2
    Window = 1
    MaxInFlight = 2
    MaxResets = 0
INVARIANT
    ConnectedTerminalHasConnection
