CONSTANTS
    NProcs = 3
    NTiles = 4
    SocketFails = TRUE
    CompressFails = TRUE
    MaxFrames = 2
SPECIFICATION Spec
INVARIANTS FrameWhole CompressesInWindow
PROPERTIES SenderAdvances
CHECK_DEADLOCK FALSE
