CONSTANTS
    None = None
    f1 = f1
    f2 = f2
    f3 = f3
    f4 = f4
    Frames <- Pool
    SpoilModes <- BothModes
    MayFail = FALSE
    MaxRendered = 4
SPECIFICATION TurnedOff
INVARIANTS SpoilingOffIsLossless
