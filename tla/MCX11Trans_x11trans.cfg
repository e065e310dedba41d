CONSTANTS
    None = None
    f1 = f1
    f2 = f2
    f3 = f3
    Frames <- Pool
    SpoilModes <- BothModes
    SyncModes <- BothModes
    MayFail = TRUE
    MaxRendered = 4
SPECIFICATION Spec
INVARIANTS PoolNeverExhausted FramesDisjoint SyncFrameStays
PROPERTIES ReadbackReturns ImplementsChannel
