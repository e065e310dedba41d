CONSTANTS
    None = None
    f1 = f1
    f2 = f2
    f3 = f3
    f4 = f4
    Frames <- Pool
    SpoilModes <- BothModes
    MayFail = TRUE
    MaxRendered = 3
SPECIFICATION Spec
PROPERTIES FrameGetsThrough ReadbackReturns FailureReported ImplementsChannel
