CONSTANTS
    None = None
    MaxSize = 9
    MaxProcs = 3
    TileSizes <- Sizes
    Width = 2
    Images <- Left
    RightImages <- Right
    Compressions <- All
    Subsamps <- Written
    Setters <- Dialog
    Versions <- AllVersions
    Windows <- AutoDraw
    MaxBacklog = 1
    MaxFrames = 3
    MaxChanges = 1
SPECIFICATION SessionSpec
CHECK_DEADLOCK FALSE
INVARIANTS HeaderUnderstood FrameShown NoMutualWait TilesPartition ThrowsOnlyWhen
