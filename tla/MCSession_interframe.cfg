CONSTANTS
    None = None
    MaxSize = 2
    MaxProcs = 1
    TileSizes <- WholeOnly
    Width = 2
    Images <- Left
    RightImages <- Right
    Compressions <- JPEGOnly
    Subsamps = {}
    Setters <- Dialog
    Versions <- Current
    Windows <- AutoDraw
    MaxBacklog = 1
    MaxFrames = 3
    MaxChanges = 0
SPECIFICATION SessionSpec
CHECK_DEADLOCK FALSE
INVARIANTS ClientShowsFrame
