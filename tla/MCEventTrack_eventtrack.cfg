CONSTANTS
    NoIndex = NoIndex
    NumRow = 3
    MaxEvents = 3
SPECIFICATION TrackSpec
INVARIANTS StampsInOrder NothingForgotten
PROPERTIES TakenOnce
