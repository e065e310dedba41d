CONSTANTS
    None = None
    Kinds <- Mixed
    MayFail = TRUE
    MaxReceived = 5
SPECIFICATION Spec
INVARIANTS SlotPrivate ImageBacked
PROPERTIES DrawnInOrder ListenerReturns ImageGetsDrawn
CHECK_DEADLOCK FALSE
