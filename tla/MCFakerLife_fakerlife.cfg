CONSTANTS
    t1 = t1
    t2 = t2
    t3 = t3
    None = None
    Thread <- Threads
    MaxCalls = 6
SPECIFICATION Spec
CHECK_DEADLOCK FALSE
INVARIANTS InsideIsSafe
PROPERTIES ExitCompletes
