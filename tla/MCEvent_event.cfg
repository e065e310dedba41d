CONSTANTS
    Nobody = Nobody
    w1 = w1
    w2 = w2
    s1 = s1
    s2 = s2
    Waiters <- BothWait
    Signallers <- BothSignal
SPECIFICATION Spec
INVARIANTS TypeOK NoLostWakeup PolledIsFree
PROPERTIES ImplementsEvent
