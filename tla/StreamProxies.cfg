CONSTANTS
    a1 = a1
    a2 = a2
    Addrs = {a1, a2}
    MaxConns = 2
    MaxFails = 2
    StreamLoads <- StreamLoads3
    MaxPlain = 3
    PlainReads = 4
SPECIFICATION ListenersSpec
INVARIANTS StreamInv PlainInv
PROPERTY ListenersEnd
CHECK_DEADLOCK FALSE
