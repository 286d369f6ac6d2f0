\* One worker, one caller, the collector and shutdown under fairness; the proxy
\* may end stopped.
SPECIFICATION FairSpec
CONSTANTS
    Addrs = {a1}
    SessionIDs = {s1, s2}
    v1 = v1
    Servers = {v1}
    Workers = {w1}
    WorkerServer <- OneListener
    Callers = {c1}
    GC = GC
    Stopper = Stopper
    StopAllowed = TRUE
    Names = {n1}
    NoName = NoName
    None = None
    DefaultIdle = 1
    ServerIdle <- Overrides
PROPERTIES SessionsEnd StopReturns
CHECK_DEADLOCK FALSE
