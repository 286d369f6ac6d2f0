\* One address, two workers, one caller and the collector: every race over
\* one client.  The instance stops when the uuids are used up.
SPECIFICATION Spec
CONSTANTS
    Addrs = {a1}
    SessionIDs = {s1, s2}
    v1 = v1
    Servers = {v1}
    Workers = {w1, w2}
    WorkerServer <- OneListener
    Callers = {c1}
    GC = GC
    Stopper = Stopper
    StopAllowed = FALSE
    Names = {n1}
    NoName = NoName
    None = None
    DefaultIdle = 1
    ServerIdle <- Overrides
INVARIANTS Custody DialsOnce
PROPERTY LifeSpec
SYMMETRY Symmetry
CHECK_DEADLOCK FALSE
