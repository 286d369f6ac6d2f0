\* Every management operation beside two dialers.
SPECIFICATION Spec
CONSTANTS
    Names = {n1}
    Dialers = {d1, d2}
    Insts = {i1, i2}
    Recreates = {n1}
    Ops = {"add", "delete", "update", "fresh", "sync", "reload", "cleanup", "health", "stop"}
    MaxStamp = 1
    None = None
INVARIANTS Custody FlightLed CountExact
PROPERTY CleanupSparesActive
SYMMETRY Perms
CHECK_DEADLOCK FALSE
