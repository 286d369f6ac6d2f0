\* A least-latency, round-robin, random or least-connections server with one node
\* and "direct", and up to three changes by the operator, the network and time.
SPECIFICATION Spec
CONSTANTS
    n1 = n1
    Nodes = {n1}
    Direct = Direct
    Order <- WithDirect
    Strategies = {"least-latency", "round-robin", "random", "least-connections"}
    Dialers = {d1}
    Lats = {0, 50, 53, 70}
    MinGain = 8
    GainShare = 10
    MaxChanges = 3
    None = None
PROPERTIES BanRespected BestNotPassedOver RotationAdvances NoNodeTwice
CHECK_DEADLOCK FALSE
