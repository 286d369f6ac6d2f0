CONSTANTS
    s1 = s1
    s2 = s2
    a1 = a1
    a2 = a2
    b1 = b1
    hidden = hidden
    r1 = r1
    r2 = r2
    p1 = p1
    p2 = p2
    x1 = x1
    x2 = x2
    n1 = n1
    c1 = c1
    c2 = c2
    q1 = q1
    q2 = q2
    PortIds = {p1, p2}
    PortAddrs = {x1, x2}
    PortNodes = {n1}
    PortConns = {c1, c2}
    PortReqs = {q1, q2}
    MaxGen = 4
    PortLoads <- PortLoads3
    Servers = {s1, s2}
    Addrs = {a1, a2}
    Marks = {b1, hidden}
    Reqs = {r1, r2}
    LifeLoads <- LifeLoads3
SPECIFICATION ManagersSpec
INVARIANTS LifeInv PortsInv
PROPERTIES MarksKept ManagersSettle
CHECK_DEADLOCK FALSE
