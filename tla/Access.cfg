CONSTANTS
  Players = {"ann"}
  Servers = {"s1", "s2"}
  Logins = {"l1"}
  Admins = {"a1", "a2"}
  AccessPlans <- MCAccessPlans
  CleanEvery = 2
  Asked = {"k1", "k2"}
  Calls = {"c1", "c2"}
  CacheTicks = 1
  SweepEvery = 2
  Agents = {"start", "m1", "m2"}
  AuthPlans <- MCAuthPlans
  Requests = {"q1", "q2"}
  MaxLog = 2
  APIPlans <- MCAPIPlans
SPECIFICATION Spec
INVARIANTS ListsInv AuthInv APIInv
PROPERTY ListsChange
CHECK_DEADLOCK FALSE
