CONSTANTS
  ServerIds = {"s1"}
  Ports = {"p1"}
  Nodes = {1, 2}
  Direct = 0
  Lats = {0, 50, 70}
  Polls = {"q1"}
  PingPlans <- IntervalPlans
  Parallelism = 1
  GlobalParallelism = 1
  LatencyTTL = 2
  MinDwell = 1
  MinGain = 8
  GainShare = 10
  Day = 3
  Batches = {"b1", "b2"}
  TestNodes = {"n1", "n2", "none"}
  Blank = ""
  BatchPlans <- MCBatchPlans
  GlobalBudget = 2
  TypeBudget <- MCTypeBudget
SPECIFICATION Spec
PROPERTY IntervalScans
CHECK_DEADLOCK FALSE
