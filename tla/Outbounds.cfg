CONSTANTS
  Subs <- MCSubs
  Bases = {"a", "b"}
  Keys = {"k1", "k2", "k3", "own"}
  Endings <- MCEndings
  Handlers = {1, 2}
  Contents <- MCContents
  Plans <- MCPlans
  MaxTime = 3
  Bodies <- MCBodies
  Outbounds <- MCOutbounds
  Names = {n1}
  Dialers = {d1, d2}
  Insts = {i1, i2}
  Recreates = {n1}
  Ops = {"delete", "cleanup"}
  MaxStamp = 0
  None = None
SPECIFICATION OutboundsSpec
INVARIANTS SubsInv ParsersInv
PROPERTIES UpdatesKeep ScheduleKept CacheSettles
CHECK_DEADLOCK FALSE
