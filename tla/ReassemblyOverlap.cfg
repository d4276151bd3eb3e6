SPECIFICATION InspectionSpec
CONSTANTS
  Parts = {"overlap"}
  Flow = {"f1", "f2", "f3", "f4"}
  Queue = {"q1", "q2"}
  NULL = "NULL"
  Detached = "detached"
  Moving = "moving"
  DsConfs <- Detections
  Thread = {"t1", "t2"}
  ThConfs <- Thresholds
  Start = 10
  LastTime = 13
  Late = 1
  DfConfs <- Datagrams
CHECK_DEADLOCK FALSE
INVARIANT NothingLost
