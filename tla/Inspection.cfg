SPECIFICATION InspectionSpec
CONSTANTS
  Parts = {"tcp", "reassembly", "flowqueue", "defrag", "threshold", "detect"}
  Flow = {"f1", "f2", "f3", "f4"}
  Queue = {"q1", "q2"}
  NULL = "NULL"
  Detached = "detached"
  Moving = "moving"
  DsConfs <- Detections
  Thread = {"t1", "t2"}
  ThConfs <- Thresholds
  Start = 10
  LastTime = 13
  Late = 1
  DfConfs <- Datagrams
CHECK_DEADLOCK FALSE
INVARIANTS InspectionTypeOK SessionTrue ListRight StreamInspected Reassembles AlertsAreEarned
    TransactionsKept StatefulAlerts RequestsJudged
PROPERTIES DataInspected FlowFollows FreedWhenAcked ImplementsFlowList TrackersKept
