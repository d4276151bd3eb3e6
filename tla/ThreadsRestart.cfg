SPECIFICATION PipelineSpec
CONSTANTS
  Parts = {"threads"}
  Pooled = {"p1", "p2"}
  Extra = {"x1"}
  Detector = {"d1", "d2"}
  Verdicter = {"v1"}
  Outputter = {"o1", "o2"}
  NULL = "NULL"
  FlowChoice = {FALSE}
  MaxReceived = 2
  MaxChildren = 2
  Receiver = "Receive"
  Slot = {"d1", "Outputs"}
  Mgmt = {"Wake1"}
  SpawnOrder <- InARow
  Queue = {"decode", "alert"}
  POOL = "POOL"
  NoThread = "NULL"
  InQ <- InARowIn
  OutQ <- InARowOut
  Counting = {"d1"}
  InitMayFail = {}
  MayFail = {"d1"}
  max_pending_packets = 1
  THV_MAX_RESTARTS = 1
  MaxArrived = 1
  MaxFailures = 1
CHECK_DEADLOCK FALSE
INVARIANT AllListed
