SPECIFICATION FairPipelineSpec
CONSTANTS
  Parts = {"packetpool", "threads"}
  Pooled = {"p1", "p2"}
  Extra = {"x1"}
  Detector = {"d1", "d2"}
  Verdicter = {"v1"}
  Outputter = {"o1", "o2"}
  NULL = "NULL"
  FlowChoice = {FALSE}
  MaxReceived = 2
  MaxChildren = 2
  Receiver = "Receive"
  Slot = {"d1", "d2"}
  Mgmt = {"Wake1"}
  SpawnOrder <- TwoReaders
  Queue = {"decode"}
  POOL = "POOL"
  NoThread = "NULL"
  InQ <- TwoReadersIn
  OutQ <- TwoReadersOut
  Counting = {"d1"}
  InitMayFail = {"d2"}
  MayFail = {"d2"}
  max_pending_packets = 2
  THV_MAX_RESTARTS = 1
  MaxArrived = 2
  MaxFailures = 1
CHECK_DEADLOCK FALSE
INVARIANTS PipelineTypeOK InOnePlace RootOutlivesChildren WakeupsCoverPackets PacketsAccounted LifeInOrder
PROPERTIES NoPacketUnjudged PoolFillsUp EngineEnds
