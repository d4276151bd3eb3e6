SPECIFICATION Spec
CONSTANTS
  Worker = {w1, w2}
  Mgr = Mgr
  Streamer = {s1}
  Flow = {f1, f2}
  NULL = NULL
  k1 = k1
  k2 = k2
  k3 = k3
  b1 = b1
  b2 = b2
  Key = {k1, k2}
  Bucket = {b1}
  HashOf <- OneBucket
  NProto = 1
  ProtoOf <- OneProto
  Stateful <- AllStateful
  Timeout <- Timeouts
  Memcap = 3
  Prealloc = 1
  TryRelease = 1
  DefaultPrune = 1
  Recovery = 30
  MaxPkts = 2
  MaxTime = 2
  LastArrival = 1
SYMMETRY FlowWorkerSymmetry
INVARIANTS TypeOK UseCountExact FlowsKept OneFlowPerKey
PROPERTIES RemovedOnlyIfIdle
