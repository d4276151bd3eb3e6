SPECIFICATION FairSpec
CONSTANTS
  Worker = {w1, w2}
  Mgr = Mgr
  Streamer = {}
  Flow = {f1}
  NULL = NULL
  k1 = k1
  k2 = k2
  k3 = k3
  b1 = b1
  b2 = b2
  Key = {k1, k2}
  Bucket = {b1, b2}
  HashOf <- TwoBuckets
  NProto = 1
  ProtoOf <- OneProto
  Stateful <- NoneStateful
  Timeout <- ShortTimeouts
  Memcap = 1
  Prealloc = 1
  TryRelease = 1
  DefaultPrune = 1
  Recovery = 30
  MaxPkts = 2
  MaxTime = 1
  LastArrival = 0
INVARIANTS BucketInv
PROPERTIES PacketsGetThrough EmergencyEnds AllFlowsTimeOut
