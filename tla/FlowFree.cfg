SPECIFICATION Spec
CONSTANTS
  Worker = {w1}
  Mgr = Mgr
  Streamer = {}
  Flow = {f1, f2, f3}
  NULL = NULL
  k1 = k1
  k2 = k2
  k3 = k3
  b1 = b1
  b2 = b2
  Key = {k1, k2, k3}
  Bucket = {b1, b2}
  HashOf <- ThreeKeys
  NProto = 1
  ProtoOf <- OneProto
  Stateful <- AllStateful
  Timeout <- ShortTimeouts
  Memcap = 2
  Prealloc = 1
  TryRelease = 1
  DefaultPrune = 1
  Recovery = 30
  MaxPkts = 3
  MaxTime = 1
  LastArrival = 1
SYMMETRY FlowKeySymmetry
PROPERTIES FreesUnheld
