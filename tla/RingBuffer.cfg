SPECIFICATION FairSpec
CONSTANTS
  Reader = {r1, r2}
  Writer = {w1, w2}
  NoWait = {r2}
  MultiReader = TRUE
  MultiWriter = TRUE
  Size = 3
  NULL = NULL
  MaxPuts = 3
INVARIANTS TypeOK
PROPERTIES ImplementsFifo ShutdownReleases
