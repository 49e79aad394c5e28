SPECIFICATION FairSpec
CONSTANTS
  p1 = p1
  p2 = p2
  v1 = v1
  v2 = v2
  Keys = {k1}
  Values = {v1}
  Procs <- MCProcs
  TTLs <- MCTTLs
  StartTime = 2
  MaxTime = 4
  Cleanup = TRUE
  NoItem = NoItem
  NoCall = NoCall
INVARIANTS
  PickedAreExpired
PROPERTIES
  HitWasLive
  MapSpec
  CloseReturns
  ExpiredEvicted
