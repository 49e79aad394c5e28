SPECIFICATION Spec
CONSTANTS
  p1 = p1
  p2 = p2
  v1 = v1
  v2 = v2
  Keys = {k1}
  Values <- MCValues
  Procs <- MCProcs
  TTLs = {1}
  StartTime = 2
  MaxTime = 4
  Cleanup = TRUE
  NoItem = NoItem
  NoCall = NoCall
SYMMETRY Symmetry
INVARIANT MissMeansAbsent
