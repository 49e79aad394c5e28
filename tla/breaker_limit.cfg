SPECIFICATION Spec
CONSTANTS
  Calls = {c1, c2, c3}
  CfgFailureThreshold = 1
  CfgSuccessThreshold = 1
  CfgTimeout = 1
  CfgMaxHalfOpenRequests = 1
INVARIANT HalfOpenLimit
