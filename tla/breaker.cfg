SPECIFICATION LSpec
CONSTANTS
  Calls = {c1, c2}
  CfgFailureThreshold = 2
  CfgSuccessThreshold = 0
  CfgTimeout = 2
  CfgMaxHalfOpenRequests = 0
  CallbackEnds = {"return", "panic", "reenter"}
INVARIANTS
  CountersInRange
  ProbeAccounting
PROPERTIES
  ContractSpec
  CallersGetAnswer
  Recovers
  OpenEventuallyProbed
