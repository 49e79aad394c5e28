SPECIFICATION FairSpec
CONSTANTS
  N = 3
  CfgConcurrency = 2
  Outcomes = {"nil", "err", "ctx", "panic"}
INVARIANTS
  BoundedConcurrency
  NoneOutlivesMap
  NilMeansMapped
  FailureReported
PROPERTY MapReturns
