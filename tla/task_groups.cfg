SPECIFICATION Spec
CONSTANTS
  N = 3
  Tasks = {1, 2, 3}
  Outcomes = {"nil", "err", "panic", "goexit"}
  Promises = {1, 2}
  Waiters = {w1, w2}
INVARIANTS
  Barrier
  ReportExact
  EveryItemAccounted
PROPERTIES
  EverybodyReturns
  OutcomeDelivered
