SPECIFICATION SSpec
CONSTANTS
  Requests = {r1, r2}
  HasTimeout = TRUE
  Kinds <- MCKinds
  OptionLists <- MCOptionLists
  MaxRefills = 1
INVARIANTS
  ReturnTruthful
  AnswersGuarded
  WithinBudget
PROPERTIES
  NothingTakenAfterReturn
  SignalEndsCall
CHECK_DEADLOCK FALSE
