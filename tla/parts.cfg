SPECIFICATION Spec
CONSTANTS
  Migrators = {p1, p2}
  Latest = 2
  StepCounts = {0, 2}
  Inits = {k1, k2}
  Registrars = {g1, g2}
  Patterns = {"a", "b"}
  Keys = {"A", "B", "C"}
  Raws <- MCRaws
  Shapes <- MCShapes
  WordBits = 6
  MantissaBits = 4
  Configs <- MCConfigs
  Users = 2
INVARIANTS
  OutcomeTrue
  
  LoadIsReference
  AttemptsExact
  AtMostOneLateCall
  PanicBecomesInternal
  RecordAgrees
PROPERTIES
  SchemaUnderLock
  HandlersFrozen
  StartupCallsReturn
  BackoffSound
  CancelReturns
