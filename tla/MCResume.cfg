SPECIFICATION Spec
CONSTANTS
  MaxCycles = 3
  MaxHypotheses = 2
  Analyzer = {a1, a2}
  MaxNow = 1
  MaxFaults = 1
  AnalysisOnly = FALSE
  None = None
  Torn = Torn
INVARIANTS
  TypeOK
  LossIsBounded
  HeartbeatFollows
PROPERTIES
  ImplementsJournal
