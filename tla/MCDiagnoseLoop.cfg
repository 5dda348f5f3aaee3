SPECIFICATION Spec
CONSTANTS
  Case = {c1, c2, c3, c4}
  ValCase = {v1}
  Hyp = {h1, h2}
  None = None
  MaxCycles = 2
  Retries = 1
  MaxLeads = 1
  MaxCalls = 3
SYMMETRY Symmetry
INVARIANTS
  TypeOK
  MinedOnExplore
  VerifiedOnHoldout
  FinalUntouched
  FixedOnFinal
  ProposerEvidence
  ReportConsistent
  TestsConfirmatory
\* a session ends when its calls are made
CHECK_DEADLOCK FALSE
