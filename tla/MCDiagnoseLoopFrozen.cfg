SPECIFICATION Spec
CONSTANTS
  Case = {c1, c2, c3, c4}
  ValCase = {v1}
  Hyp = {h1}
  None = None
  MaxCycles = 1
  Retries = 0
  MaxLeads = 1
  MaxCalls = 2
SYMMETRY Symmetry
INVARIANT FrozenWhenScored
CHECK_DEADLOCK FALSE
