SPECIFICATION Spec
CONSTANTS
  Caller = {c1, c2}
  Case = {k1, k2}
  Answer = {a, b, Blank}
  Enhanced = {e1}
  k1 = k1
  k2 = k2
  a = a
  b = b
  e1 = e1
  Observed <- MCObserved
  Request <- MCRequest
  BigRequest <- BigEnhanced
  BigReply <- BigEnhanced
  Blank = Blank
  NoOutput = NoOutput
  Closed = Closed
  Missing = Missing
  Budget = 3
  CaseCap = 2
  MinSupport = 2
  Workers = 1
  Frozen = TRUE
  MaxRid = 2
INVARIANT
  OwnAnswersShow
