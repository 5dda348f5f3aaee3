SPECIFICATION FairSpec
CONSTANTS
  Caller = {c1, c2, c3}
  Case = {k1, k2}
  Answer = {a}
  Enhanced = {e1}
  k1 = k1
  k2 = k2
  a = a
  b = b
  e1 = e1
  Observed <- MCObserved
  Request <- BigEnhanced
  BigRequest <- BigEnhanced
  BigReply <- BigEnhanced
  Blank = a
  NoOutput = NoOutput
  Closed = Closed
  Missing = Missing
  Budget = 4
  CaseCap = 0
  MinSupport = 0
  Workers = 1
  Frozen = FALSE
  MaxRid = 3
PROPERTY
  CallsReturn
