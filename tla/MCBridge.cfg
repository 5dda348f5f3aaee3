SPECIFICATION FairSpec
CONSTANTS
  Caller = {c1, c2}
  Case = {k1, k2}
  Answer = {a, b}
  Enhanced = {e1}
  k1 = k1
  k2 = k2
  a = a
  b = b
  e1 = e1
  Observed <- MCObserved
  Request <- MCRequest
  BigRequest <- BigEnhanced
  BigReply <- BigEnhanced
  Blank = a
  NoOutput = NoOutput
  Closed = Closed
  Missing = Missing
  Budget = 2
  CaseCap = 1
  MinSupport = 1
  Workers = 2
  Frozen = FALSE
  MaxRid = 2
INVARIANTS
  TypeOK
  SeenIsRecorded
  WithinLimits
  GuardSound
  SupportedIsKept
PROPERTIES
  ImplementsRemoteCall
  CallsReturn
  SessionEnds
