SPECIFICATION FairSpec
CONSTANTS
  N = 2
  Proc = {p1, p2}
  Limit = 2
INVARIANTS
  TypeOK
  NothingForgotten
PROPERTIES
  ImplementsDelivery
  EventuallyHanded
