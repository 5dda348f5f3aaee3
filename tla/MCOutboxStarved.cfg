SPECIFICATION FairSpec
CONSTANTS
  N = 3
  Proc = {p1}
  Limit = 1
PROPERTY EventuallyHanded
