SPECIFICATION FairSpec
CONSTANTS
  Top = 1
  Configured = 1
  Ceilings <- MCCeilings
  Results <- MCResults
  Gate = 2
  SupportFloor = 2
  MaxRounds = 2
  MaxAttempts = 3
INVARIANTS
  TypeOK
  Restored
  CertifiedByFamily
  WithinCeiling
  EscalatesOnFailure
  LoggedOnce
  EbhIsTheLoop
PROPERTIES
  CallEnds
