SPECIFICATION FairSpec
CONSTANTS
  audit = audit
  Streams = {audit}
  Runs = {r1, r2}
  Nobody = Nobody
  Settings <- TwoSettings
  LockTime = 2
  TaskTime = 1
  MaxEntries = 3
  MaxFails = 2
INVARIANTS
  ArchiveInv
  SteadyNotDoubled
PROPERTIES
  EverythingIsNamed
