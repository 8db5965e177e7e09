SPECIFICATION Spec
CONSTANTS
  audit = audit
  Streams = {audit}
  Runs = {r1}
  Nobody = Nobody
  Settings <- OneTrimmed
  LockTime = 2
  TaskTime = 1
  MaxEntries = 3
  MaxFails = 1
INVARIANTS
  NeverDoubled
