SPECIFICATION FairSpec
CONSTANTS
  gemini = gemini
  outbox = outbox
  plain = plain
  odd = odd
  t1 = t1
  NoJob = NoJob
  Nobody = Nobody
  Rows = {plain, odd}
  Jobs = {gemini, outbox}
  Ticks = {t1, t2}
  Wants <- WantsFor
  Odd <- OddFor
  Settings <- TwoSettings
  Lease = 2
  TaskTime = 1
  Overlap = 1
  Lag = 1
  MaxFaults = 1
INVARIANTS
  WatcherInv
PROPERTIES
  NoSecondCopy
  
  Quiet
