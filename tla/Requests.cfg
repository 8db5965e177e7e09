SPECIFICATION FairSpec
CONSTANTS
  op = op
  probe = probe
  w1 = w1
  w2 = w2
  Nobody = Nobody
  Order <- Two
  Probes <- TheProbe
  Workers <- Both
  MaxPerRun = 1
  MaxFaults = 1
  MaxLapses = 1
INVARIANTS
  RequestsInv
  ResultOnceUnderLock
PROPERTIES
  EveryRequestEnds
