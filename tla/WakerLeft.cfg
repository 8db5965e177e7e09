SPECIFICATION Spec
CONSTANTS
  w = w
  Asks = {a, w}
  Whatsapp <- TwoBands
  NoAsk = NoAsk
  Runs = {r1}
  Owners = {o1, o2}
  Nobody = Nobody
  MaxRows = 1
  ClaimLease = 1
  PostLease = 1
  Lag = 0
  MaxTime = 3
  MaxCrashes = 0
PROPERTIES
  LeftForNextPass
