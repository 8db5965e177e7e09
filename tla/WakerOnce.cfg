SPECIFICATION Spec
CONSTANTS
  w = w
  Asks = {a, w}
  Whatsapp <- OneBand
  NoAsk = NoAsk
  Runs = {r1, r2}
  Owners = {o1, o2, o3}
  Nobody = Nobody
  MaxRows = 2
  ClaimLease = 2
  PostLease = 1
  Lag = 1
  MaxTime = 2
  MaxCrashes = 1
SYMMETRY Alike
INVARIANTS
  AtMostOneReply
  AnsweredMeansVisible
  
PROPERTIES
  SavesTakeNothingBack
