SPECIFICATION FairSpec
CONSTANTS
  MaxLease = 2
  NoOne = NoOne
  Works = {w}
  p = p
  q = q
  r = r
  Clients = {p, r}
  Actors = {"a", "b"}
  Tags <- MCTags
  Offers <- RolloutOffers
  OldOffers <- OldClaims
  OldBinary = OldBinary
  NoBody = NoBody
  Forged = Forged
  MaxRequests = 2
  MaxTime = 3
  MaxEvents = 3
CHECK_DEADLOCK FALSE
INVARIANTS
  NoDowngrade
PROPERTIES
  ObservationsAreInert
  EverythingEnds
  ImplementsFencedWork
