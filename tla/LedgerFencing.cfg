SPECIFICATION Spec
CONSTANTS
  MaxLease = 2
  NoOne = NoOne
  Works = {w}
  p = p
  q = q
  r = r
  Clients = {p, q}
  Actors = {"a", "b"}
  Tags <- MCTags
  Offers <- FencingOffers
  OldOffers <- None
  OldBinary = OldBinary
  NoBody = NoBody
  Forged = Forged
  MaxRequests = 2
  MaxTime = 3
  MaxEvents = 4
SYMMETRY Swap
CHECK_DEADLOCK FALSE
INVARIANTS
  LedgerInv
  OnlyOwnerActsLive
  LiveHoldKept
  RetriesAreSafe
  NoServerError
