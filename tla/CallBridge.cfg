SPECIFICATION FairSpec
CONSTANTS
  a1 = a1
  a2 = a2
  b1 = b1
  q1 = q1
  Agents = {a1, a2}
  MaxSaid = 4
  Tasks <- AllTasks
  Requests = {q1, q2}
  NoCard = NoCard
  Partial <- PartialEffects
  Bridges = {b1, b2}
  Nobody = Nobody
  Modes <- Rooms
CHECK_DEADLOCK FALSE
INVARIANTS
  BridgeInv
  ShowsOneCard
  ClaimedAsConfirmed
  
PROPERTIES
  
  EndIsFinal
  EveryTurnIsRead
  OverdueCloses
  AckIsKept
