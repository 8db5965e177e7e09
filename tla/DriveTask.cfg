SPECIFICATION Spec
CONSTANTS
 MaxRequests = 2
 MaxRejections = 2
 Reservation = 2
 Cost = 1
 Laptop = laptop
 Api = api
 Workers = {laptop, api}
 NoWorker = none
 p1 = p1
 p2 = p2
 w1 = w1
 w2 = w2
 Passes = {p1, p2}
 Works = {w1, w2}
 Pushes = {p2}
 Rooms <- TestRooms
CHECK_DEADLOCK FALSE
INVARIANTS  WorkInv
PROPERTIES EveryDeliveryEnds EveryTaskAnswered
