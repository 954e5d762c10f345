CONSTANTS
  Requests = {"BUY"}
  Size = 3
  PolyMin = 2
  MaxReprice = 0
  PlaceAttempts = 2
  FakAttempts = 2
  MaxOrders = 2
  MaxRequests = 1
  QueueCap = 1
SPECIFICATION FairSpec
PROPERTY BuyReturnsEventually
CHECK_DEADLOCK FALSE
