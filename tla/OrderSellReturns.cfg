CONSTANTS
  Requests = {"SELL"}
  Size = 3
  PolyMin = 2
  MaxReprice = 1
  PlaceAttempts = 2
  FakAttempts = 2
  MaxOrders = 2
  MaxRequests = 1
  QueueCap = 1
SPECIFICATION FairSpec
PROPERTY SellReturnsEventually
CHECK_DEADLOCK FALSE
