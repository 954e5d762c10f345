CONSTANTS
  Requests = {"BUY", "SELL"}
  Size = 3
  PolyMin = 2
  MaxReprice = 1
  PlaceAttempts = 2
  FakAttempts = 2
  MaxOrders = 5
  MaxRequests = 1
  QueueCap = 1
CONSTRAINTS SomebodyWaits MessagesFindTheirOrder
SPECIFICATION Spec
INVARIANTS NoPhantomFill WaitingOrdersAreRegistered NoOrphanFsm ReportedWithinRequest PendingRowsAreWatched OrdersPerRequest
CHECK_DEADLOCK FALSE
