CONSTANTS
  o1 = o1
  o2 = o2
  w1 = w1
  w2 = w2
  Orders <- TwoOrders
  Waiters <- TwoCalls
  Size = 2
  CacheMax = 1
  WireMax = 2
  MaxMatched = 2
SPECIFICATION Spec
INVARIANTS CacheAndStatesAgree FilledIsReal WaitersMissNothing
