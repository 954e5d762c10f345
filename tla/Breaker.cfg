CONSTANTS
  trader = trader
  worker = worker
  Callers = {trader, worker}
  Gated = {trader}
  Threshold = 2
  Recovery = 2
  MaxFailures = 7
SPECIFICATION BreakerFairSpec
INVARIANTS ClosedIffBelowThreshold
PROPERTIES QuietAfterTrip RecoversWhileOrdersRest
