CONSTANTS
  Prices = {1, 2}
  Ceiling = 3
  MaxChanges = 2
  Modes = {{}, {"unnumbered"}, {"best_bid_ask", "http"}, {"best_bid_ask", "unnumbered"}}
  MaxSeq = 3
  QueueCap = 2
SPECIFICATION FairSpec
INVARIANTS MirrorsExchange CleanSnapshotIsCurrent LevelsExist
PROPERTIES CatchesUp
