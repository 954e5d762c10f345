CONSTANTS
  Params <- MCParams
  Edges <- MCEdges
  Rates = {1, 30}
  Views <- MCViews
  Slot = 5
  MaxShares = 2
  Cooldown = 1
  Reentry = 1
  RegimeBypass = TRUE
  AgeCap = 1

SPECIFICATION FairSpec

INVARIANTS
  ClockMeasuresThePosition
  TrailingIsThisPositions
  TrendIsThisMarkets
  BookedUnderOpener

PROPERTIES
  PositionCloses

CHECK_DEADLOCK FALSE
