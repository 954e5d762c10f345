---------------------------- MODULE MCStrategyEngine ----------------------------
(* An instance of StrategyEngine with the parameters of config/runtime.env, on a    *)
(* slot of 5 seconds with its windows shortened in proportion.                      *)
EXTENDS StrategyEngine, TLC

Common == [
  minAskUp |-> 12, maxAskUp |-> 94, minAskDown |-> 12, maxAskDown |-> 94,
  maxEntryAsk |-> 94, maxLatency |-> 1450, minSkew |-> -3400, maxSkew |-> 100,
  jumpBypassSpeed |-> 90, maxJump |-> 14, buyEdge |-> 5, sellEdge |-> 5,
  strongMult |-> 200, aggressiveMult |-> 300, aggressiveAge |-> 0, flipAge |-> 1,
  upRelax |-> 110, maxSpread |-> 8, wideSpreadEdge |-> 15, liquiditySpread |-> 8,
  accelEnabled |-> TRUE, accelMin |-> 0, strictness |-> "relaxed", strictTicks |-> 1,
  zBypassSpeed |-> 90, zEnabled |-> TRUE, rsiUpMax |-> 57, slopeUpMin |-> 0,
  rsiDownMin |-> 47, slopeDownMax |-> 0, rsiBypassStrong |-> FALSE,
  rsiBypassAggressive |-> TRUE, rsiSlopeFilter |-> TRUE, noEntryLast |-> 1,
  noEntryFirst |-> 1, slot |-> 5, ptbEnabled |-> TRUE, ptbMinDelta |-> 1,
  lowSpeedAbs |-> 2, lowSpeedMult |-> 22, latencyHigh |-> 400, latencyMid |-> 200,
  latencyHighMult |-> 13, expiryTight |-> 3, expiryMult |-> 20, volFloor |-> 4,
  volCap |-> 20, extremeAskBlock |-> FALSE, extremeAskHi |-> 85, extremeAskLo |-> 15,
  extremeLow |-> 20, extremeHigh |-> 80, extremeMinEdge |-> 5, speedFloor |-> 0,
  upSpeedMin |-> 2, relaxSpeed |-> -8, relaxSpeedDown |-> 30, downSpeedMax |-> -2,
  confirmAge |-> 1, confirmAgeStrong |-> 1, depthMult |-> 78, jumpAge |-> 0,
  noiseEdge |-> 1, momentumAlt |-> TRUE, bookMoveMin |-> 1, minImbalance |-> 62,
  maxPosition |-> 10, fixedTrade |-> 500, depositPct |-> 0, deposit |-> 10000,
  minExecPrice |-> 10, floorNotional |-> 3000, amountMax |-> 10000, amountMin |-> 2000,
  cheapBelow |-> 20, amountCheap |-> 4500, richAbove |-> 80, amountRich |-> 8000,
  riskPerTick |-> 100, minHold |-> 1, tpPct |-> 9, targetProfit |-> 50, slPct |-> 17,
  stopLoss |-> 50, breakeven |-> 20, trailStep |-> 10, trailSl |-> TRUE, stepLock |-> 50,
  trailTp |-> TRUE, trailFrom |-> 30, pullback |-> 38, minPullback |-> 5, clampLow |-> 1,
  clampHigh |-> 99, rsiMargin |-> 20, rsiFade |-> 8, rsiMinHold |-> 1, rsiMinProfit |-> 0,
  rsiFadePositive |-> TRUE, rsiLow |-> 10, rsiHigh |-> 90, imbRsi |-> 20,
  slopeUpExit |-> -2, slopeDownExit |-> 2, exitOnOpposite |-> TRUE, oppositeMinHold |-> 1,
  oppositeMinEdge |-> 5, takeMove |-> 10, stopMove |-> 15, forceLast |-> 1, slot99 |-> 2,
  volEdge |-> 32, volSpeed |-> 720, softEnabled |-> TRUE, softMinAge |-> 1,
  softMinEdge |-> 5, softMaxSpeed |-> 420, softMaxEdge |-> 18, softMaxLatency |-> 1450]

MCParams == [latency |-> Common,
             soft_flow |-> [Common EXCEPT !.buyEdge = 10, !.sellEdge = 10,
                                          !.strongMult = 250, !.aggressiveMult = 800]]

\* A quiet market, from which the others differ.
Quiet == [
  latency |-> 100, skew |-> 0, spreadUp |-> 2, spreadDown |-> 2, speeds |-> <<0, 0, 0>>,
  zs |-> <<0, 1>>, rsi |-> 50, slope |-> 1, vol |-> -1, upAsk |-> 51, downAsk |-> 50,
  upBid |-> 49, downBid |-> 48, upMid |-> 50, downMid |-> 49, anchor |-> 0, fast |-> 0,
  imbUp |-> 70, imbDown |-> 70, imb |-> 50, gain |-> 0, move |-> 0, notional |-> 500,
  upper |-> 70, lower |-> 30, balance |-> 10000, meta |-> TRUE, goodRegime |-> TRUE]

Rising == [Quiet EXCEPT !.upMid = 52, !.upBid = 51, !.upAsk = 53]
Falling == [Quiet EXCEPT !.downMid = 51, !.downBid = 50, !.downAsk = 52,
                         !.zs = <<1, 0>>, !.slope = -1,
                         !.gain = -90, !.move = -18]
Profit == [Quiet EXCEPT !.gain = 60, !.move = 12, !.rsi = 75]
BadRegime == [Rising EXCEPT !.goodRegime = FALSE]
Stale == [Quiet EXCEPT !.latency = 5000]

MCViews == {Rising, Falling, Profit, BadRegime, Stale}
MCEdges == {-20, 0, 12, 20}

=============================================================================
