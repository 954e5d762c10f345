------------------------------- MODULE EntryGates -------------------------------
(***************************************************************************)
(* The decisions of the strategy engine that depend on the present tick    *)
(* only: the entry gates (core/engine_entry_gates.py), the two ways to an  *)
(* entry signal (core/engine_entry_candidates.py), the choice of a profile *)
(* (core/market_phase.py), sizing and trailing exits                       *)
(* (core/engine_sizing.py) and the RSI exit (core/engine_rsi_exit.py).     *)
(*                                                                         *)
(* c is the record of the engine's parameters, t the trend state           *)
(* [edge, trend, age, speed, depth, prev] of a tick (prev is the edge      *)
(* before this one, a sequence that is empty when there is none), v what   *)
(* else the tick sees of the market.  Everything is a whole number: edges  *)
(* and speeds in points, quotes in cents, factors in percent or in      *)
(* tenths, times in seconds, money in cents.                               *)
(***************************************************************************)
EXTENDS Integers, Sequences

Direction == {"UP", "DOWN"}
Trend == Direction \cup {"FLAT"}

Abs(x) == IF x < 0 THEN -x ELSE x
Greater(a, b) == IF a < b THEN b ELSE a
Smaller(a, b) == IF a < b THEN a ELSE b
Sign(x) == IF x > 0 THEN 1 ELSE IF x < 0 THEN -1 ELSE 0
SignOf(d) == IF d = "UP" THEN 1 ELSE -1

---------------------------------------------------------------------------
(* Gates on the feed and the order book. *)

AskWithin(ask, lo, hi) ==
  /\ (0 < lo /\ lo < 100) => ask >= lo
  /\ (0 < hi /\ hi < 100) => ask <= hi

OutcomePriceAllows(c, d, v) ==
  IF d = "UP" THEN AskWithin(v.upAsk, c.minAskUp, c.maxAskUp)
              ELSE AskWithin(v.downAsk, c.minAskDown, c.maxAskDown)

AskAllowsOpen(c, ask) == ask < c.maxEntryAsk

LatencyAllows(c, v) == c.maxLatency <= 0 \/ v.latency <= c.maxLatency

SkewAllows(c, v) == c.maxSkew <= 0 \/ (c.minSkew <= v.skew /\ v.skew <= c.maxSkew)

EdgeJumpOk(c, t) ==
  \/ c.jumpBypassSpeed > 0 /\ Abs(t.speed) >= c.jumpBypassSpeed
  \/ c.maxJump <= 0
  \/ t.prev = <<>>
  \/ Abs(t.edge - t.prev[1]) <= c.maxJump

IsStrong(c, edge) == 100 * Abs(edge) >= c.buyEdge * c.strongMult
IsAggressive(c, edge) == 100 * Abs(edge) >= c.buyEdge * c.aggressiveMult

AggressiveAgeOk(c, t) ==
  c.aggressiveAge <= 0 \/ ~IsAggressive(c, t.edge) \/ t.age >= c.aggressiveAge

FlipSettled(c, t) == c.flipAge <= 0 \/ t.age >= c.flipAge

\* The spread a trend may pay: an upward trend is given more room.
SpreadLimit(c, t, limit) ==
  IF t.trend = "UP" /\ c.upRelax > 100 THEN limit * c.upRelax ELSE limit * 100

LegacySpreadOk(c, t, v) ==
  \/ c.maxSpread <= 0
  \/ 100 * v.spreadUp <= SpreadLimit(c, t, c.maxSpread)
  \/ Abs(t.edge) >= c.wideSpreadEdge

LiquidityOk(c, t, v) ==
  \/ c.liquiditySpread <= 0
  \/ t.trend = "FLAT"
  \/ 100 * (IF t.trend = "UP" THEN v.spreadUp ELSE v.spreadDown)
       <= SpreadLimit(c, t, c.liquiditySpread)
  \/ Abs(t.edge) >= c.wideSpreadEdge

\* The speed against the mean of the three samples before it.
AccelerationOk(c, t, v) ==
  \/ ~c.accelEnabled
  \/ Len(v.speeds) < 3
  \/ t.trend = "FLAT"
  \/ SignOf(t.trend) * (3 * t.speed - (v.speeds[1] + v.speeds[2] + v.speeds[3]))
       >= 3 * c.accelMin

\* Ticks of the last k + 1 z-scores that move against d, or not at all.
Against(d, zs, k) ==
  {i \in (IF Len(zs) > k THEN Len(zs) - k ELSE 1) .. Len(zs) - 1 :
     SignOf(d) * (zs[i + 1] - zs[i]) <= 0}

ZMonotonic(c, d, zs) ==
  \/ c.strictness = "off"
  \/ /\ d \in Direction /\ Len(zs) >= 2
     /\ LET k == Greater(1, c.strictTicks)
            bad == Against(d, zs, k)
        IN \/ bad = {}
           \/ k > 1 /\ c.strictness = "relaxed" /\ \E i \in bad : bad = {i}

ZTrendOk(c, t, v) ==
  \/ c.zBypassSpeed > 0 /\ Abs(t.speed) >= c.zBypassSpeed
  \/ ~c.zEnabled
  \/ ZMonotonic(c, t.trend, v.zs)

RsiSlopeAllows(c, d, v) ==
  IF d = "UP" THEN v.rsi < c.rsiUpMax /\ v.slope > c.slopeUpMin
              ELSE v.rsi > c.rsiDownMin /\ v.slope < c.slopeDownMax

\* RSI gate of an entry, with the exceptions for large edges.
RsiAllows(c, d, t, v) ==
  \/ IsStrong(c, t.edge) /\ c.rsiBypassStrong
  \/ IsAggressive(c, t.edge) /\ c.rsiBypassAggressive
  \/ IF c.rsiSlopeFilter THEN RsiSlopeAllows(c, d, v)
     ELSE IF d = "UP" THEN c.rsiUpLow < v.rsi /\ v.rsi < c.rsiUpHigh
                      ELSE c.rsiDownLow < v.rsi /\ v.rsi < c.rsiDownHigh

\* No entry in the first and the last seconds of a slot.
SlotWindowAllows(c, left) ==
  /\ c.noEntryLast > 0 => left > c.noEntryLast
  /\ c.noEntryFirst > 0 => c.slot - left > c.noEntryFirst

\* Against the side of the slot's price to beat an entry needs some distance from it.
PriceToBeatAllows(c, d, v) ==
  \/ ~c.ptbEnabled \/ v.anchor <= 0 \/ v.fast <= 0
  \/ Sign(v.fast - v.anchor) # -SignOf(d)
  \/ 10000 * Abs(v.fast - v.anchor) >= c.ptbMinDelta * v.anchor

\* spread_gate of process_tick(), HFT_NO_ENTRY_GUARDS being off.
SpreadGate(c, t, v) ==
  /\ LegacySpreadOk(c, t, v) /\ LiquidityOk(c, t, v)
  /\ AccelerationOk(c, t, v) /\ ZTrendOk(c, t, v)
  /\ LatencyAllows(c, v) /\ SkewAllows(c, v) /\ FlipSettled(c, t)
  /\ EdgeJumpOk(c, t) /\ AggressiveAgeOk(c, t)

---------------------------------------------------------------------------
(* The entry signal. *)

LowSpeedTenths(c, t) == IF Abs(t.speed) < c.lowSpeedAbs THEN c.lowSpeedMult ELSE 10

LatencyExpiryTenths(c, v, left) ==
  (IF v.latency > c.latencyHigh THEN c.latencyHighMult
   ELSE IF v.latency > c.latencyMid THEN 11 ELSE 10)
  * (IF left < c.expiryTight THEN c.expiryMult ELSE 10)

\* The edge an entry needs, in points * 1000.  v.vol is 0.6 of the deviation of
\* the last prices, less than 0 while fewer than 30 are known.
NeededEdge(c, d, t, v, left) ==
  LET base == IF v.vol < 0 THEN IF d = "UP" THEN c.buyEdge ELSE c.sellEdge
              ELSE Greater(c.volFloor, Smaller(c.volCap, v.vol))
  IN base * LatencyExpiryTenths(c, v, left) * LowSpeedTenths(c, t)

HasEdge(c, d, t, v, left) == 1000 * SignOf(d) * t.edge >= NeededEdge(c, d, t, v, left)

\* The ask is at an end of the range, where an aggressive edge is not trusted.
ExtremeAsk(c, d, v) ==
  LET ask == IF d = "UP" THEN v.upAsk ELSE v.downAsk
  IN c.extremeAskBlock /\ ask > 0 /\ (ask > c.extremeAskHi \/ ask < c.extremeAskLo)

ExtremeMids(c, v) == \E m \in {v.upMid, v.downMid} :
  m > 0 /\ (m < c.extremeLow \/ m > c.extremeHigh)

\* The speed along d that confirms an entry.  With an aggressive edge upward the
\* relaxed bound replaces the first condition only, downward it replaces both.
SpeedConfirms(c, d, t, v, left) ==
  LET along == SignOf(d) * t.speed
      relaxed == IsAggressive(c, t.edge) /\ HasEdge(c, d, t, v, left)
      strong == IsStrong(c, t.edge) /\ along >= c.speedFloor
  IN IF d = "UP"
     THEN /\ t.speed >= c.speedFloor
          /\ t.speed >= c.upSpeedMin \/ strong \/ (relaxed /\ t.speed >= c.relaxSpeed)
     ELSE LET relaxedDown == relaxed /\ t.speed >= -c.relaxSpeedDown
          IN /\ along >= c.speedFloor \/ relaxedDown
             /\ t.speed <= c.downSpeedMax \/ strong \/ relaxedDown

\* A trend that has lasted, is deep enough and whose edge is large enough.
Confirmed(c, d, t, v, left) ==
  /\ t.trend = d
  /\ t.age >= (IF IsStrong(c, t.edge) THEN c.confirmAgeStrong ELSE c.confirmAge)
  /\ 100 * 1000 * t.depth >= NeededEdge(c, d, t, v, left) * c.depthMult
  /\ HasEdge(c, d, t, v, left)
  /\ SpeedConfirms(c, d, t, v, left)

\* A very large edge is followed at once.
StrongJump(c, d, t) ==
  /\ 10000 * Abs(t.edge) >= c.buyEdge * c.aggressiveMult * 120
  /\ c.jumpAge <= 0 \/ t.age >= c.jumpAge
  /\ t.trend = d /\ SignOf(d) * t.edge > 0

\* entry_candidate_from_state(): does the trend call for an entry on side d?
Candidate(c, d, t, v, left) ==
  /\ Abs(t.edge) >= c.noiseEdge
  /\ ~(IsAggressive(c, t.edge) /\ t.trend = d /\ ExtremeAsk(c, d, v))
  /\ ~(Abs(t.edge) < c.extremeMinEdge /\ ~IsStrong(c, t.edge) /\ ExtremeMids(c, v))
  /\ IF Confirmed(c, d, t, v, left)
     THEN t.prev = <<>> \/ (SignOf(d) * t.edge > 0 /\ SignOf(d) * t.prev[1] > 0)
     ELSE StrongJump(c, d, t)

\* entry_momentum_alt_signal()
MomentumAlt(c, d, t, v, left) ==
  /\ c.momentumAlt
  /\ Abs(t.edge) >= 2 * c.noiseEdge
  /\ t.trend = d /\ ZMonotonic(c, d, v.zs) /\ AccelerationOk(c, t, v)
  /\ 100 * 1000 * SignOf(d) * t.edge >= 85 * NeededEdge(c, d, t, v, left)
  /\ SignOf(d) * t.speed >= c.speedFloor

Signal(c, d, t, v, left) == Candidate(c, d, t, v, left) \/ MomentumAlt(c, d, t, v, left)

---------------------------------------------------------------------------
(* The remaining conditions of an entry, and its size. *)

\* The outcome's mid has risen since the tick before by what an entry needs.
BookMoved(c, prev, mid) ==
  \/ c.bookMoveMin <= 0
  \/ mid > 0 /\ prev # <<>> /\ mid - prev[1] >= c.bookMoveMin

NextMid(prev, mid) == IF mid <= 0 THEN prev ELSE <<mid>>

BookAllows(c, t, prev, mid) ==
  BookMoved(c, prev, mid) \/ IsStrong(c, t.edge) \/ IsAggressive(c, t.edge)

ImbalanceAllows(c, d, v) ==
  c.minImbalance <= 0 \/ (IF d = "UP" THEN v.imbUp ELSE v.imbDown) >= c.minImbalance

\* can_trade(): what is held is below the largest position.
CanTrade(c, exposure) == exposure < c.maxPosition

DepositNotional(c, balance) ==
  IF balance <= 0 THEN 0
  ELSE IF c.depositPct <= 0 THEN Smaller(Greater(0, c.fixedTrade), balance)
  ELSE Greater(0, Smaller(Greater(0, c.fixedTrade)
                            + (Greater(0, balance - c.deposit) * c.depositPct) \div 100,
                          balance))

TierAmount(c, px) ==
  IF px < c.minExecPrice THEN c.floorNotional
  ELSE Smaller(c.amountMax,
         Greater(c.amountMin, IF px < c.cheapBelow THEN c.amountCheap
                              ELSE IF px > c.richAbove THEN c.amountRich
                              ELSE c.riskPerTick * px))

\* calc_dynamic_amount(): the size of an entry.
DynamicAmount(c, px, balance) ==
  LET base == DepositNotional(c, balance)
  IN Greater(Smaller(base, c.amountMin),
             Smaller(Smaller(base, TierAmount(c, px)), c.amountMax))

---------------------------------------------------------------------------
(* Exits.  p is [side, hold, gain, move, peak, floor]: the seconds the clock *)
(* gives the position, its unrealized profit, the move of its outcome's mid  *)
(* since the entry in percent, and the two trailing marks.                   *)

NoFloor == -1
NoTrail == [peak |-> 0, floor |-> NoFloor]

HoldMet(c, hold) == c.minHold <= 0 \/ hold >= c.minHold

TpLine(c, notional) == IF c.tpPct > 0 THEN notional * c.tpPct ELSE 100 * c.targetProfit
SlLine(c, notional) == IF c.slPct > 0 THEN notional * c.slPct ELSE 100 * c.stopLoss

\* The peak only rises, and so does the floor it drags along: in steps above the
\* profit at which the stop reaches break-even.  The floor is in cents * 100.
UpdateTrail(c, trail, gain) ==
  LET peak == Greater(trail.peak, gain)
      steps == IF c.trailStep > 0 THEN (peak - c.breakeven) \div c.trailStep ELSE 0
  IN [peak |-> peak,
      floor |-> IF c.trailSl /\ peak >= c.breakeven
                THEN Greater(trail.floor, steps * c.trailStep * c.stepLock)
                ELSE trail.floor]

TrailingTp(c, p) ==
  /\ c.trailTp /\ HoldMet(c, p.hold) /\ p.peak >= c.trailFrom
  /\ 100 * (p.peak - p.gain) >= Greater(p.peak * c.pullback, 100 * c.minPullback)

TrailingSl(c, p) ==
  c.trailSl /\ HoldMet(c, p.hold) /\ p.floor # NoFloor /\ 100 * p.gain < p.floor

ClampRsi(c, rsi) == Greater(c.clampLow, Smaller(c.clampHigh, rsi))

\* The RSI has come back to the band with the profit made, or run out of it.
RsiRangeExit(c, p, v) ==
  LET rx == ClampRsi(c, v.rsi)
      out == c.rsiMargin + c.rsiFade
      faded == /\ c.rsiMinHold > 0 => p.hold >= c.rsiMinHold
               /\ \/ p.gain > c.rsiMinProfit
                  \/ /\ c.rsiFadePositive => p.gain > 0
                     /\ IF p.side = "UP" THEN rx <= c.rsiLow ELSE rx >= c.rsiHigh
      made == 100 * p.gain >= TpLine(c, v.notional)
  IN IF p.side = "UP"
     THEN (rx >= v.upper /\ made) \/ (rx <= v.lower - out /\ faded)
     ELSE (rx <= v.lower /\ made) \/ (rx >= v.upper + out /\ faded)

\* Both sides compare the RSI with the upper band.
InternalReversal(c, side, v) ==
  LET rx == ClampRsi(c, v.rsi)
  IN \/ rx >= v.upper
     \/ IF side = "UP"
        THEN (v.imb <= 45 /\ rx < 100 - c.imbRsi) \/ v.slope <= c.slopeUpExit
        ELSE (v.imb >= 55 /\ rx > c.imbRsi) \/ v.slope >= c.slopeDownExit

OppositeTrendExit(c, p, t) ==
  /\ c.exitOnOpposite
  /\ t.trend \in Direction \ {p.side}
  /\ c.oppositeMinHold > 0 => p.hold >= c.oppositeMinHold
  /\ c.oppositeMinEdge > 0 => Abs(t.edge) >= c.oppositeMinEdge

ReactionTp(c, p, v) ==
  HoldMet(c, p.hold) /\ p.move >= c.takeMove /\ InternalReversal(c, p.side, v)

ReactionStop(c, p) == HoldMet(c, p.hold) /\ p.move <= -c.stopMove

PnlSl(c, p, v) == HoldMet(c, p.hold) /\ 100 * p.gain <= -SlLine(c, v.notional)

\* Mutant of SlotEdge: no forced close.
SlotEdgeByPrice(c, p, v, left) ==
  /\ left < c.slot99
  /\ IF p.side = "DOWN" THEN v.downBid >= 99 \/ v.downAsk >= 99
                        ELSE v.upBid >= 99 \/ v.upAsk >= 99

\* The slot is about to end, or its outcome is already priced at 99 cents.
SlotEdge(c, p, v, left) ==
  \/ c.forceLast > 0 /\ left <= c.forceLast
  \/ /\ left < c.slot99
     /\ IF p.side = "DOWN" THEN v.downBid >= 99 \/ v.downAsk >= 99
                           ELSE v.upBid >= 99 \/ v.upAsk >= 99

\* should_close, and the edge of the slot before it.
ShouldClose(c, p, t, v, left) ==
  \/ SlotEdge(c, p, v, left)
  \/ OppositeTrendExit(c, p, t)
  \/ TrailingTp(c, p) \/ TrailingSl(c, p)
  \/ ReactionTp(c, p, v) \/ ReactionStop(c, p)
  \/ RsiRangeExit(c, p, v) \/ PnlSl(c, p, v)

---------------------------------------------------------------------------
(* The profile of the entry parameters, from the trend t of a tick. *)

Volatile(c, t) == Abs(t.edge) >= c.volEdge \/ Abs(t.speed) >= c.volSpeed

\* What select_engine_profile() asks of the trend.
SoftTrend(c, t) ==
  /\ c.softEnabled /\ t.trend # "FLAT" /\ ~Volatile(c, t)
  /\ t.age >= c.softMinAge /\ Abs(t.edge) >= c.softMinEdge
  /\ Abs(t.speed) <= c.softMaxSpeed /\ Abs(t.edge) <= c.softMaxEdge

SelectProfile(c, t, latency) ==
  IF SoftTrend(c, t) /\ latency <= c.softMaxLatency THEN "soft_flow" ELSE "latency"

\* The reasons diagnose_phase() logs.
Blockers(c, t, latency) ==
  IF ~c.softEnabled THEN {"soft_flow_disabled"}
  ELSE IF t.trend = "FLAT" THEN {"flat_trend"}
  ELSE IF Abs(t.edge) >= c.volEdge THEN {"volatile_edge"}
  ELSE IF Abs(t.speed) >= c.volSpeed THEN {"volatile_speed"}
  ELSE {b \in {"age_below_soft_min", "edge_below_soft_min", "speed_above_soft_max",
              "edge_above_soft_max", "stale_above_soft_max"} :
          \/ b = "age_below_soft_min" /\ t.age < c.softMinAge
          \/ b = "edge_below_soft_min" /\ Abs(t.edge) < c.softMinEdge
          \/ b = "speed_above_soft_max" /\ Abs(t.speed) > c.softMaxSpeed
          \/ b = "edge_above_soft_max" /\ Abs(t.edge) > c.softMaxEdge
          \/ b = "stale_above_soft_max" /\ latency > c.softMaxLatency}

=============================================================================
