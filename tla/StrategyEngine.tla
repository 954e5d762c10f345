----------------------------- MODULE StrategyEngine -----------------------------
(***************************************************************************)
(* The strategy engine between ticks (core/engine.py, HFTEngine), behind   *)
(* the phase router (core/strategies/phase_router_strategy.py): the memory *)
(* of the trend, the clock and the trailing marks of the position, the     *)
(* context of its entry, and the open and close decisions of a tick.       *)
(*                                                                         *)
(* In paper mode a decision changes the position within the tick.  In live *)
(* mode log_trade() is suppressed: the main loop takes the decision to the *)
(* exchange, awaits the outcome and tells the engine of a fill             *)
(* (apply_live_entry_after_fill) or of none (rollback_live_open_signal);   *)
(* some of its paths tell the engine nothing.                              *)
(*                                                                         *)
(* Time is counted in seconds and passes in an action of its own, so any   *)
(* number of ticks fall into one second.  A clock stops when it has        *)
(* reached the last age that the model tells apart.                        *)
(***************************************************************************)
EXTENDS EntryGates

CONSTANTS Params,       \* parameters of the engine under each profile
          Edges,        \* values of fast price - oracle price
          Rates,        \* sizes of the edge's speed when the edge has changed
          Views,        \* what else a tick may see, a set of records
          Slot,         \* seconds of a market slot
          MaxShares,    \* largest position
          Cooldown,     \* seconds between entries
          Reentry,      \* seconds from a close to the next entry
          RegimeBypass, \* does soft_flow enter in a bad regime?
          AgeCap        \* bound of the clocks of positions, trends and markets

Profiles == {"latency", "soft_flow"}
Unset == -1            \* a timestamp that is 0.0 in the code
NoContext == [signal |-> "none", profile |-> "none"]
Sides == Direction \cup {"none"}

ASSUME ConstantsAssumption ==
  /\ {Slot, MaxShares, AgeCap} \subseteq Nat \ {0}
  /\ {Cooldown, Reentry} \subseteq Nat
  /\ Edges \subseteq Int /\ Rates \subseteq Nat \ {0}
  /\ RegimeBypass \in BOOLEAN

\* What the proofs need of the parameters and of the market.
ASSUME DataAssumption ==
  /\ \A p \in Profiles :
       /\ Params[p].trailSl \in BOOLEAN
       /\ {Params[p].breakeven, Params[p].trailStep, Params[p].stepLock} \subseteq Nat
       /\ Params[p].breakeven = Params["latency"].breakeven
  /\ \A v \in Views : {v.gain, v.upMid, v.downMid} \subseteq Int

VARIABLES
  mode,         \* "paper" or "live": LIVE_MODE
  at,           \* "loop", or awaiting the exchange in "opening" or "closing"
  inv, side,    \* pnl.inventory and pnl.position_side
  clock,        \* seconds since entry_time
  pending,      \* _live_entry_sync_pending
  context,      \* entry_context: signal and profile of the entry
  trail,        \* _peak_unrealized and _trailing_sl_floor
  memory,       \* last edge, its sign, trend_dir, trend_since_ts, trend_depth
  mids,         \* _prev_up_mid and _prev_down_mid
  soft,         \* does the cached trend state call for soft_flow?
  sinceTrade,   \* seconds since last_trade_time
  sinceClose,   \* seconds since last_close_time
  left,         \* seconds to the end of the slot
  behind,       \* the slot has ended and the market is not switched yet
  held,         \* history: seconds since the inventory became positive
  sinceSwitch,  \* history: seconds since the last switch of the market
  opener,       \* history: the profile active when the position was opened
  booked        \* history: opener and performance key of the last paper close

position == <<inv, side, held, opener>>
entry == <<clock, pending, context, trail>>
observed == <<memory, mids, soft>>
time == <<sinceTrade, sinceClose, left, behind, sinceSwitch>>
vars == <<mode, at, position, entry, observed, time, booked>>

NoMemory == [edge |-> <<>>, sign |-> 0, dir |-> "FLAT", age |-> Unset, depth |-> 0]
NoMids == [UP |-> <<>>, DOWN |-> <<>>]

---------------------------------------------------------------------------
(* The trend. *)

DirOf(sign) == IF sign > 0 THEN "UP" ELSE "DOWN"

\* The depth of a trend is the largest edge since it began.
DepthAfter(crossed, depth, edge) == IF crossed THEN Abs(edge) ELSE Greater(depth, Abs(edge))

\* Mutant of UpdateTrend: a cross restarts the trend but keeps its direction.
UpdateTrendKeepsDirection(m, edge) ==
  LET sign == Sign(edge)
      crossed == sign # 0 /\ m.sign # 0 /\ sign # m.sign
      started == sign # 0 /\ m.age = Unset
  IN [edge |-> <<edge>>,
      sign |-> IF sign = 0 THEN m.sign ELSE sign,
      dir |-> IF sign = 0 THEN "FLAT" ELSE IF started THEN DirOf(sign) ELSE m.dir,
      age |-> IF crossed \/ started THEN 0 ELSE m.age,
      depth |-> DepthAfter(crossed, m.depth, edge)]

\* update_trend(): an edge of zero makes the trend flat, and it stays flat until
\* the edge changes its sign.
UpdateTrend(m, edge) ==
  LET sign == Sign(edge)
      crossed == sign # 0 /\ m.sign # 0 /\ sign # m.sign
      started == sign # 0 /\ m.age = Unset
  IN [edge |-> <<edge>>,
      sign |-> IF sign = 0 THEN m.sign ELSE sign,
      dir |-> IF sign = 0 THEN "FLAT"
              ELSE IF crossed \/ started THEN DirOf(sign) ELSE m.dir,
      age |-> IF crossed \/ started THEN 0 ELSE m.age,
      depth |-> DepthAfter(crossed, m.depth, edge)]

\* The speed of the edge has the sign of its change.
SpeedsTo(edge) ==
  IF memory.edge = <<>> THEN {0}
  ELSE LET change == Sign(edge - memory.edge[1]) IN {change * r : r \in Rates}

\* get_trend_state() after update_trend()
TrendAt(edge, speed) ==
  LET m == UpdateTrend(memory, edge)
  IN [edge |-> edge, trend |-> m.dir, age |-> Greater(0, m.age), speed |-> speed,
      depth |-> m.depth, prev |-> memory.edge]

\* _apply_phase(): the profile comes from the cached trend state, which is that of
\* an earlier tick, of the market before this one too.
ProfileAt(v) ==
  IF soft /\ v.latency <= Params["latency"].softMaxLatency THEN "soft_flow" ELSE "latency"

RegimeAllows(v) == v.goodRegime \/ (RegimeBypass /\ ProfileAt(v) = "soft_flow")

Observe(edge, speed) ==
  /\ memory' = UpdateTrend(memory, edge)
  /\ soft' = SoftTrend(Params["latency"], TrendAt(edge, speed))

---------------------------------------------------------------------------
(* Entries. *)

Ask(d, v) == IF d = "UP" THEN v.upAsk ELSE v.downAsk
Mid(d, v) == IF d = "UP" THEN v.upMid ELSE v.downMid

EntriesSpaced ==
  /\ sinceTrade >= Cooldown
  /\ sinceClose = Unset \/ Reentry <= 0 \/ sinceClose >= Reentry

\* The conditions of a BUY on side d, log_trade()'s refusal included.
Enters(c, d, t, v) ==
  /\ EntriesSpaced /\ SlotWindowAllows(c, left) /\ Signal(c, d, t, v, left)
  /\ CanTrade(c, 0)
  /\ AskAllowsOpen(c, Ask(d, v)) /\ OutcomePriceAllows(c, d, v)
  /\ ImbalanceAllows(c, d, v) /\ RsiAllows(c, d, t, v)
  /\ BookAllows(c, t, mids[d], Mid(d, v))
  /\ SpreadGate(c, t, v) /\ PriceToBeatAllows(c, d, v)
  /\ v.meta
  /\ v.balance > 0 /\ v.balance >= DynamicAmount(c, Ask(d, v), v.balance)

SeeMids(v) == mids' = [UP |-> NextMid(mids["UP"], v.upMid),
                       DOWN |-> NextMid(mids["DOWN"], v.downMid)]

\* A flat tick in a bad regime returns before it looks at the market.
TickSkipped(v) ==
  /\ at = "loop" /\ inv = 0 /\ ~RegimeAllows(v)
  /\ UNCHANGED vars

TickWithoutEntry(edge, speed, v) ==
  /\ at = "loop" /\ inv = 0 /\ RegimeAllows(v)
  /\ \A d \in Direction : ~Enters(Params[ProfileAt(v)], d, TrendAt(edge, speed), v)
  /\ Observe(edge, speed) /\ SeeMids(v)
  /\ UNCHANGED <<mode, at, position, entry, time, booked>>

\* Mutant of OpenDecided: the entry clock starts in live mode too.
OpenDecidedStartsClock(d, v) ==
  /\ context' = [signal |-> d, profile |-> ProfileAt(v)]
  /\ clock' = 0 /\ trail' = NoTrail /\ sinceTrade' = 0
  /\ IF mode = "paper"
     THEN /\ inv' = MaxShares
          /\ side' = d /\ held' = 0 /\ opener' = ProfileAt(v)
          /\ UNCHANGED <<at, pending>>
     ELSE /\ pending' = TRUE /\ at' = "opening"
          /\ UNCHANGED position

\* What follows a BUY: the paper position, or a decision for the main loop.
OpenDecided(d, v) ==
  /\ context' = [signal |-> d, profile |-> ProfileAt(v)]
  /\ IF mode = "paper"
     THEN /\ inv' = MaxShares
          /\ side' = d /\ held' = 0 /\ opener' = ProfileAt(v)
          /\ clock' = 0 /\ trail' = NoTrail /\ sinceTrade' = 0
          /\ UNCHANGED <<at, pending>>
     ELSE /\ pending' = TRUE /\ at' = "opening"
          /\ UNCHANGED <<position, clock, trail, sinceTrade>>

TickOpens(edge, speed, v) ==
  /\ at = "loop" /\ inv = 0 /\ RegimeAllows(v)
  /\ \E d \in Direction :
       /\ Enters(Params[ProfileAt(v)], d, TrendAt(edge, speed), v)
       /\ OpenDecided(d, v)
  /\ Observe(edge, speed) /\ SeeMids(v)
  /\ UNCHANGED <<mode, sinceClose, left, behind, sinceSwitch, booked>>

---------------------------------------------------------------------------
(* Exits. *)

\* hold_sec is 0 while the clock is not set.
Held(v, tr) ==
  [side |-> side, hold |-> Greater(0, clock), gain |-> v.gain,
   move |-> IF clock = Unset THEN 0 ELSE v.move, peak |-> tr.peak, floor |-> tr.floor]

\* The edge of the slot is looked at before the trailing marks are moved.
Exits(c, t, v) == ShouldClose(c, Held(v, UpdateTrail(c, trail, v.gain)), t, v, left)

TickHolds(edge, speed, v) ==
  /\ at = "loop" /\ inv > 0
  /\ ~Exits(Params[ProfileAt(v)], TrendAt(edge, speed), v)
  /\ trail' = UpdateTrail(Params[ProfileAt(v)], trail, v.gain)
  /\ Observe(edge, speed)
  /\ UNCHANGED <<mode, at, position, clock, pending, context, mids, time, booked>>

\* Mutant of ResetTrailing: the marks of the last position stay.
KeepTrailing == UNCHANGED trail

ResetTrailing == trail' = NoTrail

\* Mutant of PerformanceKey: the active profile, whatever the entry's was.
ActiveKey(active) == active

\* _build_performance_key(): none without an entry's context.
PerformanceKey(active) ==
  IF context = NoContext \/ context.profile # "none" THEN context.profile ELSE active

\* A decision to close clears the engine's entry before the sale is confirmed.
TickCloses(edge, speed, v) ==
  /\ at = "loop" /\ inv > 0
  /\ Exits(Params[ProfileAt(v)], TrendAt(edge, speed), v)
  /\ clock' = Unset /\ context' = NoContext /\ ResetTrailing
  /\ mids' = NoMids /\ sinceClose' = 0
  /\ IF mode = "paper"
     THEN /\ inv' = 0 /\ side' = "none" /\ held' = Unset /\ opener' = "none"
          /\ booked' = <<opener, PerformanceKey(ProfileAt(v))>>
          /\ UNCHANGED at
     ELSE at' = "closing" /\ UNCHANGED <<position, booked>>
  /\ Observe(edge, speed)
  /\ UNCHANGED <<mode, pending, sinceTrade, left, behind, sinceSwitch>>

Tick == \E edge \in Edges, v \in Views : \E speed \in SpeedsTo(edge) :
  \/ TickSkipped(v)
  \/ TickWithoutEntry(edge, speed, v)
  \/ TickOpens(edge, speed, v)
  \/ TickHolds(edge, speed, v)
  \/ TickCloses(edge, speed, v)

---------------------------------------------------------------------------
(* What the main loop tells the engine in live mode. *)

\* apply_live_entry_after_fill(): the clock starts at the fill of a pending signal.
ApplyEntryAfterFill ==
  IF pending
  THEN clock' = 0 /\ sinceTrade' = 0 /\ pending' = FALSE /\ ResetTrailing /\ UNCHANGED context
  ELSE UNCHANGED <<clock, sinceTrade, pending, trail, context>>

Acquired(n, d) == inv' = n /\ side' = d /\ held' = 0 /\ opener' = context.profile

Bought(n) ==
  /\ at = "opening" /\ at' = "loop"
  /\ Acquired(n, context.signal) /\ ApplyEntryAfterFill
  /\ UNCHANGED <<mode, observed, sinceClose, left, behind, sinceSwitch, booked>>

\* rollback_live_open_signal()
NotBought ==
  /\ at = "opening" /\ at' = "loop"
  /\ IF pending
     THEN pending' = FALSE /\ clock' = Unset /\ context' = NoContext /\ ResetTrailing
     ELSE UNCHANGED entry
  /\ UNCHANGED <<mode, position, observed, time, booked>>

\* The session's risk limits, the skip cooldown and a fill that is still waiting on
\* the token drop the decision without telling the engine.
OpenDropped ==
  /\ at = "opening" /\ at' = "loop"
  /\ UNCHANGED <<mode, position, entry, observed, time, booked>>

\* _reconcile_live_inventory_maybe(): shares the session did not know of.
Adopted(n, d) ==
  /\ mode = "live" /\ at \in {"loop", "opening"} /\ inv = 0 /\ at' = "loop"
  /\ Acquired(n, d) /\ ApplyEntryAfterFill
  /\ UNCHANGED <<mode, observed, sinceClose, left, behind, sinceSwitch, booked>>

\* The sale is over: n shares remain, none of them when it failed (force-clear).
Sold(n) ==
  /\ at = "closing" /\ at' = "loop"
  /\ inv' = n
  /\ IF n = 0 THEN side' = "none" /\ held' = Unset /\ opener' = "none"
     ELSE UNCHANGED <<side, held, opener>>
  /\ UNCHANGED <<mode, entry, observed, time, booked>>

---------------------------------------------------------------------------
(* Time and markets. *)

Older(age, cap) == IF age = Unset THEN Unset ELSE Smaller(age + 1, cap)

Pass ==
  /\ clock' = Older(clock, AgeCap) /\ held' = Older(held, AgeCap)
  /\ memory' = [memory EXCEPT !.age = Older(memory.age, AgeCap)]
  /\ sinceSwitch' = Older(sinceSwitch, AgeCap)
  /\ sinceTrade' = Older(sinceTrade, Cooldown)
  /\ sinceClose' = Older(sinceClose, Reentry)
  /\ left' = IF left = 1 THEN Slot ELSE left - 1
  /\ behind' = (behind \/ left = 1)
  /\ UNCHANGED <<mode, at, inv, side, opener, pending, context, trail, mids, soft, booked>>

\* Mutant of ResetForNewMarket: the trend is remembered.
ResetKeepsTrend ==
  /\ mids' = NoMids /\ pending' = FALSE /\ sinceClose' = Unset
  /\ memory' = [memory EXCEPT !.edge = <<>>]

\* reset_for_new_market(): the cached trend state is left as it is.
ResetForNewMarket ==
  /\ mids' = NoMids /\ pending' = FALSE /\ sinceClose' = Unset
  /\ memory' = NoMemory

\* The main loop defers the switch while a position is open.
SwitchAllowed == at = "loop" /\ behind /\ inv = 0

MarketSwitch ==
  /\ SwitchAllowed /\ ResetForNewMarket
  /\ behind' = FALSE /\ sinceSwitch' = 0
  /\ UNCHANGED <<mode, at, position, clock, context, trail, soft, sinceTrade, left, booked>>

---------------------------------------------------------------------------

Init ==
  /\ mode \in {"paper", "live"} /\ at = "loop"
  /\ inv = 0 /\ side = "none" /\ held = Unset /\ opener = "none"
  /\ clock = Unset /\ pending = FALSE /\ context = NoContext /\ trail = NoTrail
  /\ memory = NoMemory /\ mids = NoMids /\ soft = FALSE
  /\ sinceTrade = Cooldown /\ sinceClose = Unset /\ sinceSwitch = 0
  /\ left \in 1 .. Slot /\ behind = FALSE /\ booked = <<"none", "none">>

Answer ==
  \/ \E n \in 1 .. MaxShares : Bought(n)
  \/ NotBought \/ OpenDropped
  \/ \E n \in 0 .. inv - 1 : Sold(n)

Adopt == \E n \in 1 .. MaxShares, d \in Direction : Adopted(n, d)

Next == Tick \/ Answer \/ Adopt \/ Pass \/ MarketSwitch

Spec == Init /\ [][Next]_vars

\* The loop ticks, and its ticks fall again and again into the seconds at the end of
\* a slot in which positions are closed; the exchange answers or the await times out.
Fairness ==
  /\ WF_vars(Answer) /\ WF_vars(Pass)
  /\ SF_vars(inv > 0 /\ left <= Params["latency"].forceLast /\ at = "loop" /\ Tick)

FairSpec == Spec /\ Fairness

---------------------------------------------------------------------------
(* Properties. *)

Clocks == Unset .. AgeCap
Quotes == {<<>>} \cup {<<v.upMid>> : v \in Views} \cup {<<v.downMid>> : v \in Views}

\* Type invariant.
TypeOK ==
  /\ mode \in {"paper", "live"} /\ at \in {"loop", "opening", "closing"}
  /\ inv \in 0 .. MaxShares /\ side \in Sides
  /\ {clock, held, sinceSwitch} \subseteq Clocks
  /\ sinceTrade \in 0 .. Cooldown /\ sinceClose \in Unset .. Reentry
  /\ pending \in BOOLEAN /\ soft \in BOOLEAN /\ behind \in BOOLEAN
  /\ context \in [signal : Sides, profile : Profiles \cup {"none"}]
  /\ trail \in [peak : Nat, floor : Nat \cup {NoFloor}]
  /\ memory \in [edge : {<<>>} \cup {<<e>> : e \in Edges}, sign : -1 .. 1,
                 dir : Trend, age : Clocks, depth : Nat]
  /\ mids \in [UP : Quotes, DOWN : Quotes]
  /\ left \in 1 .. Slot
  /\ opener \in Profiles \cup {"none"}
  /\ booked \in (Profiles \cup {"none"}) \X (Profiles \cup {"none"})

\* The entry clock, when it runs, measures the position that is held: it was started
\* when these shares were acquired and not at the decision, nor for shares sold since
\* (apply_live_entry_after_fill: without it entry_time would include order latency).
\* In paper mode it runs whenever a position is held.
ClockMeasuresThePosition ==
  /\ clock # Unset => inv > 0 /\ clock = held
  /\ mode = "paper" /\ inv > 0 => clock = held

\* No position starts with the trailing marks of another one.
TrailingIsThisPositions ==
  /\ inv = 0 => trail = NoTrail
  /\ trail.floor # NoFloor => trail.peak >= Params["latency"].breakeven

\* A live signal waits for its fill only while nothing is held and no clock runs, so
\* the shares a fill brings are the first.
PendingIsFlat ==
  pending => mode = "live" /\ inv = 0 /\ clock = Unset /\ context # NoContext

\* The trend is one of this market, and its direction is that of the edge: it has
\* not lasted longer than the market has been traded.
TrendIsThisMarkets ==
  /\ memory.age <= sinceSwitch
  /\ memory.dir # "FLAT" => /\ memory.sign = SignOf(memory.dir) /\ memory.age # Unset
                            /\ memory.edge # <<>> /\ Sign(memory.edge[1]) = memory.sign

\* A position is of the market the engine trades: the market has not been switched
\* since it was acquired.
PositionIsThisMarkets == held <= sinceSwitch

\* A paper close is booked under the profile that opened the position, whatever
\* profile is active when it closes; and the context says so while it is held.
BookedUnderOpener ==
  /\ booked[1] = booked[2]
  /\ mode = "paper" /\ inv > 0 => context = [signal |-> side, profile |-> opener]

\* The marks of a position only rise while it is held, whatever profile is active:
\* a stop once armed is never loosened until the decision to close.
StopOnlyRises ==
  [][inv > 0 /\ inv' > 0 /\ at' = "loop" =>
       trail'.peak >= trail.peak /\ trail'.floor >= trail.floor]_vars

\* Whatever the market does, a position is closed in the end, at the latest by the
\* forced close at the end of a slot; and a sale that fills in part does not stop it.
PositionCloses == inv > 0 ~> inv = 0

=============================================================================
