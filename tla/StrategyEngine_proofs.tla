------------------------- MODULE StrategyEngine_proofs -------------------------
(***************************************************************************)
(* Proofs about StrategyEngine and the operators of EntryGates: the type   *)
(* invariant, what the engine remembers belongs to the position and the    *)
(* market at hand, and what the entry rules, the trailing marks, the sizes *)
(* and the choice of a profile guarantee for every value of the            *)
(* parameters.                                                             *)
(*                                                                         *)
(* The invariants are proved together, as Memorized: each of them needs    *)
(* to know in which phase of an order (at) the others hold.                *)
(***************************************************************************)
EXTENDS StrategyEngine, TLAPS

---------------------------------------------------------------------------
(* The operators. *)

\* The larger and the smaller of two numbers.
LEMMA GreaterSmaller ==
  ASSUME NEW a \in Int, NEW b \in Int
  PROVE  /\ Greater(a, b) \in Int /\ Greater(a, b) >= a /\ Greater(a, b) >= b
         /\ Greater(a, b) \in {a, b}
         /\ Smaller(a, b) \in Int /\ Smaller(a, b) <= a /\ Smaller(a, b) <= b
         /\ Smaller(a, b) \in {a, b}
  BY DEF Greater, Smaller

\* Ages stay ages, keep their order, and an unset one stays unset.
LEMMA OlderKeeps ==
  ASSUME NEW cap \in Nat, NEW a \in Unset .. cap, NEW b \in Unset .. cap
  PROVE  /\ Older(a, cap) \in Unset .. cap
         /\ a = Unset <=> Older(a, cap) = Unset
         /\ a <= b => Older(a, cap) <= Older(b, cap)
  BY DEF Older, Smaller, Unset

Memory == [edge : {<<>>} \cup {<<e>> : e \in Edges}, sign : -1 .. 1,
           dir : Trend, age : Clocks, depth : Nat]

\* A trend with a direction has begun and runs with the last edge.
Directed(m) ==
  m.dir # "FLAT" => /\ m.sign = SignOf(m.dir) /\ m.age # Unset
                    /\ m.edge # <<>> /\ Sign(m.edge[1]) = m.sign

\* update_trend() keeps the direction that of the last edge and restarts the age or
\* leaves it.
LEMMA UpdateTrendSound ==
  ASSUME NEW m \in Memory, NEW edge \in Edges, Directed(m)
  PROVE  /\ UpdateTrend(m, edge) \in Memory
         /\ Directed(UpdateTrend(m, edge))
         /\ UpdateTrend(m, edge).age \in {0, m.age}
<1> DEFINE s == Sign(edge)
           crossed == s # 0 /\ m.sign # 0 /\ s # m.sign
           started == s # 0 /\ m.age = Unset
           n == UpdateTrend(m, edge)
<1>1. edge \in Int /\ AgeCap \in Nat /\ AgeCap >= 1
  BY ConstantsAssumption
<1>2. s \in -1 .. 1
  BY <1>1 DEF Sign
<1>3. Abs(edge) \in Nat
  BY <1>1 DEF Abs
<1>4. DepthAfter(crossed, m.depth, edge) \in Nat
  BY <1>3 DEF DepthAfter, Memory, Greater
<1>5. n = [edge |-> <<edge>>, sign |-> IF s = 0 THEN m.sign ELSE s,
           dir |-> IF s = 0 THEN "FLAT" ELSE IF crossed \/ started THEN DirOf(s) ELSE m.dir,
           age |-> IF crossed \/ started THEN 0 ELSE m.age,
           depth |-> DepthAfter(crossed, m.depth, edge)]
  BY DEF UpdateTrend
<1>6. DirOf(s) \in Direction /\ (s # 0 => SignOf(DirOf(s)) = s)
  BY <1>2 DEF DirOf, SignOf, Direction
<1>7. n.age \in {0, m.age} /\ n.age \in Clocks
  BY <1>1, <1>5 DEF Clocks, Memory, Unset
<1>8. n \in Memory
  <2> HIDE DEF s, crossed, started, n
  <2>1. n.edge = <<edge>> /\ <<edge>> \in {<<e>> : e \in Edges}
    BY <1>5
  <2>2. n.sign \in -1 .. 1
    BY <1>2, <1>5 DEF Memory
  <2>3. n.dir \in Trend
    BY <1>5, <1>6 DEF Memory, Trend
  <2> QED BY <2>1, <2>2, <2>3, <1>4, <1>5, <1>7 DEF Memory
<1>9. Directed(n)
  <2>1. SUFFICES ASSUME n.dir # "FLAT"
                 PROVE  n.sign = SignOf(n.dir) /\ n.age # Unset /\ n.edge # <<>>
                        /\ Sign(n.edge[1]) = n.sign
    BY DEF Directed
  <2>2. s # 0 /\ n.sign = s /\ n.edge = <<edge>> /\ Sign(n.edge[1]) = s
    BY <2>1, <1>5
  <2>3. CASE crossed \/ started
    BY <2>2, <2>3, <1>5, <1>6 DEF Unset
  <2>4. CASE ~(crossed \/ started)
    <3>1. n.dir = m.dir /\ n.age = m.age /\ m.dir # "FLAT"
      BY <2>1, <2>2, <2>4, <1>5
    <3>2. m.sign = SignOf(m.dir) /\ m.age # Unset /\ m.sign # 0
      BY <3>1 DEF Directed, SignOf
    <3>3. s = m.sign
      BY <2>2, <2>4, <3>2
    <3> QED BY <2>2, <3>1, <3>2, <3>3
  <2> QED BY <2>3, <2>4
<1> QED BY <1>7, <1>8, <1>9

\* The steps of a floor, as far as the peak is above break-even.
LEMMA StepsAreNat ==
  ASSUME NEW a \in Nat, NEW b \in Nat \ {0}
  PROVE  a \div b \in Nat
  BY SMT

Trail == [peak : Nat, floor : Nat \cup {NoFloor}]

\* No floor is set below break-even.
Floored(tr) == tr.floor # NoFloor => tr.peak >= Params["latency"].breakeven

\* The peak and the floor only rise, and no floor is set below break-even.
LEMMA UpdateTrailSound ==
  ASSUME NEW tr \in Trail, NEW p \in Profiles, NEW v \in Views, Floored(tr)
  PROVE  LET u == UpdateTrail(Params[p], tr, v.gain)
         IN /\ u \in Trail /\ Floored(u)
            /\ u.peak >= tr.peak /\ u.floor >= tr.floor
<1> DEFINE c == Params[p]
           peak == Greater(tr.peak, v.gain)
           steps == IF c.trailStep > 0 THEN (peak - c.breakeven) \div c.trailStep ELSE 0
           u == UpdateTrail(c, tr, v.gain)
<1>1. /\ c.trailSl \in BOOLEAN /\ c.breakeven \in Nat /\ c.trailStep \in Nat
      /\ c.stepLock \in Nat /\ c.breakeven = Params["latency"].breakeven /\ v.gain \in Int
  BY DataAssumption
<1>2. peak \in Nat /\ peak >= tr.peak
  <2>1. tr.peak \in Nat /\ v.gain \in Int
    BY <1>1 DEF Trail
  <2> QED BY <2>1 DEF Greater
<1>3. u = [peak |-> peak,
           floor |-> IF c.trailSl /\ peak >= c.breakeven
                     THEN Greater(tr.floor, steps * c.trailStep * c.stepLock)
                     ELSE tr.floor]
  BY DEF UpdateTrail
<1> HIDE DEF c, peak, u
<1>4. tr.floor \in Int /\ tr.floor >= -1
  BY DEF Trail, NoFloor
<1>5. CASE c.trailSl /\ peak >= c.breakeven
  <2>1. steps \in Nat
    BY <1>1, <1>2, <1>5, StepsAreNat
  <2> HIDE DEF steps
  <2>2. steps * c.trailStep \in Nat
    BY <1>1, <2>1
  <2>3. steps * c.trailStep * c.stepLock \in Nat
    BY <1>1, <2>2
  <2>4. \A n \in Nat : Greater(tr.floor, n) \in Nat /\ Greater(tr.floor, n) >= tr.floor
    BY <1>4 DEF Greater
  <2>5. u.floor = Greater(tr.floor, steps * c.trailStep * c.stepLock)
    BY <1>3, <1>5
  <2>6. u.floor \in Nat /\ u.floor >= tr.floor
    BY <2>3, <2>4, <2>5, Zenon
  <2> QED BY <1>1, <1>2, <1>3, <1>5, <2>6 DEF Trail, Floored, u, c
<1>6. CASE ~(c.trailSl /\ peak >= c.breakeven)
  <2>1. u = [peak |-> peak, floor |-> tr.floor]
    BY <1>3, <1>6
  <2>2. Floored(u)
    BY <1>1, <1>2, <2>1, DataAssumption DEF Floored, Trail, Profiles
  <2> QED BY <1>2, <1>4, <2>1, <2>2 DEF Trail, u, c
<1> QED BY <1>5, <1>6

---------------------------------------------------------------------------
(* The inductive invariant, in three parts that change apart. *)

\* What is remembered of the market.
Remembered ==
  /\ memory \in Memory /\ Directed(memory)
  /\ sinceSwitch \in 0 .. AgeCap /\ memory.age <= sinceSwitch
  /\ mids \in [UP : Quotes, DOWN : Quotes] /\ soft \in BOOLEAN

\* The clocks of the session.
Timed ==
  /\ sinceTrade \in 0 .. Cooldown /\ sinceClose \in Unset .. Reentry
  /\ left \in 1 .. Slot /\ behind \in BOOLEAN

\* What the phase of an order says of the position and of its entry.
Phased ==
  /\ mode = "paper" => at = "loop"
  /\ at = "opening" => inv = 0 /\ pending
  /\ at = "closing" => clock = Unset /\ trail = NoTrail /\ inv > 0
  /\ pending => mode = "live" /\ inv = 0 /\ clock = Unset /\ context # NoContext
  /\ inv = 0 => clock = Unset /\ held = Unset /\ trail = NoTrail
  /\ clock # Unset => clock = held
  /\ mode = "paper" /\ inv > 0 =>
       /\ clock = held /\ opener \in Profiles
       /\ context = [signal |-> side, profile |-> opener]
  /\ booked[1] = booked[2]

\* The position and its entry.
PositionTyped ==
  /\ mode \in {"paper", "live"} /\ at \in {"loop", "opening", "closing"}
  /\ inv \in 0 .. MaxShares /\ side \in Sides
  /\ clock \in Clocks /\ held \in Clocks /\ pending \in BOOLEAN
  /\ context \in [signal : Sides, profile : Profiles \cup {"none"}]
  /\ trail \in Trail /\ Floored(trail)
  /\ opener \in Profiles \cup {"none"}
  /\ booked \in (Profiles \cup {"none"}) \X (Profiles \cup {"none"})

Memorized ==
  /\ Remembered /\ Timed /\ PositionTyped /\ Phased
  /\ held <= sinceSwitch

---------------------------------------------------------------------------
(* What is remembered. *)

LEMMA NumbersOK ==
  /\ AgeCap \in Nat /\ AgeCap >= 1 /\ Cooldown \in Nat /\ Reentry \in Nat
  /\ Slot \in Nat /\ Slot >= 1 /\ MaxShares \in Nat /\ MaxShares >= 1
  BY ConstantsAssumption

\* Watching the market keeps what is remembered sound.
LEMMA ObserveKeeps ==
  ASSUME Remembered, NEW edge \in Edges, NEW speed, Observe(edge, speed),
         sinceSwitch' = sinceSwitch,
         mids' \in [UP : Quotes, DOWN : Quotes]
  PROVE  Remembered'
<1>1. memory' \in Memory /\ Directed(memory') /\ memory'.age \in {0, memory.age}
  BY UpdateTrendSound DEF Observe, Remembered
<1>2. memory'.age <= sinceSwitch
  BY <1>1, NumbersOK DEF Remembered
<1>3. soft' \in BOOLEAN
  BY DEF Observe, SoftTrend
<1>4. Directed(memory)'
  BY <1>1 DEF Directed
<1> QED BY <1>1, <1>2, <1>3, <1>4 DEF Remembered

\* The mids of a tick are quotes of a view.
LEMMA SeeMidsKeeps ==
  ASSUME Remembered, NEW v \in Views, SeeMids(v)
  PROVE  mids' \in [UP : Quotes, DOWN : Quotes]
  BY DEF Remembered, SeeMids, NextMid, Quotes

---------------------------------------------------------------------------
(* The ticks. *)

\* A tick that opens nothing leaves the position and its entry alone.
LEMMA TickWithoutEntryKeeps ==
  ASSUME Memorized, NEW edge \in Edges, NEW speed, NEW v \in Views,
         TickWithoutEntry(edge, speed, v)
  PROVE  Memorized'
<1>1. Remembered'
  BY ObserveKeeps, SeeMidsKeeps DEF Memorized, TickWithoutEntry, time
<1>2. Timed' /\ PositionTyped' /\ Phased' /\ (held <= sinceSwitch)'
  BY DEF Memorized, TickWithoutEntry, time, position, entry, Timed, PositionTyped, Phased,
         Floored
<1> QED BY <1>1, <1>2 DEF Memorized

\* An open decision: in paper mode the clock, the marks and the context are those of
\* the new position, in live mode only the context is set.
LEMMA TickOpensKeeps ==
  ASSUME Memorized, NEW edge \in Edges, NEW speed, NEW v \in Views,
         TickOpens(edge, speed, v)
  PROVE  Memorized'
<1>1. Remembered'
  BY ObserveKeeps, SeeMidsKeeps DEF Memorized, TickOpens
<1>2. PICK d \in Direction : OpenDecided(d, v)
  BY DEF TickOpens
<1>3. ProfileAt(v) \in Profiles
  BY DEF ProfileAt, Profiles
<1>4. context' = [signal |-> d, profile |-> ProfileAt(v)] /\ d \in Sides
      /\ context' \in [signal : Sides, profile : Profiles \cup {"none"}]
      /\ context' # NoContext
  BY <1>2, <1>3 DEF OpenDecided, Sides, Direction, NoContext
<1>5. NoTrail \in Trail /\ Floored(NoTrail)
  BY DEF NoTrail, NoFloor, Trail, Floored
<1>6. /\ at = "loop" /\ inv = 0 /\ mode' = mode /\ sinceClose' = sinceClose /\ left' = left
      /\ behind' = behind /\ sinceSwitch' = sinceSwitch /\ booked' = booked
  BY DEF TickOpens
<1>7. CASE mode = "paper"
  <2>1. /\ inv' = MaxShares /\ side' = d /\ held' = 0 /\ opener' = ProfileAt(v)
        /\ clock' = 0 /\ trail' = NoTrail /\ sinceTrade' = 0 /\ at' = at
        /\ pending' = pending
    BY <1>2, <1>7 DEF OpenDecided
  <2>2. PositionTyped'
    BY <2>1, <1>3, <1>4, <1>5, <1>6, NumbersOK DEF Memorized, PositionTyped, Clocks, Unset,
       Floored
  <2>3. Phased'
    BY <2>1, <1>3, <1>4, <1>6, <1>7, NumbersOK DEF Memorized, Phased, PositionTyped, Unset
  <2> QED BY <2>1, <2>2, <2>3, <1>1, <1>6, NumbersOK DEF Memorized, Timed, Remembered
<1>8. CASE mode = "live"
  <2>1. /\ pending' = TRUE /\ at' = "opening" /\ inv' = inv /\ side' = side /\ held' = held
        /\ opener' = opener /\ clock' = clock /\ trail' = trail
        /\ sinceTrade' = sinceTrade
    BY <1>2, <1>8 DEF OpenDecided, position
  <2>2. PositionTyped'
    BY <2>1, <1>4, <1>6 DEF Memorized, PositionTyped, Floored
  <2>3. Phased'
    BY <2>1, <1>4, <1>6, <1>8 DEF Memorized, Phased
  <2> QED BY <2>1, <2>2, <2>3, <1>1, <1>6 DEF Memorized, Timed
<1> QED BY <1>7, <1>8 DEF Memorized, PositionTyped

\* A tick that closes nothing moves the trailing marks.
LEMMA TickHoldsKeeps ==
  ASSUME Memorized, NEW edge \in Edges, NEW speed, NEW v \in Views,
         TickHolds(edge, speed, v)
  PROVE  Memorized'
<1>1. Remembered'
  BY ObserveKeeps DEF Memorized, TickHolds, Remembered, time
<1>2. ProfileAt(v) \in Profiles
  BY DEF ProfileAt, Profiles
<1>3. trail' \in Trail /\ Floored(trail')
  BY <1>2, UpdateTrailSound DEF TickHolds, Memorized, PositionTyped
<1>4. PositionTyped'
  BY <1>3 DEF TickHolds, Memorized, PositionTyped, position, Floored
<1>5. Phased'
  BY DEF TickHolds, Memorized, Phased, position
<1>6. Timed' /\ (held <= sinceSwitch)'
  BY DEF TickHolds, Memorized, Timed, position, time
<1> QED BY <1>1, <1>4, <1>5, <1>6 DEF Memorized

\* A close decision clears the entry; in paper mode it books under the opener.
LEMMA TickClosesKeeps ==
  ASSUME Memorized, NEW edge \in Edges, NEW speed, NEW v \in Views,
         TickCloses(edge, speed, v)
  PROVE  Memorized'
<1>1. Remembered'
  <2>1. mids' \in [UP : Quotes, DOWN : Quotes]
    BY DEF TickCloses, NoMids, Quotes
  <2> QED BY <2>1, ObserveKeeps DEF Memorized, TickCloses
<1>2. /\ at = "loop" /\ inv > 0 /\ mode' = mode /\ pending' = pending
      /\ sinceTrade' = sinceTrade /\ left' = left /\ behind' = behind
      /\ sinceSwitch' = sinceSwitch /\ clock' = Unset /\ context' = NoContext
      /\ trail' = NoTrail /\ sinceClose' = 0
  BY DEF TickCloses, ResetTrailing
<1>3. NoTrail \in Trail /\ Floored(trail')
      /\ NoContext \in [signal : Sides, profile : Profiles \cup {"none"}]
  BY <1>2 DEF NoTrail, NoFloor, Trail, Floored, NoContext, Sides
<1>4. ~pending
  BY <1>2 DEF Memorized, Phased
<1>5. CASE mode = "paper"
  <2>1. /\ inv' = 0 /\ side' = "none" /\ held' = Unset /\ opener' = "none" /\ at' = at
        /\ booked' = <<opener, PerformanceKey(ProfileAt(v))>>
    BY <1>5 DEF TickCloses
  <2>2. opener \in Profiles /\ context = [signal |-> side, profile |-> opener]
    BY <1>2, <1>5 DEF Memorized, Phased
  <2>3. PerformanceKey(ProfileAt(v)) = opener
    BY <2>2 DEF PerformanceKey, NoContext, Profiles
  <2>4. PositionTyped'
    BY <2>1, <2>2, <2>3, <1>2, <1>3, NumbersOK
       DEF Memorized, PositionTyped, Clocks, Unset, Sides, Floored
  <2>5. Phased'
    BY <2>1, <2>3, <1>2, <1>4, <1>5 DEF Phased
  <2>6. Timed' /\ (held <= sinceSwitch)'
    BY <2>1, <1>2, NumbersOK DEF Memorized, Timed, Remembered, Unset
  <2> QED BY <1>1, <2>4, <2>5, <2>6 DEF Memorized
<1>6. CASE mode = "live"
  <2>1. /\ inv' = inv /\ side' = side /\ held' = held /\ opener' = opener
        /\ at' = "closing" /\ booked' = booked
    BY <1>6 DEF TickCloses, position
  <2>2. PositionTyped'
    BY <2>1, <1>2, <1>3, NumbersOK DEF Memorized, PositionTyped, Clocks, Unset, Floored
  <2>3. Phased'
    BY <2>1, <1>2, <1>4, <1>6 DEF Memorized, Phased
  <2>4. Timed' /\ (held <= sinceSwitch)'
    BY <2>1, <1>2, NumbersOK DEF Memorized, Timed, Unset
  <2> QED BY <1>1, <2>2, <2>3, <2>4 DEF Memorized
<1> QED BY <1>5, <1>6 DEF Memorized, PositionTyped

---------------------------------------------------------------------------
(* The answers of the exchange. *)

\* A live fill, or the adoption of shares, with the entry's context untouched: only
\* a pending signal starts the clock.
LEMMA AcquiredKeeps ==
  ASSUME Memorized, NEW n \in 1 .. MaxShares, NEW d \in Sides,
         mode = "live", inv = 0, mode' = mode, at' = "loop",
         Acquired(n, d), ApplyEntryAfterFill, booked' = booked,
         UNCHANGED observed, sinceClose' = sinceClose, left' = left, behind' = behind,
         sinceSwitch' = sinceSwitch
  PROVE  Memorized'
<1>1. Remembered'
  BY DEF Memorized, Remembered, observed, Directed
<1>2. inv' = n /\ side' = d /\ held' = 0 /\ opener' = context.profile /\ n > 0
  BY NumbersOK DEF Acquired
<1>3. clock = Unset /\ trail = NoTrail /\ NoTrail \in Trail /\ Floored(NoTrail)
  BY DEF Memorized, Phased, NoTrail, NoFloor, Trail, Floored
<1>4. /\ clock' \in {0, Unset} /\ sinceTrade' \in {0, sinceTrade} /\ pending' = FALSE
      /\ trail' = NoTrail /\ context' = context
  BY <1>3 DEF ApplyEntryAfterFill, ResetTrailing, Memorized, PositionTyped
<1>5. PositionTyped'
  <2>1. opener' \in Profiles \cup {"none"}
    BY <1>2 DEF Memorized, PositionTyped
  <2>2. held' \in Clocks /\ clock' \in Clocks /\ inv' \in 0 .. MaxShares
    BY <1>2, <1>4, NumbersOK DEF Clocks, Unset
  <2> QED BY <2>1, <2>2, <1>2, <1>3, <1>4 DEF Memorized, PositionTyped, Floored
<1>6. Phased'
  BY <1>2, <1>4 DEF Memorized, Phased, Unset
<1>7. Timed' /\ (held <= sinceSwitch)'
  BY <1>2, <1>4, NumbersOK DEF Memorized, Timed, Remembered
<1> QED BY <1>1, <1>5, <1>6, <1>7 DEF Memorized

LEMMA BoughtKeeps ==
  ASSUME Memorized, NEW n \in 1 .. MaxShares, Bought(n)
  PROVE  Memorized'
<1>1. mode = "live" /\ inv = 0 /\ context.signal \in Sides
  BY DEF Memorized, Phased, PositionTyped, Bought
<1>2. /\ mode' = mode /\ at' = "loop" /\ Acquired(n, context.signal)
      /\ ApplyEntryAfterFill /\ booked' = booked /\ UNCHANGED observed
      /\ sinceClose' = sinceClose /\ left' = left /\ behind' = behind
      /\ sinceSwitch' = sinceSwitch
  BY DEF Bought
<1> QED BY <1>1, <1>2, AcquiredKeeps

LEMMA AdoptedKeeps ==
  ASSUME Memorized, NEW n \in 1 .. MaxShares, NEW d \in Direction, Adopted(n, d)
  PROVE  Memorized'
<1>1. d \in Sides
  BY DEF Sides
<1>2. /\ mode = "live" /\ inv = 0 /\ mode' = mode /\ at' = "loop" /\ Acquired(n, d)
      /\ ApplyEntryAfterFill /\ booked' = booked /\ UNCHANGED observed
      /\ sinceClose' = sinceClose /\ left' = left /\ behind' = behind
      /\ sinceSwitch' = sinceSwitch
  BY DEF Adopted
<1> QED BY <1>1, <1>2, AcquiredKeeps

LEMMA NotBoughtKeeps ==
  ASSUME Memorized, NotBought
  PROVE  Memorized'
<1>1. Remembered' /\ Timed' /\ (held <= sinceSwitch)'
  BY DEF Memorized, NotBought, Remembered, Timed, observed, time, position, Directed
<1>2. inv = 0 /\ pending /\ mode = "live" /\ clock = Unset /\ trail = NoTrail
  BY DEF Memorized, NotBought, Phased
<1>3. /\ at' = "loop" /\ pending' = FALSE /\ clock' = Unset /\ context' = NoContext
      /\ trail' = NoTrail /\ mode' = mode /\ inv' = inv /\ side' = side /\ held' = held
      /\ opener' = opener /\ booked' = booked
  BY <1>2 DEF NotBought, ResetTrailing, position
<1>4. NoContext \in [signal : Sides, profile : Profiles \cup {"none"}]
  BY DEF NoContext, Sides
<1>5. PositionTyped'
  BY <1>2, <1>3, <1>4 DEF Memorized, PositionTyped, Floored
<1>6. Phased'
  BY <1>2, <1>3 DEF Memorized, Phased
<1> QED BY <1>1, <1>5, <1>6 DEF Memorized

LEMMA OpenDroppedKeeps ==
  ASSUME Memorized, OpenDropped
  PROVE  Memorized'
  BY DEF Memorized, OpenDropped, Remembered, Timed, PositionTyped, Phased, observed, time,
     position, entry, Floored, Directed

LEMMA SoldKeeps ==
  ASSUME Memorized, NEW n \in 0 .. inv - 1, Sold(n)
  PROVE  Memorized'
<1>1. Remembered' /\ Timed'
  BY DEF Memorized, Sold, Remembered, Timed, observed, time, Directed
<1>2. /\ inv > 0 /\ clock = Unset /\ trail = NoTrail /\ ~pending /\ mode = "live"
      /\ inv \in 0 .. MaxShares
  BY DEF Memorized, Phased, PositionTyped, Sold
<1>3. /\ at' = "loop" /\ inv' = n /\ mode' = mode /\ clock' = clock /\ pending' = pending
      /\ context' = context /\ trail' = trail /\ booked' = booked
      /\ sinceSwitch' = sinceSwitch
  BY DEF Sold, entry, time
<1>4. n = 0 => side' = "none" /\ held' = Unset /\ opener' = "none"
  BY DEF Sold
<1>5. n # 0 => side' = side /\ held' = held /\ opener' = opener
  BY DEF Sold
<1>6. PositionTyped'
  BY <1>2, <1>3, <1>4, <1>5, NumbersOK
     DEF Memorized, PositionTyped, Clocks, Unset, Sides, Floored
<1>7. Phased'
  BY <1>2, <1>3, <1>4, <1>5 DEF Memorized, Phased, Unset
<1>8. (held <= sinceSwitch)'
  BY <1>3, <1>4, <1>5, NumbersOK DEF Memorized, Remembered, Unset
<1> QED BY <1>1, <1>6, <1>7, <1>8 DEF Memorized

---------------------------------------------------------------------------
(* Time and markets. *)

LEMMA PassKeeps ==
  ASSUME Memorized, Pass
  PROVE  Memorized'
<1>1. memory' = [memory EXCEPT !.age = Older(memory.age, AgeCap)]
      /\ memory.age \in Unset .. AgeCap /\ sinceSwitch \in Unset .. AgeCap
      /\ sinceSwitch' = Older(sinceSwitch, AgeCap) /\ held' = Older(held, AgeCap)
      /\ clock' = Older(clock, AgeCap)
      /\ held \in Unset .. AgeCap /\ clock \in Unset .. AgeCap
  BY NumbersOK DEF Memorized, Remembered, PositionTyped, Memory, Clocks, Pass, Unset
<1>2. /\ memory'.age \in Unset .. AgeCap /\ memory'.age <= sinceSwitch'
      /\ (memory.age = Unset <=> memory'.age = Unset)
      /\ memory'.edge = memory.edge /\ memory'.sign = memory.sign
      /\ memory'.dir = memory.dir /\ memory'.depth = memory.depth
  <2>1. memory'.age = Older(memory.age, AgeCap)
        /\ memory'.edge = memory.edge /\ memory'.sign = memory.sign
        /\ memory'.dir = memory.dir /\ memory'.depth = memory.depth
    BY <1>1 DEF Memorized, Remembered, Memory
  <2> QED BY <2>1, <1>1, OlderKeeps, NumbersOK DEF Memorized, Remembered
<1>3. memory' \in Memory
  BY <1>1, <1>2 DEF Memorized, Remembered, Memory, Clocks
<1>4. Directed(memory)'
  BY <1>2 DEF Memorized, Remembered, Directed
<1>5. sinceSwitch' \in 0 .. AgeCap
  BY <1>1, NumbersOK DEF Memorized, Remembered, Older, Smaller, Unset
<1>6. Remembered'
  BY <1>2, <1>3, <1>4, <1>5 DEF Memorized, Remembered, Pass
<1>7. sinceTrade' \in 0 .. Cooldown /\ sinceClose' \in Unset .. Reentry
  BY NumbersOK DEF Memorized, Timed, Pass, Older, Smaller, Unset
<1>8. left' \in 1 .. Slot /\ behind' \in BOOLEAN
  BY NumbersOK DEF Memorized, Timed, Pass
<1>9. /\ clock' \in Clocks /\ held' \in Clocks
      /\ (clock = Unset <=> clock' = Unset) /\ (held = Unset <=> held' = Unset)
      /\ (clock = held => clock' = held')
  BY <1>1, OlderKeeps, NumbersOK DEF Clocks
<1>10. /\ mode' = mode /\ at' = at /\ inv' = inv /\ side' = side /\ opener' = opener
       /\ pending' = pending /\ context' = context /\ trail' = trail /\ booked' = booked
  BY DEF Pass
<1>11. PositionTyped'
  BY <1>9, <1>10 DEF Memorized, PositionTyped, Floored
<1>12. Phased'
  BY <1>9, <1>10 DEF Memorized, Phased
<1>13. (held <= sinceSwitch)'
  BY <1>1, OlderKeeps, NumbersOK DEF Memorized
<1> QED BY <1>6, <1>7, <1>8, <1>11, <1>12, <1>13 DEF Memorized, Timed

LEMMA MarketSwitchKeeps ==
  ASSUME Memorized, MarketSwitch
  PROVE  Memorized'
<1>1. inv = 0 /\ held = Unset
  BY DEF MarketSwitch, SwitchAllowed, Memorized, Phased
<1>2. /\ mids' = NoMids /\ pending' = FALSE /\ sinceClose' = Unset /\ memory' = NoMemory
      /\ behind' = FALSE /\ sinceSwitch' = 0 /\ mode' = mode /\ at' = at /\ inv' = inv
      /\ side' = side /\ held' = held /\ opener' = opener /\ clock' = clock
      /\ context' = context /\ trail' = trail /\ soft' = soft /\ booked' = booked
      /\ sinceTrade' = sinceTrade /\ left' = left
  BY DEF MarketSwitch, ResetForNewMarket, position
<1>3. NoMemory \in Memory /\ Directed(NoMemory) /\ NoMemory.age <= 0
  BY NumbersOK DEF NoMemory, Memory, Directed, Clocks, Unset, Trend
<1>4. NoMids \in [UP : Quotes, DOWN : Quotes]
  BY DEF NoMids, Quotes
<1>5. Remembered'
  BY <1>2, <1>3, <1>4, NumbersOK DEF Memorized, Remembered
<1>6. Timed' /\ (held <= sinceSwitch)'
  <2>1. Unset \in Unset .. Reentry
    BY NumbersOK DEF Unset
  <2>2. held' <= sinceSwitch'
    BY <1>1, <1>2 DEF Unset
  <2> QED BY <2>1, <2>2, <1>2 DEF Memorized, Timed
<1>7. PositionTyped'
  BY <1>2 DEF Memorized, PositionTyped, Floored
<1>8. Phased'
  BY <1>2 DEF Memorized, Phased, MarketSwitch, SwitchAllowed
<1> QED BY <1>5, <1>6, <1>7, <1>8 DEF Memorized

---------------------------------------------------------------------------
(* The theorems. *)

\* The invariant holds at the start.
LEMMA InitMemorized == Init => Memorized
<1> SUFFICES ASSUME Init PROVE Memorized
  OBVIOUS
<1>1. NoMemory \in Memory /\ Directed(NoMemory) /\ NoMemory.age <= 0
  BY NumbersOK DEF NoMemory, Memory, Directed, Clocks, Unset, Trend
<1>2. NoMids \in [UP : Quotes, DOWN : Quotes]
  BY DEF NoMids, Quotes
<1>3. NoTrail \in Trail /\ Floored(NoTrail)
      /\ NoContext \in [signal : Sides, profile : Profiles \cup {"none"}]
  BY DEF NoTrail, NoFloor, Trail, Floored, NoContext, Sides
<1>4. /\ 0 \in 0 .. AgeCap /\ Cooldown \in 0 .. Cooldown /\ Unset \in Unset .. Reentry
      /\ 0 \in 0 .. MaxShares /\ Unset \in Clocks /\ "none" \in Sides
      /\ "none" \in Profiles \cup {"none"}
  BY NumbersOK DEF Unset, Clocks, Sides
<1>5. Remembered
  BY <1>1, <1>2, <1>4 DEF Init, Remembered
<1>6. Timed
  BY <1>4 DEF Init, Timed
<1>7. PositionTyped
  <2>1. booked \in (Profiles \cup {"none"}) \X (Profiles \cup {"none"})
    BY <1>4 DEF Init
  <2> QED BY <2>1, <1>3, <1>4 DEF Init, PositionTyped
<1>8. Phased
  BY DEF Init, Phased
<1> QED BY <1>5, <1>6, <1>7, <1>8 DEF Memorized, Init, Unset

\* Every step of the engine, of the exchange's answers and of time keeps it.
LEMMA NextMemorized == Memorized /\ [Next]_vars => Memorized'
<1> SUFFICES ASSUME Memorized, [Next]_vars PROVE Memorized'
  OBVIOUS
<1>1. ASSUME NEW edge \in Edges, NEW v \in Views, NEW speed \in SpeedsTo(edge),
             \/ TickSkipped(v) \/ TickWithoutEntry(edge, speed, v)
             \/ TickOpens(edge, speed, v)
             \/ TickHolds(edge, speed, v) \/ TickCloses(edge, speed, v)
      PROVE  Memorized'
  <2>1. CASE TickSkipped(v)
    <3>1. UNCHANGED vars
      BY <2>1 DEF TickSkipped
    <3> QED BY <3>1 DEF vars, Memorized, Remembered, Timed, PositionTyped, Phased, observed,
               time, position, entry, Floored, Directed
  <2> QED BY <1>1, <2>1, TickWithoutEntryKeeps, TickOpensKeeps, TickHoldsKeeps,
             TickClosesKeeps
<1>2. CASE UNCHANGED vars
  BY <1>2 DEF vars, Memorized, Remembered, Timed, PositionTyped, Phased, observed,
     time, position, entry, Floored, Directed
<1>3. CASE Answer
  BY <1>3, BoughtKeeps, NotBoughtKeeps, OpenDroppedKeeps, SoldKeeps DEF Answer
<1>4. CASE Adopt
  BY <1>4, AdoptedKeeps DEF Adopt
<1>5. CASE Pass
  BY <1>5, PassKeeps
<1>6. CASE MarketSwitch
  BY <1>6, MarketSwitchKeeps
<1>7. CASE Tick
  BY <1>7, <1>1 DEF Tick
<1> QED BY <1>2, <1>3, <1>4, <1>5, <1>6, <1>7 DEF Next

LEMMA SpecMemorized == Spec => []Memorized
  BY InitMemorized, NextMemorized, PTL DEF Spec

\* Type correctness of the engine's state.
THEOREM TypeCorrect == Spec => []TypeOK
<1>1. Memorized => TypeOK
  BY NumbersOK DEF Memorized, Remembered, Timed, PositionTyped, TypeOK, Memory, Trail, Clocks,
     Unset
<1> QED BY <1>1, SpecMemorized, PTL

\* The entry clock, when it runs, is the age of the position held.
THEOREM ClockIsThePositions == Spec => []ClockMeasuresThePosition
<1>1. Memorized => ClockMeasuresThePosition
  BY DEF Memorized, PositionTyped, Phased, ClockMeasuresThePosition
<1> QED BY <1>1, SpecMemorized, PTL

\* The trailing marks are those of the position held, and no stop below break-even
\* is armed.
THEOREM TrailIsThePositions == Spec => []TrailingIsThisPositions
<1>1. Memorized => TrailingIsThisPositions
  BY DEF Memorized, PositionTyped, Phased, TrailingIsThisPositions, Floored
<1> QED BY <1>1, SpecMemorized, PTL

\* A signal waits for its fill only while nothing is held.
THEOREM PendingMeansFlat == Spec => []PendingIsFlat
<1>1. Memorized => PendingIsFlat
  BY DEF Memorized, Phased, PendingIsFlat
<1> QED BY <1>1, SpecMemorized, PTL

\* The trend is of the market traded and points where its last edge does.
THEOREM TrendIsTheMarkets == Spec => []TrendIsThisMarkets
<1>1. Memorized => TrendIsThisMarkets
  BY DEF Memorized, Remembered, TrendIsThisMarkets, Directed
<1> QED BY <1>1, SpecMemorized, PTL

\* The market is never switched under a position.
THEOREM PositionIsTheMarkets == Spec => []PositionIsThisMarkets
<1>1. Memorized => PositionIsThisMarkets
  BY DEF Memorized, PositionIsThisMarkets
<1> QED BY <1>1, SpecMemorized, PTL

\* A paper close is booked under the profile that opened the position.
THEOREM ClosesAreTheOpeners == Spec => []BookedUnderOpener
<1>1. Memorized => BookedUnderOpener
  BY DEF Memorized, PositionTyped, Phased, BookedUnderOpener
<1> QED BY <1>1, SpecMemorized, PTL

\* Only the decision to close lowers the marks of a position.
THEOREM StopIsKept == Spec => StopOnlyRises
<1> DEFINE P == inv > 0 /\ inv' > 0 /\ at' = "loop" =>
                  trail'.peak >= trail.peak /\ trail'.floor >= trail.floor
<1>1. Memorized /\ [Next]_vars => P
  <2> SUFFICES ASSUME Memorized, [Next]_vars, inv > 0, inv' > 0, at' = "loop"
               PROVE  trail'.peak >= trail.peak /\ trail'.floor >= trail.floor
    OBVIOUS
  <2>1. trail.peak \in Nat /\ trail.floor \in Int /\ trail \in Trail /\ Floored(trail)
    BY DEF Memorized, PositionTyped, Trail, NoFloor
  <2>2. ~pending /\ at # "opening"
    BY DEF Memorized, Phased
  <2>3. CASE trail' = trail
    BY <2>1, <2>3
  <2>4. ASSUME NEW edge \in Edges, NEW v \in Views, NEW speed \in SpeedsTo(edge),
               \/ TickSkipped(v) \/ TickWithoutEntry(edge, speed, v)
               \/ TickOpens(edge, speed, v)
               \/ TickHolds(edge, speed, v) \/ TickCloses(edge, speed, v)
        PROVE  trail'.peak >= trail.peak /\ trail'.floor >= trail.floor
    <3>1. CASE TickHolds(edge, speed, v)
      <4>1. ProfileAt(v) \in Profiles
        BY DEF ProfileAt, Profiles
      <4>2. trail' = UpdateTrail(Params[ProfileAt(v)], trail, v.gain)
        BY <3>1 DEF TickHolds
      <4> QED BY <2>1, <4>1, <4>2, UpdateTrailSound
    <3>2. ~TickCloses(edge, speed, v)
      <4> SUFFICES ASSUME TickCloses(edge, speed, v) PROVE FALSE
        OBVIOUS
      <4>1. CASE mode = "paper"
        BY <4>1 DEF TickCloses
      <4>2. CASE mode = "live"
        BY <4>2 DEF TickCloses
      <4> QED BY <4>1, <4>2 DEF Memorized, PositionTyped
    <3>3. ~TickSkipped(v) /\ ~TickWithoutEntry(edge, speed, v) /\ ~TickOpens(edge, speed, v)
      BY DEF TickSkipped, TickWithoutEntry, TickOpens
    <3> QED BY <2>4, <3>1, <3>2, <3>3
  <2>5. CASE Tick
    BY <2>4, <2>5 DEF Tick
  <2>6. CASE Answer
    <3>1. \E n \in 0 .. inv - 1 : Sold(n)
      BY <2>2, <2>6 DEF Answer, Bought, NotBought, OpenDropped
    <3> QED BY <2>3, <3>1 DEF Sold, entry
  <2>7. ~Adopt
    BY DEF Adopt, Adopted
  <2>8. CASE Pass
    BY <2>3, <2>8 DEF Pass
  <2>9. CASE MarketSwitch
    BY <2>3, <2>9 DEF MarketSwitch
  <2>10. CASE UNCHANGED vars
    BY <2>3, <2>10 DEF vars, entry
  <2> QED BY <2>5, <2>6, <2>7, <2>8, <2>9, <2>10 DEF Next
<1> QED BY <1>1, SpecMemorized, PTL DEF Spec, StopOnlyRises

---------------------------------------------------------------------------
(* EntryGates: entries, for every value of the parameters. *)

\* The product of positive numbers is positive.
LEMMA PositiveProduct == \A a, b \in Nat \ {0} : a * b \in Nat \ {0}
  OBVIOUS

\* The multipliers and floors of the edge are positive, as in every configuration.
Scaled(c) ==
  /\ {c.buyEdge, c.sellEdge, c.volFloor, c.volCap, c.lowSpeedMult, c.latencyHighMult,
      c.expiryMult} \subseteq Nat \ {0}
  /\ c.lowSpeedAbs \in Int /\ c.latencyHigh \in Int /\ c.latencyMid \in Int
  /\ c.expiryTight \in Int

\* The edge an entry needs is positive.
LEMMA NeededEdgePositive ==
  ASSUME NEW c, NEW d \in Direction, NEW t, NEW v, NEW rest,
         Scaled(c), v.vol \in Int
  PROVE  NeededEdge(c, d, t, v, rest) \in Nat \ {0}
<1> DEFINE base == IF v.vol < 0 THEN IF d = "UP" THEN c.buyEdge ELSE c.sellEdge
                   ELSE Greater(c.volFloor, Smaller(c.volCap, v.vol))
           lateTenths == IF v.latency > c.latencyHigh THEN c.latencyHighMult
                   ELSE IF v.latency > c.latencyMid THEN 11 ELSE 10
           tightTenths == IF rest < c.expiryTight THEN c.expiryMult ELSE 10
<1>1. base \in Nat \ {0}
  BY DEF Scaled, Greater, Smaller
<1>2. lateTenths \in Nat \ {0} /\ tightTenths \in Nat \ {0}
      /\ LowSpeedTenths(c, t) \in Nat \ {0}
  BY DEF Scaled, LowSpeedTenths
<1>3. NeededEdge(c, d, t, v, rest) = base * (lateTenths * tightTenths) * LowSpeedTenths(c, t)
  BY DEF NeededEdge, LatencyExpiryTenths
<1> HIDE DEF base, lateTenths, tightTenths
<1>4. lateTenths * tightTenths \in Nat \ {0}
  BY <1>2, PositiveProduct
<1>5. base * (lateTenths * tightTenths) \in Nat \ {0}
  BY <1>1, <1>4, PositiveProduct
<1>6. base * (lateTenths * tightTenths) * LowSpeedTenths(c, t) \in Nat \ {0}
  BY <1>2, <1>5, PositiveProduct
<1> QED BY <1>3, <1>6

\* An entry goes with the trend and with the sign of the edge, on both ways to a
\* signal and whatever the bypasses let through.
THEOREM SignalFollowsTheEdge ==
  ASSUME NEW c, NEW d \in Direction, NEW t, NEW v, NEW rest,
         Scaled(c), v.vol \in Int, t.edge \in Int, Signal(c, d, t, v, rest)
  PROVE  t.trend = d /\ Sign(t.edge) = SignOf(d)
<1> DEFINE need == NeededEdge(c, d, t, v, rest)
<1>1. need \in Nat \ {0}
  BY NeededEdgePositive
<1>2. SignOf(d) \in {1, -1}
  BY DEF SignOf
<1>3. ASSUME SignOf(d) * t.edge > 0 PROVE Sign(t.edge) = SignOf(d)
  BY <1>2, <1>3 DEF Sign
<1> HIDE DEF need
<1>4. CASE MomentumAlt(c, d, t, v, rest)
  <2>1. t.trend = d /\ 100 * 1000 * SignOf(d) * t.edge >= 85 * need
    BY <1>4 DEF MomentumAlt, need
  <2>2. SignOf(d) * t.edge > 0
    BY <1>1, <1>2, <2>1
  <2> QED BY <1>3, <2>1, <2>2
<1>5. CASE Candidate(c, d, t, v, rest)
  <2>1. CASE Confirmed(c, d, t, v, rest)
    <3>1. t.trend = d /\ 1000 * SignOf(d) * t.edge >= need
      BY <2>1 DEF Confirmed, HasEdge, need
    <3>2. SignOf(d) * t.edge > 0
      BY <1>1, <1>2, <3>1
    <3> QED BY <1>3, <3>1, <3>2
  <2>2. CASE ~Confirmed(c, d, t, v, rest)
    <3>1. t.trend = d /\ SignOf(d) * t.edge > 0
      BY <1>5, <2>2 DEF Candidate, StrongJump
    <3> QED BY <1>3, <3>1
  <2> QED BY <2>1, <2>2
<1> QED BY <1>4, <1>5 DEF Signal

\* No tick calls for both sides, so the order in which they are looked at is of no
\* consequence.
THEOREM OneSideOnly ==
  ASSUME NEW c, NEW t, NEW v, NEW rest,
         Scaled(c), v.vol \in Int, t.edge \in Int
  PROVE  ~(Signal(c, "UP", t, v, rest) /\ Signal(c, "DOWN", t, v, rest))
  BY SignalFollowsTheEdge DEF Direction

---------------------------------------------------------------------------
(* Sizes. *)

\* The bounds of an entry's size are ordered amounts of money.
Sized(c) ==
  /\ {c.amountMin, c.amountMax} \subseteq Nat /\ c.amountMin <= c.amountMax
  /\ {c.fixedTrade, c.depositPct, c.deposit} \subseteq Int
  /\ {c.minExecPrice, c.floorNotional, c.cheapBelow, c.richAbove, c.amountCheap,
      c.amountRich, c.riskPerTick} \subseteq Nat

\* The part of the deposit an entry may take is within the balance.
LEMMA DepositWithinBalance ==
  ASSUME NEW c, NEW balance \in Int, Sized(c)
  PROVE  /\ DepositNotional(c, balance) \in Nat
         /\ DepositNotional(c, balance) <= Greater(0, balance)
<1>1. CASE balance <= 0
  BY <1>1 DEF DepositNotional, Greater
<1>2. CASE balance > 0 /\ c.depositPct <= 0
  BY <1>2 DEF DepositNotional, Greater, Smaller, Sized
<1>3. CASE balance > 0 /\ c.depositPct > 0
  <2> DEFINE x == Greater(0, c.fixedTrade)
                    + (Greater(0, balance - c.deposit) * c.depositPct) \div 100
  <2>1. Greater(0, c.fixedTrade) \in Int /\ Greater(0, balance - c.deposit) \in Int
    BY DEF Sized, Greater
  <2>2. Greater(0, balance - c.deposit) * c.depositPct \in Int
    BY <2>1 DEF Sized
  <2>3. x \in Int
    BY <2>1, <2>2
  <2>4. DepositNotional(c, balance) = Greater(0, Smaller(x, balance))
    BY <1>3 DEF DepositNotional, Sized
  <2> HIDE DEF x
  <2> QED BY <1>3, <2>3, <2>4 DEF Greater, Smaller
<1> QED BY <1>1, <1>2, <1>3 DEF Sized

\* An entry is never larger than the balance nor than the largest amount, and never
\* negative, whatever share of the deposit and whatever tiers are configured.
THEOREM AmountIsAffordable ==
  ASSUME NEW c, NEW px \in Nat, NEW balance \in Int, Sized(c)
  PROVE  /\ DynamicAmount(c, px, balance) >= 0
         /\ DynamicAmount(c, px, balance) <= Greater(0, balance)
         /\ DynamicAmount(c, px, balance) <= c.amountMax
<1> DEFINE base == DepositNotional(c, balance)
           tier == TierAmount(c, px)
<1>1. base \in Nat /\ base <= Greater(0, balance) /\ Greater(0, balance) \in Int
  BY DepositWithinBalance, GreaterSmaller
<1>2. c.riskPerTick * px \in Nat
  BY DEF Sized
<1>3. tier \in Nat
  BY <1>2 DEF TierAmount, Sized, Greater, Smaller
<1>4. DynamicAmount(c, px, balance) =
        Greater(Smaller(base, c.amountMin), Smaller(Smaller(base, tier), c.amountMax))
  BY DEF DynamicAmount
<1> HIDE DEF base, tier
<1> QED BY <1>1, <1>3, <1>4 DEF Greater, Smaller, Sized

---------------------------------------------------------------------------
(* The profile. *)

\* Every reason the diagnosis gives blocks the profile, and when it gives none the
\* profile is chosen.
THEOREM DiagnosisAgrees ==
  ASSUME NEW c, NEW t, NEW latency \in Int,
         {c.volEdge, c.volSpeed, c.softMinAge, c.softMinEdge, c.softMaxSpeed, c.softMaxEdge,
          c.softMaxLatency, t.edge, t.speed, t.age} \subseteq Int
  PROVE  SelectProfile(c, t, latency) = "soft_flow" <=> Blockers(c, t, latency) = {}
<1>1. Abs(t.edge) \in Int /\ Abs(t.speed) \in Int
  BY DEF Abs
<1> DEFINE isSoft == SoftTrend(c, t) /\ latency <= c.softMaxLatency
<1>2. SelectProfile(c, t, latency) = "soft_flow" <=> isSoft
  BY DEF SelectProfile
<1>3. CASE ~c.softEnabled \/ t.trend = "FLAT" \/ Volatile(c, t)
  <2>1. ~isSoft
    BY <1>3 DEF SoftTrend
  <2>2. Blockers(c, t, latency) # {}
    BY <1>3 DEF Blockers, Volatile
  <2> QED BY <1>2, <2>1, <2>2
<1>4. CASE c.softEnabled /\ t.trend # "FLAT" /\ ~Volatile(c, t)
  <2> DEFINE all == {"age_below_soft_min", "edge_below_soft_min", "speed_above_soft_max",
                     "edge_above_soft_max", "stale_above_soft_max"}
  <2>1. Blockers(c, t, latency) =
          {b \in all :
             \/ b = "age_below_soft_min" /\ t.age < c.softMinAge
             \/ b = "edge_below_soft_min" /\ Abs(t.edge) < c.softMinEdge
             \/ b = "speed_above_soft_max" /\ Abs(t.speed) > c.softMaxSpeed
             \/ b = "edge_above_soft_max" /\ Abs(t.edge) > c.softMaxEdge
             \/ b = "stale_above_soft_max" /\ latency > c.softMaxLatency}
    BY <1>4 DEF Blockers, Volatile
  <2>2. Blockers(c, t, latency) = {} <=>
          /\ ~(t.age < c.softMinAge) /\ ~(Abs(t.edge) < c.softMinEdge)
          /\ ~(Abs(t.speed) > c.softMaxSpeed) /\ ~(Abs(t.edge) > c.softMaxEdge)
          /\ ~(latency > c.softMaxLatency)
    BY <2>1
  <2>3. isSoft <=> /\ t.age >= c.softMinAge /\ Abs(t.edge) >= c.softMinEdge
                 /\ Abs(t.speed) <= c.softMaxSpeed /\ Abs(t.edge) <= c.softMaxEdge
                 /\ latency <= c.softMaxLatency
    BY <1>4 DEF SoftTrend
  <2> QED BY <1>1, <1>2, <2>2, <2>3
<1> QED BY <1>3, <1>4
=============================================================================
