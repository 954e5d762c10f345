-------------------------- MODULE TradingLoop_proofs --------------------------
(***************************************************************************)
(* Proofs about TradingLoop, for every size, price, limit and number of    *)
(* positions.  The inductive invariant IInv adds to the properties what    *)
(* the engine calls in flight rest on: the loop opens only when flat, so   *)
(* no fill of another position is confirmed, and closes only a position.   *)
(***************************************************************************)
EXTENDS TradingLoop, TLAPS

\* A position has a side; execute() runs without a position, close_position()
\* with one.
CallsFit ==
  /\ pnl.inventory = 0 <=> pnl.side = Flat
  /\ at = "executing" => request.side \in Side /\ pnl.inventory = 0
  /\ at = "closing" => pnl.inventory > 0

IInv == /\ TypeOK /\ CallsFit /\ LedgersAgree /\ SellsThePosition
        /\ MoneyIsConserved /\ NoEntryBeyondLossLimit

Tracker == [inventory : Nat, side : Side \cup {Flat}, cost : Int, balance : Int, realized : Int]

\* live_open into a flat tracker.
LEMMA OpenFlat ==
  ASSUME NEW p \in Tracker, NEW s \in Side, NEW f \in Nat, NEW usd \in Int, p.inventory = 0, f > 0,
         p.balance = p.realized - p.cost
  PROVE  /\ LiveOpen(p, s, f, usd) \in Tracker
         /\ LiveOpen(p, s, f, usd).inventory = f /\ LiveOpen(p, s, f, usd).side = s
         /\ LiveOpen(p, s, f, usd).balance
              = LiveOpen(p, s, f, usd).realized - LiveOpen(p, s, f, usd).cost
<1>1. p.balance \in Int /\ p.cost \in Int /\ p.realized \in Int
      /\ p.inventory + f = f /\ ~(p.inventory > 0)
  BY DEF Tracker
<1>2. LiveOpen(p, s, f, usd) =
        [p EXCEPT !.inventory = f, !.side = s, !.balance = p.balance - usd, !.cost = p.cost + usd]
  BY <1>1, Zenon DEF LiveOpen
<1>3. p.balance - usd \in Int /\ p.cost + usd \in Int
      /\ p.balance - usd = p.realized - (p.cost + usd)
  BY <1>1
<1>4. LiveOpen(p, s, f, usd) \in Tracker BY <1>2, <1>3 DEF Tracker
<1>5. /\ LiveOpen(p, s, f, usd).inventory = f /\ LiveOpen(p, s, f, usd).side = s
      /\ LiveOpen(p, s, f, usd).balance = p.balance - usd
      /\ LiveOpen(p, s, f, usd).realized = p.realized
      /\ LiveOpen(p, s, f, usd).cost = p.cost + usd
  BY <1>2 DEF Tracker
<1> QED BY <1>3, <1>4, <1>5

\* The allocated cost of a sale is an integer.
LEMMA CostShareType ==
  ASSUME NEW p \in Tracker, NEW f \in Nat, p.inventory > 0
  PROVE  CostShare(p, f) \in Int
<1>1. p.cost * f \in Int BY DEF Tracker
<1>2. p.inventory \in Nat /\ p.inventory > 0 BY DEF Tracker
<1> DEFINE c == p.cost * f
<1> DEFINE d == p.inventory
<1>3. c \in Int /\ d \in Nat /\ d > 0 BY <1>1, <1>2
<1> HIDE DEF c, d
<1>4. c \div d \in Int BY <1>3
<1> QED BY <1>4 DEF CostShare, c, d

\* live_close of part or all of a position.
LEMMA CloseSome ==
  ASSUME NEW p \in Tracker, NEW f \in Nat, NEW px \in Nat, p.inventory > 0, p.side # Flat,
         p.balance = p.realized - p.cost
  PROVE  /\ LiveClose(p, f, px) \in Tracker
         /\ LiveClose(p, f, px).inventory = 0 <=> LiveClose(p, f, px).side = Flat
         /\ LiveClose(p, f, px).balance
              = LiveClose(p, f, px).realized - LiveClose(p, f, px).cost
         /\ RealizedBy(p, f, px) \in Int
<1> DEFINE c == CostShare(p, f)
<1> DEFINE m == f * px
<1> DEFINE left == IF f < p.inventory THEN p.inventory - f ELSE 0
<1>1. c \in Int /\ m \in Int BY CostShareType
<1>2. left \in Nat BY DEF Tracker
<1>3. RealizedBy(p, f, px) = m - c BY DEF RealizedBy
<1>4. LiveClose(p, f, px) =
        [p EXCEPT !.inventory = left, !.side = IF left = 0 THEN Flat ELSE @,
                  !.balance = @ + m, !.cost = @ - c, !.realized = @ + (m - c)]
  BY <1>3 DEF LiveClose
<1> HIDE DEF c, m, left
<1>5. p.balance \in Int /\ p.cost \in Int /\ p.realized \in Int
  BY DEF Tracker
<1>6. p.balance + m \in Int /\ p.cost - c \in Int /\ p.realized + (m - c) \in Int /\ m - c \in Int
      /\ p.balance + m = (p.realized + (m - c)) - (p.cost - c)
  BY <1>1, <1>5
<1>7. LiveClose(p, f, px) \in Tracker BY <1>2, <1>4, <1>6 DEF Tracker
<1>8. /\ LiveClose(p, f, px).inventory = left
      /\ LiveClose(p, f, px).side = IF left = 0 THEN Flat ELSE p.side
      /\ LiveClose(p, f, px).balance = p.balance + m
      /\ LiveClose(p, f, px).realized = p.realized + (m - c)
      /\ LiveClose(p, f, px).cost = p.cost - c
  BY <1>4 DEF Tracker
<1> QED BY <1>3, <1>6, <1>7, <1>8

\* A force-cleared tracker.
LEMMA ForceClearFlat ==
  ASSUME NEW p \in Tracker
  PROVE  /\ ForceClear(p) \in Tracker /\ ForceClear(p).inventory = 0 /\ ForceClear(p).side = Flat
         /\ ForceClear(p).balance = p.balance /\ ForceClear(p).realized = p.realized
         /\ ForceClear(p).cost = p.cost
  BY DEF ForceClear, Tracker, Flat, Side

\* The loop starts flat.
LEMMA Initially == Init => IInv
<1> SUFFICES ASSUME Init PROVE IInv
  OBVIOUS
<1>1. TypeOK
  <2>1. pnl \in Tracker BY DEF Init, NewTracker, Tracker
  <2>2. request \in [side : Side \cup {Flat}, n : Nat] BY DEF Init, NoRequest
  <2>3. NoShares \in [Side -> Nat] BY DEF NoShares
  <2>4. recent \in BOOLEAN /\ cooldown \in BOOLEAN /\ kill \in BOOLEAN BY DEF Init
  <2>5. at \in {"top", "deciding", "executing", "closing", "stopped"} BY DEF Init
  <2>6. riskPnl \in Int /\ opens \in Nat BY DEF Init
  <2>7. /\ confirmed \in [Side -> Nat] /\ rows \in [Side -> Nat]
        /\ wallet \in [Side -> Nat] /\ selling \in [Side -> Nat]
    BY <2>3 DEF Init
  <2> QED BY <2>1, <2>2, <2>4, <2>5, <2>6, <2>7 DEF TypeOK, Tracker
<1>2. CallsFit BY DEF Init, CallsFit, NewTracker, Flat
<1>3. LedgersAgree BY DEF Init, LedgersAgree, NoShares
<1>4. SellsThePosition /\ NoEntryBeyondLossLimit
  BY DEF Init, SellsThePosition, NoEntryBeyondLossLimit
<1>5. MoneyIsConserved
  <2>1. pnl.balance = 0 /\ pnl.realized = 0 /\ pnl.cost = 0 BY DEF Init, NewTracker
  <2> QED BY <2>1 DEF MoneyIsConserved
<1> QED BY <1>1, <1>2, <1>3, <1>4, <1>5 DEF IInv

USE DEF IInv, CallsFit, LedgersAgree, SellsThePosition, MoneyIsConserved, NoEntryBeyondLossLimit,
        ledgerVars, engineVars, chainVars

\* Leaving the loop touches neither ledger, whatever call was in flight.
LEMMA FinallyKeeps ==
  ASSUME IInv, NEW left \in [Side -> Nat], Finally(left), wallet' \in [Side -> Nat]
  PROVE  IInv'
<1>1. /\ at' = "stopped" /\ request' = NoRequest
      /\ UNCHANGED <<ledgerVars, confirmed, recent, cooldown, kill, opens>>
  BY DEF Finally
<1>2. rows' \in [Side -> Nat] /\ selling' \in [Side -> Nat]
  <2>1. CASE pnl.inventory > 0
    <3>1. pnl.side \in Side /\ pnl.inventory \in Nat /\ request.n \in Nat BY <2>1 DEF TypeOK
    <3>2. PICK own \in {0, request.n}, n \in {0, pnl.inventory} :
            selling' = [selling EXCEPT ![pnl.side] = own + n]
      BY <2>1 DEF Finally
    <3>3. own + n \in Nat BY <3>1
    <3>4. rows' = [left EXCEPT ![pnl.side] = 0] BY <2>1 DEF Finally
    <3> QED BY <3>1, <3>2, <3>3, <3>4 DEF TypeOK
  <2>2. CASE ~(pnl.inventory > 0) BY <2>2 DEF Finally, TypeOK
  <2> QED BY <2>1, <2>2
<1>3. request' \in [side : Side \cup {Flat}, n : Nat] BY <1>1 DEF NoRequest
<1>4. TypeOK' BY <1>1, <1>2, <1>3 DEF TypeOK
<1> QED BY <1>1, <1>4

\* Steps that move only the loop's own phase, flags and the chain.
LEMMA QuietSteps ==
  ASSUME IInv, Proceed \/ Stop \/ Hold \/ TimePasses \/ Kill
  PROVE  IInv'
<1>1. CASE Proceed BY <1>1 DEF Proceed, TypeOK
<1>2. CASE Stop BY <1>2, FinallyKeeps DEF Stop, TypeOK
<1>3. CASE Hold BY <1>3 DEF Hold, TypeOK
<1>4. CASE TimePasses BY <1>4 DEF TimePasses, TypeOK
<1>5. CASE Kill BY <1>5 DEF Kill, TypeOK
<1> QED BY <1>1, <1>2, <1>3, <1>4, <1>5

\* A rollover happens only without a position.
LEMMA RolloverStep == ASSUME IInv, Rollover PROVE IInv'
  BY DEF Rollover, TypeOK, NoShares

\* A background SELL moves only chain shares.
LEMMA BackgroundSellStep ==
  ASSUME IInv, NEW s \in Side, NEW k \in Shares, BackgroundSell(s, k)
  PROVE  IInv'
<1>1. k \in Nat /\ k <= wallet[s] BY TradingLoopAssumption DEF BackgroundSell, Shares, TradingLoopAssumption
<1>2. wallet' \in [Side -> Nat] /\ selling' \in [Side -> Nat] BY <1>1 DEF BackgroundSell, TypeOK
<1> QED BY <1>2 DEF BackgroundSell, TypeOK

\* So does a BUY that nobody watches.
LEMMA LateBuyStep == ASSUME IInv, NEW s \in Side, LateBuy(s) PROVE IInv'
<1>1. wallet' \in [Side -> Nat] BY DEF LateBuy, Bought, TypeOK
<1> QED BY <1>1 DEF LateBuy, TypeOK

\* Without a position nothing is confirmed.
LEMMA FlatUnconfirmed ==
  ASSUME IInv, pnl.inventory = 0
  PROVE  \A s \in Side : confirmed[s] = 0
  BY DEF TypeOK

\* An adoption confirms in the engine what it records in the tracker.
LEMMA ReconcileStep ==
  ASSUME IInv, NEW s \in Side, NEW px \in Prices, Reconcile(s, px)
  PROVE  IInv'
<1> DEFINE n == Candidate(s)
<1>1. n \in Nat /\ n > 0 BY DEF Reconcile, Chosen, Candidate, FilledBuyShares, TypeOK
<1>2. px \in Nat BY TradingLoopAssumption DEF TradingLoopAssumption
<1>3. n * px \in Int BY <1>1, <1>2
<1>4. pnl \in Tracker /\ pnl.inventory = 0 BY DEF TypeOK, Tracker, Reconcile
<1>5. confirmed' = [confirmed EXCEPT ![s] = n] /\ pnl' = LiveOpen(pnl, s, n, n * px)
  BY DEF Reconcile
<1>6. at' = "deciding" /\ request' = request /\ riskPnl' = riskPnl
  BY DEF Reconcile
<1>7. TypeOK'
  <2>1. pnl' \in Tracker BY <1>1, <1>3, <1>4, <1>5, OpenFlat
  <2> QED BY <2>1, <1>1, <1>5 DEF Reconcile, TypeOK, Tracker
<1>8. pnl'.inventory = n /\ pnl'.side = s /\ pnl'.balance = pnl'.realized - pnl'.cost
  BY <1>1, <1>3, <1>4, <1>5, OpenFlat
<1>9. \A q \in Side : confirmed[q] = 0 BY <1>4, FlatUnconfirmed
<1>10. LedgersAgree' BY <1>1, <1>5, <1>8, <1>9 DEF TypeOK
<1>11. CallsFit' BY <1>1, <1>6, <1>8 DEF Flat, Side
<1> HIDE DEF n
<1> QED BY <1>6, <1>7, <1>8, <1>10, <1>11

\* The gates of an OPEN.
LEMMA OpenStep == ASSUME IInv, NEW s \in Side, Open(s) PROVE IInv'
  BY TradingLoopAssumption DEF Open, TypeOK, SessionLossBreached, TradingLoopAssumption

\* A confirmed fill enters both ledgers.
LEMMA ExecuteFillsStep ==
  ASSUME IInv, NEW f \in Shares, NEW b \in 0..MaxHeld, NEW left \in Shares, NEW px \in Prices,
         ExecuteFills(f, b, left, px)
  PROVE  IInv'
<1>1. f \in Nat /\ f > 0 /\ b \in Nat /\ left \in Nat
  BY TradingLoopAssumption DEF ExecuteFills, Shares, TradingLoopAssumption
<1>2. px \in Nat BY TradingLoopAssumption DEF TradingLoopAssumption
<1>3. f * px \in Int BY <1>1, <1>2
<1>4. request.side \in Side /\ pnl.inventory = 0 /\ pnl \in Tracker
  BY DEF ExecuteFills, TypeOK, Tracker
<1> DEFINE s == request.side
<1>5. /\ confirmed' = [confirmed EXCEPT ![s] = f] /\ pnl' = LiveOpen(pnl, s, f, f * px)
      /\ rows' = [rows EXCEPT ![s] = @ + left] /\ wallet' = [wallet EXCEPT ![s] = @ + b]
      /\ at' = "top" /\ request' = NoRequest /\ cooldown' = FALSE /\ riskPnl' = riskPnl
      /\ UNCHANGED <<selling, recent, kill, opens>>
  BY DEF ExecuteFills, Bought
<1>6. pnl' \in Tracker /\ pnl'.inventory = f /\ pnl'.side = s /\ pnl'.balance = pnl'.realized - pnl'.cost
  BY <1>1, <1>3, <1>4, <1>5, OpenFlat
<1>7. TypeOK'
  <2>1. rows' \in [Side -> Nat] /\ wallet' \in [Side -> Nat] /\ confirmed' \in [Side -> Nat]
    BY <1>1, <1>4, <1>5 DEF TypeOK
  <2> QED BY <2>1, <1>5, <1>6 DEF TypeOK, Tracker, NoRequest
<1>8. \A q \in Side : confirmed[q] = 0 BY <1>4, FlatUnconfirmed
<1>9. LedgersAgree' BY <1>4, <1>5, <1>6, <1>8 DEF TypeOK
<1>10. CallsFit' BY <1>1, <1>4, <1>5, <1>6 DEF Flat, Side
<1> QED BY <1>5, <1>6, <1>7, <1>9, <1>10

\* A skip touches neither ledger.
LEMMA ExecuteSkipsStep ==
  ASSUME IInv, NEW b \in 0..MaxHeld, NEW left \in Shares, ExecuteSkips(b, left)
  PROVE  IInv'
<1>1. b \in Nat /\ left \in Nat
  BY TradingLoopAssumption DEF Shares, TradingLoopAssumption
<1>2. request.side \in Side BY DEF ExecuteSkips
<1>3. rows' \in [Side -> Nat] /\ wallet' \in [Side -> Nat]
  BY <1>1, <1>2 DEF ExecuteSkips, Bought, TypeOK
<1> QED BY <1>3 DEF ExecuteSkips, TypeOK, NoRequest, Flat

\* An exception in execute() ends the loop; both ledgers stay flat.
LEMMA ExecuteRaisesStep ==
  ASSUME IInv, NEW b \in 0..MaxHeld, NEW left \in Shares, ExecuteRaises(b, left)
  PROVE  IInv'
<1>1. b \in Nat /\ left \in Nat
  BY TradingLoopAssumption DEF Shares, TradingLoopAssumption
<1>2. request.side \in Side BY DEF ExecuteRaises
<1> DEFINE remaining == [rows EXCEPT ![request.side] = @ + left]
<1>3. remaining \in [Side -> Nat] /\ wallet' \in [Side -> Nat]
  BY <1>1, <1>2 DEF ExecuteRaises, Bought, TypeOK
<1>4. Finally(remaining) BY DEF ExecuteRaises
<1> HIDE DEF remaining
<1> QED BY <1>3, <1>4, FinallyKeeps

\* An exception in close_position() ends the loop with the position still booked.
LEMMA CloseRaisesStep ==
  ASSUME IInv, NEW k \in Shares, CloseRaises(k)
  PROVE  IInv'
<1>1. pnl.side \in Side /\ request.side = pnl.side
  BY DEF CloseRaises, TypeOK
<1>2. k \in Nat /\ k <= wallet[request.side]
  BY TradingLoopAssumption DEF CloseRaises, Shares, TradingLoopAssumption
<1>3. wallet' \in [Side -> Nat] BY <1>1, <1>2 DEF CloseRaises, TypeOK
<1>4. Finally(rows) /\ rows \in [Side -> Nat] BY DEF CloseRaises, TypeOK
<1> QED BY <1>3, <1>4, FinallyKeeps

\* The size of a SELL is at most the position.
LEMMA CloseStep == ASSUME IInv, Close PROVE IInv'
<1> DEFINE s == pnl.side
<1>1. s \in Side /\ pnl.inventory > 0 BY DEF Close, TypeOK
<1>2. CloseSize(s) \in Nat /\ CloseSize(s) <= pnl.inventory
  BY <1>1 DEF CloseSize, FilledBuyShares, Lesser, TypeOK
<1>3. at' = "closing" /\ request' = [side |-> s, n |-> CloseSize(s)] /\ cooldown' = FALSE
      /\ UNCHANGED <<ledgerVars, engineVars, chainVars, recent, kill, opens>>
  BY DEF Close
<1>4. TypeOK' BY <1>1, <1>2, <1>3 DEF TypeOK
<1> HIDE DEF s
<1>5. SellsThePosition' BY <1>2, <1>3 DEF s
<1> QED BY <1>1, <1>3, <1>4, <1>5

\* The position is dropped and nothing stays confirmed for its token.
LEMMA DroppedPosition ==
  ASSUME IInv, NEW s \in Side, s = pnl.side, pnl.inventory > 0,
         ClearFilledBuy(s), pnl' = ForceClear(pnl)
  PROVE  /\ confirmed' \in [Side -> Nat] /\ pnl' \in Tracker
         /\ LedgersAgree' /\ MoneyIsConserved' /\ pnl'.inventory = 0 /\ pnl'.side = Flat
<1>1. pnl \in Tracker BY DEF TypeOK, Tracker
<1>2. confirmed' \in [Side -> Nat] BY DEF ClearFilledBuy, TypeOK
<1>3. \A q \in Side : confirmed'[q] = 0
  BY DEF ClearFilledBuy, TypeOK
<1> QED BY <1>1, <1>2, <1>3, ForceClearFlat

\* A position nobody tracks is dropped.
LEMMA ClearPhantomStep == ASSUME IInv, ClearPhantom PROVE IInv'
<1>1. pnl.side \in Side /\ pnl.inventory > 0 BY DEF ClearPhantom, TypeOK
<1>2. /\ confirmed' \in [Side -> Nat] /\ pnl' \in Tracker
      /\ LedgersAgree' /\ MoneyIsConserved' /\ pnl'.inventory = 0 /\ pnl'.side = Flat
  BY <1>1, DroppedPosition DEF ClearPhantom
<1>3. TypeOK' BY <1>2 DEF ClearPhantom, TypeOK, Tracker
<1> QED BY <1>2, <1>3 DEF ClearPhantom

\* A failed SELL drops the position.
LEMMA CloseFailsStep ==
  ASSUME IInv, NEW k \in Shares, CloseFails(k)
  PROVE  IInv'
<1>1. pnl.side \in Side /\ pnl.inventory > 0 /\ request.side = pnl.side
  BY DEF CloseFails, TypeOK
<1>2. k \in Nat /\ k <= wallet[request.side]
  BY TradingLoopAssumption DEF CloseFails, Shares, TradingLoopAssumption
<1>3. /\ confirmed' \in [Side -> Nat] /\ pnl' \in Tracker
      /\ LedgersAgree' /\ MoneyIsConserved' /\ pnl'.inventory = 0 /\ pnl'.side = Flat
  BY <1>1, DroppedPosition DEF CloseFails
<1>4. wallet' \in [Side -> Nat] BY <1>1, <1>2 DEF CloseFails, TypeOK
<1>5. rows' \in [Side -> Nat] /\ selling' \in [Side -> Nat] BY <1>1 DEF CloseFails, TypeOK
<1>6. at' = "top" /\ request' = NoRequest /\ UNCHANGED <<riskPnl, recent, cooldown, kill, opens>>
  BY DEF CloseFails
<1>7. TypeOK' BY <1>3, <1>4, <1>5, <1>6 DEF TypeOK, Tracker, NoRequest
<1> QED BY <1>3, <1>6, <1>7

\* A SELL, full or partial, clears the confirmed fill.
LEMMA CloseReportsStep ==
  ASSUME IInv, NEW r \in Shares, NEW k \in Shares, NEW px \in Prices, CloseReports(r, k, px)
  PROVE  IInv'
<1>1. pnl.side \in Side /\ pnl.inventory > 0 /\ request.side = pnl.side /\ pnl.side # Flat
  BY DEF CloseReports, TypeOK, Side, Flat
<1>2. k \in Nat /\ k <= wallet[request.side] /\ r \in Nat /\ px \in Nat
  BY TradingLoopAssumption DEF CloseReports, Shares, TradingLoopAssumption
<1>3. pnl \in Tracker BY DEF TypeOK, Tracker
<1>4. pnl' = LiveClose(pnl, r, px) /\ riskPnl' = riskPnl + RealizedBy(pnl, r, px)
  BY DEF CloseReports
<1>5. /\ pnl' \in Tracker /\ (pnl'.inventory = 0 <=> pnl'.side = Flat)
      /\ pnl'.balance = pnl'.realized - pnl'.cost /\ riskPnl' \in Int
  <2>1. RealizedBy(pnl, r, px) \in Int BY <1>1, <1>2, <1>3, CloseSome
  <2>2. riskPnl' \in Int BY <2>1, <1>4 DEF TypeOK
  <2> QED BY <2>2, <1>1, <1>2, <1>3, <1>4, CloseSome
<1>6. wallet' \in [Side -> Nat] BY <1>1, <1>2 DEF CloseReports, TypeOK
<1>7. confirmed' \in [Side -> Nat] /\ \A q \in Side : confirmed'[q] = 0
  BY <1>1 DEF CloseReports, ClearFilledBuy, TypeOK
<1>8. at' = "top" /\ request' = NoRequest /\ recent' = TRUE
      /\ UNCHANGED <<rows, selling, cooldown, kill, opens>>
  BY DEF CloseReports
<1>9. TypeOK' BY <1>5, <1>6, <1>7, <1>8 DEF TypeOK, Tracker, NoRequest
<1> QED BY <1>5, <1>7, <1>8, <1>9

\* Every step keeps the inductive invariant.
LEMMA Inductive == IInv /\ [Next]_vars => IInv'
<1> SUFFICES ASSUME IInv, [Next]_vars PROVE IInv'
  OBVIOUS
<1>1. CASE LoopNext
  BY <1>1, QuietSteps, RolloverStep, CloseStep, ClearPhantomStep, OpenStep, ReconcileStep,
     ExecuteFillsStep, ExecuteSkipsStep, ExecuteRaisesStep, CloseReportsStep, CloseFailsStep,
     CloseRaisesStep DEF LoopNext
<1>2. CASE MeanwhileNext
  BY <1>2, BackgroundSellStep, LateBuyStep, QuietSteps DEF MeanwhileNext
<1>3. CASE UNCHANGED vars
  BY <1>3 DEF vars, TypeOK
<1> QED BY <1>1, <1>2, <1>3 DEF Next

\* The inductive invariant holds in every reachable state.
LEMMA Invariant == Spec => []IInv
  BY Initially, Inductive, PTL DEF Spec

\* Every variable of the loop keeps its type; in particular no share count
\* becomes negative.
THEOREM TypeCorrect == Spec => []TypeOK
<1>1. IInv => TypeOK OBVIOUS
<1> QED BY <1>1, Invariant, PTL

\* The engine's confirmed fill and the PnL tracker's position agree whenever a
\* fill is confirmed.
THEOREM LedgersAlwaysAgree == Spec => []LedgersAgree
<1>1. IInv => LedgersAgree OBVIOUS
<1> QED BY <1>1, Invariant, PTL

\* A CLOSE sells the position's own token and no more than the position.
THEOREM ClosesSellThePosition == Spec => []SellsThePosition
<1>1. IInv => SellsThePosition OBVIOUS
<1> QED BY <1>1, Invariant, PTL

\* Balance, realized PnL and outstanding cost always add up.
THEOREM MoneyConserved == Spec => []MoneyIsConserved
<1>1. IInv => MoneyIsConserved OBVIOUS
<1> QED BY <1>1, Invariant, PTL

\* No BUY is placed beyond the session-loss limit.
THEOREM LossLimitHolds == Spec => []NoEntryBeyondLossLimit
<1>1. IInv => NoEntryBeyondLossLimit OBVIOUS
<1> QED BY <1>1, Invariant, PTL
=============================================================================
