------------------------------ MODULE TradingLoop ------------------------------
(***************************************************************************)
(* The position accounting of the main loop (bot_main_loop.py, live mode)  *)
(* with the ledgers it keeps in step: PnLTracker (core/executor.py),       *)
(* LiveRiskManager (core/live_common.py) and the order engine's            *)
(* _confirmed_buys and _active_orders (core/live_engine.py).               *)
(*                                                                         *)
(* The loop is one coroutine.  It awaits execute() and close_position(),   *)
(* which are described here by what module OrderEngine allows them to      *)
(* return: at most the requested shares, while more or fewer may really    *)
(* have changed hands, and while a repriced order may leave a FILLED row   *)
(* in _active_orders.  Meanwhile the kill endpoint, the background poll of *)
(* emergency_exit(), orders nobody cancelled and time act.                 *)
(*                                                                         *)
(* Sizes are whole shares and money is in whole units; every balance the   *)
(* loop reads from the chain is None (see OrderEngine).  A market has one  *)
(* UP and one DOWN token.                                                  *)
(***************************************************************************)
EXTENDS Integers

CONSTANTS
  Size,      \* shares one execute() asks for
  PolyMin,   \* POLY_CLOB_MIN_SHARES
  Prices,    \* prices of a fill, per share
  MaxSessionLoss,  \* LIVE_MAX_SESSION_LOSS
  MaxOpens,  \* bound: execute() calls and adoptions in a behaviour
  MaxHeld    \* bound: shares of one token the wallet ever holds

ASSUME TradingLoopAssumption ==
  /\ Size \in Nat /\ PolyMin \in Nat /\ 0 < PolyMin /\ PolyMin <= Size
  /\ Prices \subseteq Nat \ {0}
  /\ MaxSessionLoss \in Int /\ MaxOpens \in Nat /\ MaxHeld \in Nat

VARIABLES
  at,         \* what the loop is doing
  request,    \* the engine call it awaits: side and shares
  pnl,        \* the PnLTracker
  riskPnl,    \* LiveRiskManager.pnl
  confirmed,  \* _confirmed_buys, 0 when absent, by side of the token
  rows,       \* shares of the FILLED BUY rows left in _active_orders
  wallet,     \* outcome shares really held
  selling,    \* shares of the SELL order a background poll watches
  recent,     \* LIVE_INVENTORY_RECONCILE_AFTER_CLOSE_SEC have not passed yet
  cooldown,   \* now < _live_skip_until
  kill,       \* _shutdown_requested
  opens       \* number of execute() calls and adoptions

engineVars == <<confirmed, rows>>
chainVars == <<wallet, selling>>
ledgerVars == <<pnl, riskPnl>>
vars == <<at, request, ledgerVars, engineVars, chainVars, recent, cooldown, kill, opens>>

Side == {"UP", "DOWN"}
Flat == "NONE"
Lesser(a, b) == IF a < b THEN a ELSE b
NoShares == [s \in Side |-> 0]
NoRequest == [side |-> Flat, n |-> 0]

---------------------------------------------------------------------------
(* PnLTracker. *)

\* live_open: a confirmed BUY of f shares for usd.
LiveOpen(p, s, f, usd) ==
  IF p.inventory > 0 /\ p.side # s THEN p
  ELSE [p EXCEPT !.inventory = @ + f, !.side = s, !.balance = @ - usd, !.cost = @ + usd]

\* The part of the money paid for the position that f of its shares stand for.
CostShare(p, f) == (p.cost * f) \div p.inventory

\* Mutant of RealizedBy: the whole cost is charged to a partial sale.
RealizedByAll(p, f, px) == f * px - p.cost

\* The realized PnL of a sale of f shares at px.
RealizedBy(p, f, px) == f * px - CostShare(p, f)

\* live_close: a confirmed SELL.
LiveClose(p, f, px) ==
  LET left == IF f < p.inventory THEN p.inventory - f ELSE 0
  IN [p EXCEPT !.inventory = left, !.side = IF left = 0 THEN Flat ELSE @,
               !.balance = @ + f * px, !.cost = @ - CostShare(p, f),
               !.realized = @ + RealizedBy(p, f, px)]

\* The main loop drops the position: inventory, entry price, entry time and
\* side.  _buy_cost_usd is left as it is.
ForceClear(p) == [p EXCEPT !.inventory = 0, !.side = Flat]

---------------------------------------------------------------------------
(* The engine's view. *)

\* filled_buy_shares, no BUY being pending: the confirmed fill, else the FILLED rows.
FilledBuyShares(s) == IF confirmed[s] > 0 THEN confirmed[s] ELSE rows[s]

\* Mutant of ClearFilledBuy: nothing is removed.
ClearFilledBuyForgotten(s) == UNCHANGED confirmed

\* clear_filled_buy
ClearFilledBuy(s) == confirmed' = [confirmed EXCEPT ![s] = 0]

---------------------------------------------------------------------------
(* The loop. *)

SessionLossBreached ==
  IF MaxSessionLoss < 0 THEN riskPnl <= MaxSessionLoss ELSE riskPnl < MaxSessionLoss

\* An iteration starts.
Proceed ==
  /\ at = "top" /\ ~SessionLossBreached /\ ~kill
  /\ at' = "deciding"
  /\ UNCHANGED <<request, ledgerVars, engineVars, chainVars, recent, cooldown, kill, opens>>

\* The loop is left.  `finally' exits what the PnL tracker still holds: the
\* order engine drops its rows and posts a SELL, beside the one that a
\* close_position() in flight may have posted.  `left' are the rows of the moment.
Finally(left) ==
  /\ at' = "stopped" /\ request' = NoRequest
  /\ IF pnl.inventory > 0
       THEN /\ rows' = [left EXCEPT ![pnl.side] = 0]
            /\ \E own \in {0, request.n}, n \in {0, pnl.inventory} :
                 selling' = [selling EXCEPT ![pnl.side] = own + n]
       ELSE rows' = left /\ UNCHANGED selling
  /\ UNCHANGED <<ledgerVars, confirmed, recent, cooldown, kill, opens>>

\* Between two engine calls: session loss, kill flag, HFT_MAX_RUNTIME_SEC (at
\* any iteration), or an exception.
Stop == at \in {"top", "deciding"} /\ Finally(rows) /\ UNCHANGED wallet

\* The slot rolls over to a market with two other tokens, of which the engine
\* and the wallet hold nothing.
Rollover ==
  /\ at = "deciding" /\ pnl.inventory = 0
  /\ confirmed' = NoShares /\ rows' = NoShares
  /\ wallet' = NoShares /\ selling' = NoShares
  /\ UNCHANGED <<at, request, ledgerVars, recent, cooldown, kill, opens>>

\* The size _reconcile_live_inventory_maybe finds for a token, whose chain
\* balance reads None: what the engine remembers, if it can be sold.
Candidate(s) ==
  IF selling[s] > 0 \/ FilledBuyShares(s) < PolyMin THEN 0 ELSE FilledBuyShares(s)

\* Both tokens may have candidates: the larger one wins, UP on a tie.
Chosen(s) == /\ Candidate(s) > 0
             /\ s = "UP" => Candidate("DOWN") <= Candidate("UP")
             /\ s = "DOWN" => Candidate("UP") < Candidate("DOWN")

\* _reconcile_live_inventory_maybe, from its timer or from an OPEN that found
\* shares: sync_confirmed_fill() and live_open() with what was found.
Reconcile(s, px) ==
  /\ at = "deciding" /\ pnl.inventory = 0 /\ ~recent
  /\ Chosen(s)
  /\ opens < MaxOpens /\ opens' = opens + 1
  /\ confirmed' = [confirmed EXCEPT ![s] = Candidate(s)]
  /\ pnl' = LiveOpen(pnl, s, Candidate(s), Candidate(s) * px)
  /\ UNCHANGED <<at, request, riskPnl, rows, chainVars, recent, cooldown, kill>>

\* process_tick() decides nothing, or an OPEN the gates do not let through.
Hold ==
  /\ at = "deciding"
  /\ at' = "top"
  /\ UNCHANGED <<request, ledgerVars, engineVars, chainVars, recent, cooldown, kill, opens>>

\* An OPEN passes: can_trade, no skip cooldown, no position, nothing tracked.
Open(s) ==
  /\ at = "deciding" /\ ~SessionLossBreached /\ ~cooldown
  /\ pnl.inventory = 0 /\ FilledBuyShares(s) = 0
  /\ opens < MaxOpens /\ opens' = opens + 1
  /\ at' = "executing" /\ request' = [side |-> s, n |-> Size]
  /\ UNCHANGED <<ledgerVars, engineVars, chainVars, recent, cooldown, kill>>

\* The exchange gives the wallet b shares more.
Bought(s, b) == /\ wallet[s] + b <= MaxHeld
                /\ wallet' = [wallet EXCEPT ![s] = @ + b]

\* execute() reports f shares; b were bought, which is more when an order that
\* was replaced traded too, and a row of `left' shares stays.
ExecuteFills(f, b, left, px) ==
  /\ at = "executing"
  /\ PolyMin <= f /\ f <= request.n /\ f <= b /\ left <= f
  /\ confirmed' = [confirmed EXCEPT ![request.side] = f]
  /\ rows' = [rows EXCEPT ![request.side] = @ + left]
  /\ Bought(request.side, b)
  /\ pnl' = LiveOpen(pnl, request.side, f, f * px)
  /\ at' = "top" /\ request' = NoRequest /\ cooldown' = FALSE
  /\ UNCHANGED <<riskPnl, selling, recent, kill, opens>>

\* execute() reports nothing, whatever was bought; a fill below the minimum may
\* leave its row behind.  Whether a cooldown starts depends on the skip reason.
ExecuteSkips(b, left) ==
  /\ at = "executing"
  /\ left <= b /\ left < PolyMin
  /\ rows' = [rows EXCEPT ![request.side] = @ + left]
  /\ Bought(request.side, b)
  /\ at' = "top" /\ request' = NoRequest
  /\ cooldown' \in {cooldown, TRUE}
  /\ UNCHANGED <<ledgerVars, confirmed, selling, recent, kill, opens>>

\* execute() raises, whatever was bought and whatever row it leaves.
ExecuteRaises(b, left) ==
  /\ at = "executing"
  /\ left <= b
  /\ Bought(request.side, b)
  /\ Finally([rows EXCEPT ![request.side] = @ + left])

\* Mutant of CloseSize: close_position() trusts the caller's size alone.
CloseSizeOfRows(s) == FilledBuyShares(s)

\* The size the loop passes, at most the position, and what close_position()
\* makes of it: the confirmed fill wins.
CloseSize(s) == IF confirmed[s] > 0 THEN confirmed[s]
                ELSE Lesser(FilledBuyShares(s), pnl.inventory)

\* A CLOSE decision with shares to sell.
Close ==
  /\ at = "deciding" /\ pnl.inventory > 0
  /\ FilledBuyShares(pnl.side) > 0
  /\ at' = "closing" /\ request' = [side |-> pnl.side, n |-> CloseSize(pnl.side)]
  /\ cooldown' = FALSE
  /\ UNCHANGED <<ledgerVars, engineVars, chainVars, recent, kill, opens>>

\* A CLOSE decision, but nothing is tracked and the chain probe answers 0.
ClearPhantom ==
  /\ at = "deciding" /\ pnl.inventory > 0
  /\ FilledBuyShares(pnl.side) = 0
  /\ ClearFilledBuy(pnl.side)
  /\ pnl' = ForceClear(pnl)
  /\ at' = "top" /\ cooldown' = FALSE
  /\ UNCHANGED <<request, riskPnl, rows, chainVars, recent, kill, opens>>

\* close_position() reports r shares sold at px; k were sold.
CloseReports(r, k, px) ==
  /\ at = "closing"
  /\ 0 < r /\ r <= request.n /\ k <= request.n /\ k <= wallet[request.side]
  /\ wallet' = [wallet EXCEPT ![request.side] = @ - k]
  /\ ClearFilledBuy(request.side)
  /\ pnl' = LiveClose(pnl, r, px)
  /\ riskPnl' = riskPnl + RealizedBy(pnl, r, px)
  /\ at' = "top" /\ request' = NoRequest /\ recent' = TRUE
  /\ UNCHANGED <<rows, selling, cooldown, kill, opens>>

\* close_position() reports nothing; emergency_exit() may have dropped the
\* engine's rows and left a SELL order behind.
CloseFails(k) ==
  /\ at = "closing"
  /\ k <= request.n /\ k <= wallet[request.side]
  /\ wallet' = [wallet EXCEPT ![request.side] = @ - k]
  /\ \/ UNCHANGED <<rows, selling>>
     \/ /\ rows' = [rows EXCEPT ![request.side] = 0]
        /\ selling' = [selling EXCEPT ![request.side] = request.n]
  /\ ClearFilledBuy(request.side)
  /\ pnl' = ForceClear(pnl)
  /\ at' = "top" /\ request' = NoRequest
  /\ UNCHANGED <<riskPnl, recent, cooldown, kill, opens>>

\* close_position() raises after k shares were sold.
CloseRaises(k) ==
  /\ at = "closing"
  /\ k <= request.n /\ k <= wallet[request.side]
  /\ wallet' = [wallet EXCEPT ![request.side] = @ - k]
  /\ Finally(rows)

---------------------------------------------------------------------------
(* What happens meanwhile. *)

\* The emergency SELL trades k shares and its poll ends.
BackgroundSell(s, k) ==
  /\ selling[s] > 0 /\ k <= selling[s] /\ k <= wallet[s]
  /\ wallet' = [wallet EXCEPT ![s] = @ - k]
  /\ selling' = [selling EXCEPT ![s] = 0]
  /\ UNCHANGED <<at, request, ledgerVars, engineVars, recent, cooldown, kill, opens>>

\* A BUY order that nobody watches any more, because it was replaced or given
\* up without a cancel, trades.
LateBuy(s) ==
  /\ opens > 0 /\ at # "executing"
  /\ Bought(s, 1)
  /\ UNCHANGED <<at, request, ledgerVars, engineVars, selling, recent, cooldown, kill, opens>>

TimePasses ==
  /\ recent' \in {recent, FALSE} /\ cooldown' \in {cooldown, FALSE}
  /\ UNCHANGED <<at, request, ledgerVars, engineVars, chainVars, kill, opens>>

\* handle_kill: the flag; cancel_all_orders() reaches no exchange (OrderEngine).
Kill ==
  /\ ~kill /\ kill' = TRUE
  /\ UNCHANGED <<at, request, ledgerVars, engineVars, chainVars, recent, cooldown, opens>>

---------------------------------------------------------------------------
NewTracker == [inventory |-> 0, side |-> Flat, cost |-> 0, balance |-> 0, realized |-> 0]

\* Balances are counted from HFT_DEPOSIT_USD.
Init ==
  /\ at = "top" /\ request = NoRequest
  /\ pnl = NewTracker /\ riskPnl = 0
  /\ confirmed = NoShares /\ rows = NoShares /\ wallet = NoShares /\ selling = NoShares
  /\ recent = FALSE /\ cooldown = FALSE /\ kill = FALSE /\ opens = 0

Shares == 0..Size

LoopNext ==
  \/ Proceed \/ Stop \/ Rollover \/ Hold \/ Close \/ ClearPhantom
  \/ \E s \in Side : Open(s) \/ \E px \in Prices : Reconcile(s, px)
  \/ \E f, left \in Shares, b \in 0..MaxHeld, px \in Prices : ExecuteFills(f, b, left, px)
  \/ \E b \in 0..MaxHeld, left \in Shares : ExecuteSkips(b, left) \/ ExecuteRaises(b, left)
  \/ \E r, k \in Shares, px \in Prices : CloseReports(r, k, px)
  \/ \E k \in Shares : CloseFails(k) \/ CloseRaises(k)

MeanwhileNext ==
  \/ \E s \in Side, k \in Shares : BackgroundSell(s, k)
  \/ \E s \in Side : LateBuy(s)
  \/ TimePasses \/ Kill

Next == LoopNext \/ MeanwhileNext

Spec == Init /\ [][Next]_vars

---------------------------------------------------------------------------
(* Properties. *)

\* Every variable has its type.
TypeOK ==
  /\ at \in {"top", "deciding", "executing", "closing", "stopped"}
  /\ request \in [side : Side \cup {Flat}, n : Nat]
  /\ pnl \in [inventory : Nat, side : Side \cup {Flat}, cost : Int, balance : Int, realized : Int]
  /\ riskPnl \in Int
  /\ confirmed \in [Side -> Nat] /\ rows \in [Side -> Nat]
  /\ wallet \in [Side -> Nat] /\ selling \in [Side -> Nat]
  /\ recent \in BOOLEAN /\ cooldown \in BOOLEAN /\ kill \in BOOLEAN
  /\ opens \in Nat

\* A fill the order engine remembers as confirmed is exactly the position the
\* PnL tracker holds, so that a CLOSE can never sell a fill of the other token
\* or of an earlier position.
LedgersAgree ==
  \A s \in Side : confirmed[s] > 0 => pnl.side = s /\ pnl.inventory = confirmed[s]

\* While close_position() runs it sells shares of the position's own token and
\* no more than the position, although it takes its size from the engine.
SellsThePosition ==
  at = "closing" => request.side = pnl.side /\ request.n <= pnl.inventory

\* No money appears or disappears in the PnL tracker, whatever is opened,
\* adopted, partly closed or force-cleared: the balance is the realized PnL
\* less what was paid and has not been realized yet.
MoneyIsConserved == pnl.balance = pnl.realized - pnl.cost

\* No BUY is placed once the realized session PnL is at or beyond the limit.
NoEntryBeyondLossLimit ==
  at = "executing" => IF MaxSessionLoss < 0 THEN riskPnl > MaxSessionLoss
                      ELSE riskPnl >= MaxSessionLoss
=============================================================================
