------------------------------ MODULE OrderEngine ------------------------------
(***************************************************************************)
(* The order lifecycle of core/live_engine.py for one outcome token, in    *)
(* live mode: execute() and close_position() place a GTC limit order and   *)
(* wait in _poll_order() for the order's OrderFSM to reach a terminal      *)
(* status; a single worker task (_event_worker) takes user-channel events  *)
(* and timer events from one queue and runs the FSMs, which reprice stale  *)
(* orders and finally leave through an emergency exit.                     *)
(*                                                                         *)
(* Three asyncio coroutines interleave at their awaits: the trading        *)
(* coroutine (`caller'), the event worker (`worker') and the background    *)
(* polls that emergency_exit() starts.  The exchange and the user channel  *)
(* are external: orders fill, are closed by the exchange, and their        *)
(* notifications may be delayed or lost.                                   *)
(*                                                                         *)
(* Sizes are whole shares and prices are left out: of a price only the     *)
(* outcome of the comparison the code makes is kept.  An order id is the   *)
(* position of the order in the exchange's order of arrival; a             *)
(* TrackedOrder is named by the id it was first placed under, which is     *)
(* also its key in _active_orders.                                         *)
(***************************************************************************)
EXTENDS Naturals, Sequences, FiniteSets, FiniteSetsExt

CONSTANTS
  Requests,      \* the kinds of request the caller makes, a subset of {"BUY", "SELL"}
  Size,          \* shares requested by execute() and held before a close_position()
  PolyMin,       \* POLY_CLOB_MIN_SHARES, the exchange's minimum GTC size
  MaxReprice,    \* LIVE_ORDER_MAX_REPRICE
  PlaceAttempts, \* LIVE_SELL_PLACE_ATTEMPTS
  FakAttempts,   \* LIVE_SELL_FAK_ATTEMPTS
  MaxOrders,     \* bound: orders the exchange receives in a behaviour
  MaxRequests,   \* bound: execute() and close_position() calls in a behaviour
  QueueCap       \* bound: queued events beyond which no WS event arrives

ASSUME OrderEngineAssumption ==
  /\ Requests \subseteq {"BUY", "SELL"}
  /\ Size \in Nat /\ PolyMin \in Nat /\ 0 < PolyMin /\ PolyMin <= Size
  /\ MaxReprice \in Nat /\ MaxOrders \in Nat
  /\ PlaceAttempts \in Nat \ {0} /\ FakAttempts \in Nat \ {0}
  /\ MaxRequests \in Nat /\ QueueCap \in Nat

VARIABLES
  exch,       \* the exchange's orders
  used,       \* number of order ids the exchange has given out
  held,       \* outcome shares in the wallet
  trk,        \* TrackedOrder objects, by the id they were created under
  fsms,       \* _fsms: order id -> the tracked order whose FSM is registered, or None
  active,     \* keys of _active_orders
  polls,      \* tracked orders a _poll_order() coroutine is waiting for
  done,       \* tracked orders whose FSM has set _done_event
  queue,      \* _event_queue
  batch,      \* FSMs the TimerEvent being handled has still to visit
  worker,     \* where _event_worker is: the await it is at, and for which order
  caller,     \* where the trading coroutine is
  confirmed,  \* _confirmed_buys[token], 0 when absent
  result      \* history: what the last request reported and what it really traded

engineVars == <<trk, fsms, active, polls, done, confirmed>>
exchVars == <<exch, used, held>>
workVars == <<queue, batch, worker>>
callVars == <<caller, result>>
vars == <<exchVars, engineVars, workVars, callVars>>

Id == 1..MaxOrders
None == 0
Terminal == {"FILLED", "CANCELLED", "FAILED", "STALE"}
Open == {"PENDING", "PARTIAL"}
Lesser(a, b) == IF a < b THEN a ELSE b
Greater(a, b) == IF a > b THEN a ELSE b
Minus(a, b) == IF a > b THEN a - b ELSE 0

\* Mutant of Remaining: what is filled already is bought again.
RemainingIgnoresFills(t) == trk[t].size

Remaining(t) == Minus(trk[t].size, trk[t].filled)
Quiet == [at |-> "idle", t |-> None, order |-> None, reply |-> "none"]
NewTracked(o, s, n, st, f) ==
  [side |-> s, size |-> n, filled |-> f, status |-> st, oid |-> o,
   reprices |-> 0, stale |-> FALSE]

\* All shares the exchange traded on the orders placed for one request.
Executed(root) ==
  SumFunctionOnSet([o \in Id |-> exch[o].matched], {o \in 1..used : exch[o].root = root})

---------------------------------------------------------------------------
(* The exchange and the user channel (external). *)

NoOrder == [side |-> "BUY", size |-> 0, matched |-> 0, st |-> "none",
            news |-> FALSE, root |-> None]

Traded(e, k) ==
  [e EXCEPT !.matched = @ + k, !.news = TRUE,
            !.st = IF e.matched + k = e.size THEN "matched" ELSE @]

\* A resting order trades k more shares; a message about it is due on the
\* user channel.
Fill(o, k) ==
  /\ exch[o].st = "live"
  /\ k <= exch[o].size - exch[o].matched
  /\ exch[o].side = "SELL" => k <= held
  /\ exch' = [exch EXCEPT ![o] = Traded(@, k)]
  /\ held' = IF exch[o].side = "BUY" THEN held + k ELSE held - k
  /\ UNCHANGED <<used, engineVars, workVars, callVars>>

\* The exchange closes a resting order itself (market resolved).
ExchangeCancels(o) ==
  /\ exch[o].st = "live"
  /\ exch' = [exch EXCEPT ![o] = [@ EXCEPT !.st = "canceled", !.news = TRUE]]
  /\ UNCHANGED <<used, held, engineVars, workVars, callVars>>

WsEvent(o, st, n) == [kind |-> "ws", oid |-> o, status |-> st, filled |-> n]
RestLive(o) == [kind |-> "rest", oid |-> o, status |-> "live", filled |-> 0]
Timer == [kind |-> "timer", oid |-> None, status |-> "tick", filled |-> 0]

\* The message about the latest change of an order arrives, unless the
\* channel never delivers it: a later change overtakes it, or nothing comes.
\* An order message (_apply_order_msg): CANCELLATION, or UPDATE with the
\* cumulative size_matched.
OrderMessageStatus(o) ==
  IF exch[o].st = "canceled" THEN "canceled"
  ELSE IF exch[o].matched = exch[o].size THEN "matched"
  ELSE IF exch[o].matched > 0 THEN "partially_matched" ELSE "live"

DeliverOrderMessage(o) ==
  /\ exch[o].news
  /\ Len(queue) < QueueCap
  /\ queue' = Append(queue, WsEvent(o, OrderMessageStatus(o), exch[o].matched))
  /\ exch' = [exch EXCEPT ![o].news = FALSE]
  /\ UNCHANGED <<used, held, engineVars, batch, worker, callVars>>

\* A trade message (_apply_trade_msg): reported as "matched" with the size
\* of one trade, whether or not the order is complete.
DeliverTradeMessage(o, k) ==
  /\ exch[o].news /\ k <= exch[o].matched
  /\ Len(queue) < QueueCap
  /\ queue' = Append(queue, WsEvent(o, "matched", k))
  /\ exch' = [exch EXCEPT ![o].news = FALSE]
  /\ UNCHANGED <<used, held, engineVars, batch, worker, callVars>>

\* The POST of a GTC order of n shares reaches the exchange.  `how' is
\* "resting", "matched" (traded at once), "orphan" (accepted, but the answer
\* is lost, so the client sees an exception) or "rejected".
Post(s, n, root, how) ==
  LET o == used + 1
      immediate == how = "matched"
  IN \/ /\ how = "rejected"
        /\ UNCHANGED exchVars
     \/ /\ how # "rejected"
        /\ n >= PolyMin /\ used < MaxOrders
        /\ s = "SELL" => n <= held
        /\ used' = o
        /\ exch' = [exch EXCEPT ![o] =
              [side |-> s, size |-> n, matched |-> IF immediate THEN n ELSE 0,
               st |-> IF immediate THEN "matched" ELSE "live",
               news |-> immediate, root |-> IF root = None THEN o ELSE root]]
        /\ held' = IF ~immediate THEN held
                   ELSE IF s = "BUY" THEN held + n ELSE held - n

Hows == {"resting", "matched", "orphan", "rejected"}
Placed(how) == IF how = "rejected" THEN None ELSE used + 1
Reply(how) == IF how \in {"resting", "matched"} THEN how ELSE "none"

\* _place_fak_sell: k of the n shares are really sold and r is what the call
\* returns.  0: the request was refused or raised an exception.  k: the fill
\* lookup saw the sale.  n: the exchange answered with an order id but the
\* lookup read a zero fill, and the code returns the requested size.
FakSell(n, k, r) ==
  /\ k <= n /\ k <= held
  /\ r \in {0, k, n}
  /\ held' = held - k

---------------------------------------------------------------------------
(* Time. *)

\* LIVE_ORDER_STALE_SEC pass since placed_at without a reset.
BecomeStale(t) ==
  /\ t \in polls /\ trk[t].status \in Open /\ ~trk[t].stale
  /\ trk' = [trk EXCEPT ![t].stale = TRUE]
  /\ UNCHANGED <<exchVars, fsms, active, polls, done, confirmed, workVars, callVars>>

\* _order_timer of any running poll.  A tick that would find no stale order
\* does nothing and is left out, as is one that follows a tick not yet handled.
Tick ==
  /\ \E t \in polls : trk[t].stale
  /\ \A i \in 1..Len(queue) : queue[i].kind # "timer"
  /\ queue' = Append(queue, Timer)
  /\ UNCHANGED <<exchVars, engineVars, batch, worker, callVars>>

---------------------------------------------------------------------------
(* The event worker: order events. *)

\* _handle_ws_order and, in live mode, _handle_rest_response (its only event
\* is the "live" one, which stamps ack_ts).
Handle(r, e) ==
  IF e.kind = "rest" \/ e.status = "live" THEN r
  ELSE IF e.status = "matched"
    THEN [r EXCEPT !.status = "FILLED", !.filled = Lesser(r.size, e.filled)]
  ELSE IF e.status = "canceled"
    THEN [r EXCEPT !.status = "CANCELLED", !.filled = e.filled]
  ELSE [r EXCEPT !.status = "PARTIAL", !.filled = Lesser(r.size, e.filled),
                 !.stale = FALSE]

\* Mutant of Ignored: transition() without its early return.
IgnoredIfUnknown(t) == t = None

\* An event is dropped when no FSM has the id, and by transition() when the
\* order is already terminal.
Ignored(t) == t = None \/ trk[t].status \in Terminal

\* A WsOrderEvent or RestResponseEvent.
TakeOrderEvent ==
  /\ worker.at = "idle" /\ queue # <<>>
  /\ LET e == Head(queue)
         t == fsms[e.oid]
     IN /\ e.kind \in {"ws", "rest"}
        /\ IF Ignored(t) THEN UNCHANGED <<trk, done>>
           ELSE /\ trk' = [trk EXCEPT ![t] = Handle(trk[t], e)]
                /\ done' = IF Handle(trk[t], e).status \in Terminal
                           THEN done \cup {t} ELSE done
  /\ queue' = Tail(queue)
  /\ UNCHANGED <<exchVars, fsms, active, polls, confirmed, batch, worker, callVars>>

\* A TimerEvent goes to every registered FSM, one after the other.
TakeTimer ==
  /\ worker.at = "idle" /\ queue # <<>>
  /\ Head(queue).kind = "timer"
  /\ queue' = Tail(queue)
  /\ batch' = {fsms[o] : o \in Id} \ {None}
  /\ worker' = [Quiet EXCEPT !.at = "timer"]
  /\ UNCHANGED <<exchVars, engineVars, callVars>>

TimerDone ==
  /\ worker.at = "timer" /\ batch = {}
  /\ worker' = Quiet
  /\ UNCHANGED <<exchVars, engineVars, queue, batch, callVars>>

\* Mutant of IsStale: a partially filled order never times out.
IsStaleIfPending(t) == trk[t].stale /\ trk[t].status = "PENDING"

\* is_stale
IsStale(t) == trk[t].stale /\ trk[t].status \in Open

TimerSkips(t) ==
  /\ worker.at = "timer" /\ t \in batch
  /\ ~IsStale(t)
  /\ batch' = batch \ {t}
  /\ UNCHANGED <<exchVars, engineVars, queue, worker, callVars>>

---------------------------------------------------------------------------
(* The event worker: _reprice_or_emergency for the stale order t.  Every   *)
(* `worker.at' other than "idle" and "timer" names an await inside it.     *)
(* _cancel_order() is called where the code calls it but sends nothing:    *)
(* on the thread of a running loop its run_until_complete() raises, the    *)
(* exception is caught, and the result is ignored.                         *)

BuyDust(t) == /\ trk[t].side = "BUY" /\ trk[t].status = "PARTIAL"
              /\ 0 < trk[t].filled /\ trk[t].filled < PolyMin
SellDust(t) == /\ trk[t].side = "SELL" /\ trk[t].status = "PARTIAL"
               /\ 0 < Remaining(t) /\ Remaining(t) < PolyMin

\* Mutant of Exhausted: one reprice too many.
ExhaustedLate(t) == trk[t].reprices > MaxReprice

\* The reprice limit is used up.
Exhausted(t) == trk[t].reprices >= MaxReprice

At(p, t) == [Quiet EXCEPT !.at = p, !.t = t]
Resume == [Quiet EXCEPT !.at = "timer"]

\* The first decisions, up to the first await.
StartReprice(t) ==
  /\ worker.at = "timer" /\ t \in batch /\ IsStale(t)
  /\ batch' = batch \ {t}
  /\ \/ /\ BuyDust(t)
        /\ worker' = At("abortFak", t)
        /\ UNCHANGED <<trk, done>>
     \/ /\ SellDust(t)
        /\ worker' = At("dustFak", t)
        /\ UNCHANGED <<trk, done>>
     \/ /\ ~BuyDust(t) /\ ~SellDust(t) /\ Exhausted(t)
        /\ trk' = [trk EXCEPT ![t].status = "STALE"]
        /\ IF Remaining(t) = 0
             THEN worker' = Resume /\ done' = done \cup {t}
             ELSE worker' = At(IF trk[t].side = "SELL" THEN "emergencyFak"
                               ELSE "emergencyPrices", t)
                  /\ UNCHANGED done
     \/ /\ ~BuyDust(t) /\ ~SellDust(t) /\ ~Exhausted(t)
        /\ worker' = At("prices", t)
        /\ UNCHANGED <<trk, done>>
  /\ UNCHANGED <<exchVars, fsms, active, polls, confirmed, queue, callVars>>

\* A FAK sale answers: the partial BUY below the minimum is sold off and the
\* entry abandoned; the SELL remainder below the minimum, or what is left
\* after the last reprice, is sold.
Added(tr, n) == [tr EXCEPT !.filled = @ + n]
GivenUp(tr) == [tr EXCEPT !.filled = 0, !.status = "CANCELLED"]
AfterFak(tr, r) ==
  CASE worker.at = "abortFak" -> GivenUp(tr)
    [] worker.at = "dustFak" -> [tr EXCEPT !.filled = @ + r, !.status = "FILLED"]
    [] OTHER -> Added(tr, r)

FakDone(t, k, r) ==
  LET n == IF worker.at = "abortFak" THEN trk[t].filled ELSE Remaining(t)
  IN /\ worker.at \in {"abortFak", "dustFak", "emergencyFak"} /\ worker.t = t
     /\ FakSell(n, k, r)
     /\ trk' = [trk EXCEPT ![t] = AfterFak(@, r)]
     /\ done' = done \cup {t}
     /\ worker' = Resume
     /\ UNCHANGED <<exch, used, fsms, active, polls, confirmed, queue, batch, callVars>>

\* get_best_prices() answers: the BUY would slip too far, or the new price is
\* within 0.001 of the old one, or the order is to be replaced.
PriceKept(tr) == [tr EXCEPT !.reprices = @ + 1, !.stale = FALSE]

PricesDone(t) ==
  /\ worker.at = "prices" /\ worker.t = t
  /\ \/ /\ trk[t].side = "BUY"
        /\ trk' = [trk EXCEPT ![t] = GivenUp(@)]
        /\ done' = done \cup {t} /\ worker' = Resume
     \/ /\ trk' = [trk EXCEPT ![t] = PriceKept(@)]
        /\ done' = IF trk[t].status \in Terminal THEN done \cup {t} ELSE done
        /\ worker' = Resume
     \/ /\ worker' = At("recover", t)
        /\ UNCHANGED <<trk, done>>
  /\ UNCHANGED <<exchVars, fsms, active, polls, confirmed, queue, batch, callVars>>

\* What _get_order_fill(o) may answer: an API failure, the user cache's last
\* order message, its last trade message ("matched" with one trade's size),
\* or the exchange's record.
FillReports(o) ==
  {[st |-> "unknown", n |-> 0]}
  \cup [st : {"live"}, n : 0..exch[o].matched]
  \cup [st : {"matched"}, n : 1..exch[o].matched]
  \cup IF exch[o].st = "canceled" THEN {[st |-> "canceled", n |-> exch[o].matched]} ELSE {}

\* _recover_fill_after_cancel applies a report to the tracked order.
Recovered(r, rep) ==
  IF rep.st = "matched" \/ rep.n >= r.size
    THEN [r EXCEPT !.status = "FILLED", !.filled = Lesser(r.size, Greater(@, rep.n))]
  ELSE IF rep.n > r.filled THEN [r EXCEPT !.status = "PARTIAL", !.filled = rep.n]
  ELSE r

\* Back in _reprice_or_emergency the answer of the recovery is not used: a
\* replacement is placed whenever shares remain.
ReplaceOrFinish(t, r) ==
  IF r.filled >= r.size
    THEN /\ trk' = [trk EXCEPT ![t] = [r EXCEPT !.status = "FILLED"]]
         /\ done' = done \cup {t} /\ worker' = Resume
    ELSE /\ trk' = [trk EXCEPT ![t] = [r EXCEPT !.reprices = @ + 1]]
         /\ worker' = At("place", t) /\ UNCHANGED done

RecoverDone(t) ==
  /\ worker.at = "recover" /\ worker.t = t
  /\ \E rep \in FillReports(trk[t].oid) :
       LET r == Recovered(trk[t], rep)
           rem == Minus(r.size, r.filled)
       IN IF r.status = "PARTIAL" /\ r # trk[t] /\ r.side = "SELL" /\ 0 < rem /\ rem < PolyMin
            THEN /\ trk' = [trk EXCEPT ![t] = r]
                 /\ worker' = At("recoverFak", t) /\ UNCHANGED done
            ELSE ReplaceOrFinish(t, r)
  /\ UNCHANGED <<exchVars, fsms, active, polls, confirmed, queue, batch, callVars>>

RecoverFakDone(t, k, r) ==
  /\ worker.at = "recoverFak" /\ worker.t = t
  /\ FakSell(Remaining(t), k, r)
  /\ ReplaceOrFinish(t, [trk[t] EXCEPT !.filled = @ + r, !.status = "FILLED"])
  /\ UNCHANGED <<exch, used, fsms, active, polls, confirmed, queue, batch, callVars>>

\* The replacement's POST reaches the exchange, then its answer arrives.
Replace(t, how) ==
  /\ worker.at = "place" /\ worker.t = t
  /\ Post(trk[t].side, Remaining(t), exch[t].root, how)
  /\ worker' = [at |-> "placed", t |-> t, order |-> Placed(how), reply |-> Reply(how)]
  /\ UNCHANGED <<engineVars, queue, batch, callVars>>

\* Mutant of Rekey: the replaced id keeps its entry.
RekeyKeepsOld(t, o) == fsms' = [fsms EXCEPT ![o] = t]

\* _fsms.pop(old_id); _fsms[new_id] = self.
Rekey(t, o) == fsms' = [fsms EXCEPT ![trk[t].oid] = None, ![o] = t]

\* On success the FSM moves to the new id; filled_size is left as it was and
\* _active_orders keeps the row under the old key.
ReplaceDone(t) ==
  LET o == worker.order
  IN /\ worker.at = "placed" /\ worker.t = t
     /\ IF worker.reply = "none"
          THEN /\ trk' = [trk EXCEPT ![t].status = "FAILED"]
               /\ done' = done \cup {t}
               /\ UNCHANGED <<fsms, queue>>
          ELSE LET st == IF worker.reply = "matched" THEN "FILLED" ELSE "PENDING"
               IN /\ trk' = [trk EXCEPT ![t] = [@ EXCEPT !.oid = o, !.stale = FALSE, !.status = st]]
                  /\ Rekey(t, o)
                  /\ done' = IF st = "FILLED" THEN done \cup {t} ELSE done
                  /\ queue' = IF st = "FILLED" THEN queue ELSE Append(queue, RestLive(o))
     /\ worker' = Resume
     /\ UNCHANGED <<exchVars, active, polls, confirmed, batch, callVars>>

\* _emergency_exit_order for a BUY: best prices, then a crossing GTC order of
\* the remaining size (the balance query answers None on this thread, so the
\* size is never reduced); below the minimum nothing is placed.
EmergencyBuy(t, how) ==
  /\ worker.at = "emergencyPrices" /\ worker.t = t
  /\ Remaining(t) < PolyMin => how = "rejected"
  /\ Post("BUY", Remaining(t), exch[t].root, how)
  /\ worker' = [at |-> "emergencyPlaced", t |-> t, order |-> Placed(how), reply |-> Reply(how)]
  /\ UNCHANGED <<engineVars, queue, batch, callVars>>

\* When the emergency order rests, the worker itself waits in _poll_order()
\* for the new FSM.  No action leaves "emergencyWait": only the worker could
\* set that FSM's _done_event.
EmergencyBuyDone(t) ==
  LET o == worker.order
      n == Remaining(t)
  IN /\ worker.at = "emergencyPlaced" /\ worker.t = t
     /\ \/ /\ worker.reply = "none"
           /\ done' = done \cup {t} /\ worker' = Resume
           /\ UNCHANGED <<trk, fsms, active, polls>>
        \/ /\ worker.reply = "matched"
           /\ trk' = [trk EXCEPT ![t] = Added(@, n),
                                 ![o] = NewTracked(o, "BUY", n, "FILLED", n)]
           /\ active' = active \cup {o}
           /\ done' = done \cup {t} /\ worker' = Resume
           /\ UNCHANGED <<fsms, polls>>
        \/ /\ worker.reply = "resting"
           /\ trk' = [trk EXCEPT ![o] = NewTracked(o, "BUY", n, "PENDING", 0)]
           /\ active' = active \cup {o}
           /\ polls' = polls \cup {o}
           /\ fsms' = [fsms EXCEPT ![o] = o]
           /\ worker' = [worker EXCEPT !.at = "emergencyWait"]
           /\ UNCHANGED done
     /\ UNCHANGED <<exchVars, confirmed, queue, batch, callVars>>

---------------------------------------------------------------------------
(* The trading coroutine: execute(), close_position(), emergency_exit().   *)

Idle == [at |-> "idle", side |-> "BUY", order |-> None, reply |-> "none", size |-> 0, tries |-> 0]
NewResult(s, root) == [n |-> result.n + 1, side |-> s, root |-> root, reported |-> 0]

\* _poll_order() starts: FSM registered, timer running.
StartPoll(o) == polls' = polls \cup {o} /\ fsms' = [fsms EXCEPT ![o] = o]

\* Mutant of EndPoll: the `finally' uses the id the order was placed under.
EndPollOfFirstId(t) ==
  /\ t \in polls /\ t \in done
  /\ polls' = polls \ {t}
  /\ fsms' = [fsms EXCEPT ![t] = None]
  /\ active' = active \ {t}

\* _poll_order() of t ends: its `finally' removes the current id from both maps.
EndPoll(t) ==
  /\ t \in polls /\ t \in done
  /\ polls' = polls \ {t}
  /\ fsms' = [fsms EXCEPT ![trk[t].oid] = None]
  /\ active' = active \ {trk[t].oid}

\* Mutant of FilledShares: the order's size is taken for its fill.
FilledAsRequested(r) == r.size

\* The fill both callers read off the tracked order when the poll has ended.
FilledShares(r) == IF r.filled > 0 THEN r.filled
                   ELSE IF r.status = "FILLED" THEN r.size ELSE 0

\* can_enter_position
CanEnterPosition ==
  /\ \A t \in active : ~(trk[t].side = "BUY" /\ trk[t].status \in Open)
  /\ confirmed < PolyMin

\* execute(): the entry gates pass and the BUY is posted.
Execute(how) ==
  /\ "BUY" \in Requests /\ caller.at = "idle" /\ CanEnterPosition
  /\ result.n < MaxRequests
  /\ Post("BUY", Size, None, how)
  /\ caller' = [at |-> "posted", side |-> "BUY", order |-> Placed(how),
                reply |-> Reply(how), size |-> Size, tries |-> 0]
  /\ result' = NewResult("BUY", Placed(how))
  /\ UNCHANGED <<engineVars, workVars>>

\* close_position(): SELL what the confirmed BUY says.
ClosePosition ==
  /\ "SELL" \in Requests /\ caller.at = "idle" /\ confirmed > 0
  /\ result.n < MaxRequests
  /\ caller' = [Idle EXCEPT !.at = "placing", !.side = "SELL", !.size = confirmed,
                            !.tries = PlaceAttempts]
  /\ result' = NewResult("SELL", None)
  /\ UNCHANGED <<exchVars, engineVars, workVars>>

\* An attempt to place its GTC order.
PlaceSell(how) ==
  /\ caller.at = "placing"
  /\ Post("SELL", caller.size, result.root, how)
  /\ caller' = [caller EXCEPT !.at = "posted", !.order = Placed(how), !.reply = Reply(how),
                              !.tries = @ - 1]
  /\ result' = IF result.root = None THEN [result EXCEPT !.root = Placed(how)] ELSE result
  /\ UNCHANGED <<engineVars, workVars>>

\* execute() after the order's end: a CANCELLED or FAILED order and a zero fill
\* are a skip, of any other fill the balances are asked.
BuyReturns(r) ==
  LET f == FilledShares(r)
  IN caller' = IF r.status \in {"CANCELLED", "FAILED"} \/ f = 0 THEN Idle
               ELSE [caller EXCEPT !.at = "confirming", !.size = f]

\* They answer; none ever confirms the fill.  In strict mode, or when the USDC
\* balance does not show the debit, execute() drops every BUY of the token and
\* skips.  Otherwise a fill below the minimum is sold off, and any other is
\* trusted and becomes the confirmed BUY.
BuyConfirms ==
  LET f == caller.size
  IN /\ caller.at = "confirming"
     /\ \/ /\ caller' = Idle
           /\ active' = {t \in active : trk[t].side # "BUY"} /\ confirmed' = 0
           /\ UNCHANGED result
        \/ /\ f < PolyMin
           /\ caller' = [caller EXCEPT !.at = "residual"]
           /\ UNCHANGED <<active, confirmed, result>>
        \/ /\ f >= PolyMin
           /\ caller' = Idle
           /\ active' = active \ {trk[caller.order].oid} /\ confirmed' = f
           /\ result' = [result EXCEPT !.reported = f]
     /\ UNCHANGED <<exchVars, trk, fsms, polls, done, workVars>>

\* close_position() reports f sold shares; whether or not f > 0, the main loop
\* then calls clear_filled_buy() (and on f = 0 force-clears its position).
SellReturns(f) ==
  /\ caller' = Idle
  /\ confirmed' = 0
  /\ result' = [result EXCEPT !.reported = f]

\* The answer to the POST.  A BUY that matched at once is not polled; a SELL
\* always is.
PostReply ==
  LET o == caller.order
      n == caller.size
  IN /\ caller.at = "posted"
     /\ \/ /\ caller.reply = "none" /\ caller.side = "BUY"
           /\ caller' = Idle
           /\ UNCHANGED <<trk, fsms, active, polls, queue>>
        \/ /\ caller.reply = "none" /\ caller.side = "SELL"
           /\ caller' = IF caller.tries > 0 THEN [caller EXCEPT !.at = "placing", !.order = None]
                        ELSE [caller EXCEPT !.at = "fallbackFak", !.order = None,
                                            !.tries = FakAttempts]
           /\ UNCHANGED <<trk, fsms, active, polls, queue>>
        \/ /\ caller.reply = "matched" /\ caller.side = "BUY"
           /\ trk' = [trk EXCEPT ![o] = NewTracked(o, "BUY", n, "FILLED", n)]
           /\ active' = active \cup {o}
           /\ BuyReturns(NewTracked(o, "BUY", n, "FILLED", n))
           /\ UNCHANGED <<fsms, polls, queue>>
        \/ /\ caller.reply = "resting" \/ (caller.reply = "matched" /\ caller.side = "SELL")
           /\ trk' = [trk EXCEPT ![o] = NewTracked(o, caller.side, n, "PENDING", 0)]
           /\ active' = active \cup {o}
           /\ StartPoll(o)
           /\ queue' = IF caller.side = "BUY" THEN Append(queue, RestLive(o)) ELSE queue
           /\ caller' = [caller EXCEPT !.at = "polling", !.tries = 0]
     /\ UNCHANGED <<exchVars, done, confirmed, batch, worker, result>>

PollReturns ==
  LET t == caller.order
  IN /\ caller.at = "polling"
     /\ EndPoll(t)
     /\ IF caller.side = "BUY" THEN BuyReturns(trk[t]) /\ UNCHANGED <<confirmed, result>>
        ELSE SellReturns(FilledShares(trk[t]))
     /\ UNCHANGED <<exchVars, trk, done, workVars>>

\* The FAK sale of a BUY fill below the minimum; execute() then skips.
ResidualDone(k, r) ==
  /\ caller.at = "residual"
  /\ FakSell(caller.size, k, r)
  /\ active' = active \ {trk[caller.order].oid}
  /\ caller' = Idle
  /\ UNCHANGED <<exch, used, trk, fsms, polls, done, confirmed, workVars, result>>

\* No GTC SELL could be placed: FAK, again and again, and when none reports
\* anything, emergency_exit().  Its first part ends every order of the token and
\* drops the rows of their current ids.
FallbackFakDone(k, r) ==
  /\ caller.at = "fallbackFak"
  /\ FakSell(caller.size, k, r)
  /\ \/ /\ r > 0
        /\ SellReturns(r)
        /\ UNCHANGED <<trk, active>>
     \/ /\ r = 0 /\ caller.tries > 1
        /\ caller' = [caller EXCEPT !.tries = @ - 1]
        /\ UNCHANGED <<trk, active, confirmed, result>>
     \/ /\ r = 0 /\ caller.tries <= 1
        /\ caller' = [caller EXCEPT !.at = "exit", !.tries = 0]
        /\ trk' = [t \in Id |-> IF t \in active THEN [trk[t] EXCEPT !.status = "CANCELLED"]
                                ELSE trk[t]]
        /\ active' = active \ {trk[t].oid : t \in active}
        /\ UNCHANGED <<confirmed, result>>
  /\ UNCHANGED <<exch, used, fsms, polls, done, workVars>>

\* emergency_exit() posts a crossing GTC SELL ...
ExitPost(how) ==
  /\ caller.at = "exit"
  /\ Post("SELL", caller.size, result.root, how)
  /\ caller' = [caller EXCEPT !.at = "exitPosted", !.order = Placed(how), !.reply = Reply(how)]
  /\ UNCHANGED <<engineVars, workVars, result>>

\* ... and leaves a background poll behind; close_position() reports (0, 0).
ExitReply ==
  LET o == caller.order
      n == caller.size
      st == IF caller.reply = "matched" THEN "FILLED" ELSE "PENDING"
  IN /\ caller.at = "exitPosted"
     /\ \/ /\ caller.reply = "none"
           /\ UNCHANGED <<trk, fsms, active, polls>>
        \/ /\ caller.reply # "none"
           /\ trk' = [trk EXCEPT ![o] = NewTracked(o, "SELL", n, st, IF st = "FILLED" THEN n ELSE 0)]
           /\ active' = active \cup {o}
           /\ IF st = "PENDING" THEN StartPoll(o) ELSE UNCHANGED <<polls, fsms>>
     /\ SellReturns(0)
     /\ UNCHANGED <<exchVars, done, workVars>>

\* A background poll of emergency_exit() ends.
BackgroundPollReturns(t) ==
  /\ caller.at = "polling" => t # caller.order
  /\ EndPoll(t)
  /\ UNCHANGED <<exchVars, trk, done, confirmed, workVars, callVars>>

---------------------------------------------------------------------------
\* A BUY run starts flat; a SELL run starts after a confirmed BUY of Size.
Init ==
  /\ exch = [o \in Id |-> NoOrder]
  /\ used = 0
  /\ trk = [o \in Id |-> NewTracked(o, "BUY", 0, "IDLE", 0)]
  /\ fsms = [o \in Id |-> None]
  /\ active = {} /\ polls = {} /\ done = {}
  /\ queue = <<>> /\ batch = {} /\ worker = Quiet
  /\ caller = Idle
  /\ \/ "BUY" \in Requests /\ held = 0 /\ confirmed = 0
     \/ "SELL" \in Requests /\ held = Size /\ confirmed = Size
  /\ result = [n |-> 0, side |-> "BUY", root |-> None, reported |-> 0]

ExchangeNext == \E o \in Id : \/ \E k \in 1..Size : Fill(o, k)
                              \/ ExchangeCancels(o)
                              \/ DeliverOrderMessage(o)
                              \/ \E k \in 1..Size : DeliverTradeMessage(o, k)

WorkerNext ==
  \/ TakeOrderEvent \/ TakeTimer \/ TimerDone
  \/ \E t \in Id :
       \/ TimerSkips(t) \/ StartReprice(t) \/ PricesDone(t) \/ RecoverDone(t)
       \/ \E k, r \in 0..Size : FakDone(t, k, r) \/ RecoverFakDone(t, k, r)
       \/ \E how \in Hows : Replace(t, how) \/ EmergencyBuy(t, how)
       \/ ReplaceDone(t) \/ EmergencyBuyDone(t)

CallerNext ==
  \/ \E how \in Hows : Execute(how) \/ PlaceSell(how) \/ ExitPost(how)
  \/ ClosePosition \/ PostReply \/ PollReturns \/ BuyConfirms \/ ExitReply
  \/ \E k, r \in 0..Size : ResidualDone(k, r) \/ FallbackFakDone(k, r)

PollNext == \E t \in Id : BackgroundPollReturns(t)

TimeNext == Tick \/ \E t \in Id : BecomeStale(t)

Next == ExchangeNext \/ WorkerNext \/ CallerNext \/ PollNext \/ TimeNext

Spec == Init /\ [][Next]_vars

\* The event loop keeps running the worker and the callers, every HTTP call
\* returns, timers fire and time passes.  Nothing is assumed of the exchange
\* or of the user channel.
CallerContinues ==
  \/ \E how \in Hows : PlaceSell(how) \/ ExitPost(how)
  \/ PostReply \/ PollReturns \/ BuyConfirms \/ ExitReply
  \/ \E k, r \in 0..Size : ResidualDone(k, r) \/ FallbackFakDone(k, r)
Fairness ==
  /\ WF_vars(WorkerNext) /\ WF_vars(CallerContinues) /\ WF_vars(PollNext)
  /\ WF_vars(Tick) /\ \A t \in Id : WF_vars(BecomeStale(t))

FairSpec == Spec /\ Fairness

---------------------------------------------------------------------------
(* Properties. *)

\* Every variable has its type; in particular event and order ids, and the
\* orders the worker and the caller are at, are ids the exchange can give out.
Statuses == {"IDLE", "PENDING", "PARTIAL"} \cup Terminal
TrackedOrder == [side : {"BUY", "SELL"}, size : Nat, filled : Nat, status : Statuses,
                 oid : Id, reprices : Nat, stale : BOOLEAN]
ExchangeOrder == [side : {"BUY", "SELL"}, size : Nat, matched : Nat,
                  st : {"none", "live", "matched", "canceled"},
                  news : BOOLEAN, root : Id \cup {None}]
OrderEvent == [kind : {"ws", "rest"}, oid : Id, filled : Nat,
               status : {"live", "matched", "partially_matched", "canceled"}]
WorkerPlaces == {"idle", "timer", "abortFak", "dustFak", "emergencyFak", "prices",
                 "recover", "recoverFak", "place", "placed", "emergencyPrices",
                 "emergencyPlaced", "emergencyWait"}
CallerPlaces == {"idle", "placing", "posted", "polling", "confirming", "residual",
                 "fallbackFak", "exit", "exitPosted"}
Replies == {"resting", "matched", "none"}
TypeOK ==
  /\ exch \in [Id -> ExchangeOrder] /\ used \in 0..MaxOrders /\ held \in Nat
  /\ trk \in [Id -> TrackedOrder] /\ fsms \in [Id -> Id \cup {None}]
  /\ active \subseteq Id /\ polls \subseteq Id /\ done \subseteq Id
  /\ queue \in Seq(OrderEvent \cup {Timer}) /\ batch \subseteq Id
  /\ worker \in [at : WorkerPlaces, t : Id \cup {None}, order : Id \cup {None}, reply : Replies]
  /\ caller \in [at : CallerPlaces, side : {"BUY", "SELL"}, order : Id \cup {None},
                 reply : Replies, size : Nat, tries : Nat]
  /\ confirmed \in Nat
  /\ result \in [side : {"BUY", "SELL"}, root : Id \cup {None}, reported : Nat, n : Nat]

\* execute() never reports, and never records in _confirmed_buys, more shares
\* than the exchange traded on the orders placed for that request, whatever
\* was repriced, lost, duplicated or raced with an emergency order.
NoPhantomFill ==
  result.side = "BUY" /\ result.reported > 0
     => result.reported <= Executed(result.root)

\* execute() never reports more shares than it was asked to buy, although
\* replacements and the emergency order may really buy more: the trading loop
\* may take what it reports as at most one order size.
ReportedWithinRequest == result.side = "BUY" => result.reported <= Size

\* While a poll waits, its FSM is registered under the order's current id (and
\* no other), so events and timer ticks can still reach it.
WaitingOrdersAreRegistered ==
  \A t \in polls \ done : \A o \in Id : fsms[o] = t <=> o = trk[t].oid

\* An id stays in _fsms only while a poll of its FSM is running.
NoOrphanFsm == \A o \in Id : fsms[o] # None => fsms[o] \in polls

\* A row of _active_orders that still reads PENDING or PARTIAL has a running
\* poll: has_pending_buy/sell and can_enter_position cannot stay blocked on an
\* order nobody watches.
PendingRowsAreWatched ==
  \A t \in active : trk[t].status \in Open => t \in polls

\* One execute() makes the exchange accept at most the first order, one per reprice
\* and one emergency order; one close_position() an order per attempt to place one, the
\* answers of which may be lost, an emergency order when all were, and one per reprice
\* of the order it knows of.
OrdersPerRequest ==
  \A o \in 1..used :
    Cardinality({p \in 1..used : exch[p].root = o})
      <= IF exch[o].side = "BUY" THEN MaxReprice + 2
         ELSE PlaceAttempts + 1 + MaxReprice

\* A caller is only woken when its order's status is final.
WokenWithFinalStatus ==
  \A t \in done : trk[t].status \in Terminal

\* close_position() eventually returns, even if every message of the user
\* channel is lost: the stale timer drives the order to a terminal status.
SellReturnsEventually ==
  (caller.at # "idle" /\ caller.side = "SELL") ~> (caller.at = "idle")

---------------------------------------------------------------------------
(* What the repository says of the program and the code does not keep.     *)

\* execute(): "Blocks until the order reaches a terminal state (filled, stale
\* after reprice, or failed)" - it then returns.
BuyReturnsEventually ==
  (caller.at # "idle" /\ caller.side = "BUY") ~> (caller.at = "idle")
=============================================================================
