# A TLA+ development of hft_polymarket_bot

The bot trades the two outcome tokens (UP and DOWN) of Polymarket's five-minute markets.
These modules describe the parts of it that decide on trades, follow the markets, place orders and
keep accounts of them, as state machines translated from the Python source, with the properties TLC checks on small instances
and the ones TLAPS proves for every instance. Paths are relative to the repository
(`core/live_engine.py` is `src/core/live_engine.py` in `PROJECT.json`).

To repeat the work: `tlc -workers 2 -config Orders.cfg MCOrderEngine.tla`, and
`tlapm OrderEngine_proofs.tla`. `PROJECT.json` lists every run, and for every definition the lines
it was translated from.

## 1. The system

One asyncio event loop runs everything; blocking HTTP calls go to worker threads.

| component | state | operations | talks to |
|---|---|---|---|
| Main loop (`bot_main_loop.py`) | current market, session clock, flags | poll feeds, ask the strategy, open, close, adopt, force-clear, roll over, stop | all others |
| Live order engine (`core/live_engine.py`, `core/live_common.py`) | `_active_orders`, `_fsms`, `_event_queue`, `_confirmed_buys` | `execute`, `close_position`, `emergency_exit`, FSM handlers, reprice, recovery | exchange REST, user channel, breaker, caches |
| PnL tracker (`core/executor.py`) | inventory, side, cost, balance, realized PnL | `live_open`, `live_close`; a simulated exchange for paper trading | main loop, strategy |
| Risk limits (`core/live_common.py`, `core/risk_engine.py`) | session PnL; peak equity, cooldown | loss test, drawdown stop | main loop |
| Circuit breaker (`utils/resilience.py`) | state, failures, last failure | `call` around each placement | order engine |
| Market book cache (`data/clob_market_ws.py`) | levels, numbers, snapshot and its dirty flag | apply messages, snapshots, HTTP fallback | market channel, main loop, order engine |
| User order cache (`data/clob_user_ws.py`) | rows, states, pending orders, waiters' events | apply messages, `get_order_fill`, waits | user channel, order engine |
| Feed connections (both files' `run_forever`) | endpoint, failure count, server numbers | connect, back off, turn to the backup | exchange |
| Allowance cache (`data/balance_cache.py`) | entries, refresh queue | ensure before a SELL, refresh in the background | order engine, main loop |
| Trade journal (`utils/trade_journal.py`) | queue, writer task, CSV file | queue a row, write, stop and flush | main loop |
| Strategy engine (`core/engine*.py`, `core/market_phase.py`, `core/strategies`) | trend, entry clock, trailing marks, context of the entry, last mids | `process_tick`; `apply_live_entry_after_fill`, `rollback_live_open_signal`, `reset_for_new_market` | hub, tracker, main loop |
| Strategy hub (`core/strategy_hub.py`) | active strategy | dispatch, merge of several decisions | main loop |
| Market regime (`core/market_regime.py`) | rolling windows, candidate regime | `update` per tick | strategy engine |
| Session profile (`core/session_profile.py`) | day or night | apply a set of variables | main loop, engine |
| Market selection (`core/selector.py`, `bot_main_loop.py`) | slot, tokens, price to beat, subscriptions | look the slot's market up, change the tokens | main loop, channels, engine |
| Oracle book (`data/poly_clob.py`) | quotes, oracle price, one `connect()` task per book | follow the oracle; a background task stores fetched quotes | main loop |
| Price feeds (`data/aggregator.py`, `data/providers.py`) | last price per venue | weighted price | main loop |
| Task monitor (`utils/resilience.py`) | counters per task name | `safe_task` around background tasks | background tasks |
| Kill switch (`core/kill_switch_server.py`) | - | HTTP endpoint that asks the loop to stop | main loop |
| ML, statistics, configuration, logging, scripts | - | no part in the order flow | - |

What makes the code hard to get right:

* *Interleavings.* The trading coroutine, the event worker, background polls and worker threads share
  the order engine's dictionaries; an order changes its id in the middle of a reprice.
* *Ordering and loss.* An order's update and its trades come in either order, are lost while a socket
  is down, and a new connection may lag behind the old one.
* *Partial failure.* A cancel that is not sent, a FAK order that matches nothing, a refresh that fails:
  each is logged and the code goes on.
* *Several ledgers for one position.* The tracker, the risk manager, `_confirmed_buys`,
  `_active_orders` and the chain each say what is held.
* *State that belongs to something that ends.* The entry clock, the trailing marks and the profile
  belong to a position, the trend and the price to beat to a market; both end in several ways, some
  of which tell the strategy engine nothing.
* *A change in several awaits.* Tokens, two subscriptions, the book and its task change one after the
  other, while a background task writes into whichever book there is.
* *Limits.* Bounded caches and queues evict what somebody may still wait for.

What makes each component correct, in a sentence: an order engine reports shares that were traded, and
returns; the loop's ledgers agree with each other and with the wallet; the breaker keeps placements
away after failures and lets them come back; a book is the exchange's at some message, never a later
one than shown and never one that did not exist; a user-channel row shows matched shares only, and its
waiters hear of it; a feed comes back; what the engine remembers is of the position and the market at hand, and every
position is closed; an order rests on its own market's quotes and a sale names the token held; a token that was bought can be sold; a journal row has one fate.
`PROJECT.json` lists the hazards line by line, with the properties that watch them.

## 2. Modules

Every module has one action per handler or step between two awaits; a comment above a definition
names the Python function. A definition whose comment says "Mutant of X" is a plausible mistake in X:
with X so changed the property it is listed with is violated, so no passing run passes for want of
behaviour.

### OrderEngine

One token. `exch`, `used`, `held` are the exchange (external). `trk` holds the `TrackedOrder`
objects, by the id an order was first placed under; `fsms`, `active`, `queue`, `confirmed` are
`_fsms`, `_active_orders`, `_event_queue` and `_confirmed_buys[token]`; `polls` and `done` are the
running `_poll_order()` coroutines and the `_done_event`s; `worker` and `caller` are the awaits
`_event_worker` and the trading coroutine stand at. A reprice is seven steps (prices, recovery,
recovery's FAK, placement, the placement's answer, ...), because at each the exchange, the channel and the
caller can act.

`close_position()` tries to place its order up to `PlaceAttempts` times (LIVE_SELL_PLACE_ATTEMPTS), and
every try may be accepted with its answer lost; when none was answered, a FAK sale is tried `FakAttempts`
times. `BuyConfirms` is what `execute()` does with a fill, the strict purge and the mismatch of the
USDC debit included, after which a fill is not reported.

Abstractions: whole shares; of a price only the outcome of a comparison; the event queue accepts a
channel message only below `QueueCap`; balance reads from the chain answer None, which makes every path
that depends on one take its documented fallback. The breaker, the freshness gate and allowances are
other modules'.

### TradingLoop

The loop's accounting: `pnl` is the whole `PnLTracker`, `riskPnl` the risk manager's sum, `confirmed`
and `rows` what the engine remembers per side, `wallet` the truth. `execute()` and
`close_position()` appear as "awaited, then returns": what they return is what `OrderEngine` lets them
return, or an exception leaves the loop in their middle: `ExecuteRaises` and `CloseRaises` take the
loop to `Finally`, the sale of the shutdown, with what the exchange has done by then and nobody has booked. The
assumption is `ReportedWithinRequest` (no more than asked), which the run `orders` checks;
everything else OrderEngine can do, including the flaws found there, is allowed to happen: shares
nobody reported, FILLED rows left behind, SELLs nobody books.

### CircuitBreaker

`state`, `failure_count`, the age of the last failure up to `Recovery`, and for each caller
whether it has passed the gate of `execute()`/`close_position()` or has a placement under way. The
critical sections contain no await, so each is one step.

### MarketBook

A side of a book is its set of levels. `sent` is the exchange's history: each message with the book
after it, so "the book at message n" can be stated. `reader` is a snapshot being computed outside the
lock; `fetch` is a worker thread waiting for HTTP. `mode`, chosen at the start and never changed, says which
of the two optional sources are configured, best_bid_ask messages and HTTP fetches, and whether messages carry
numbers: `_check_sequence` lets every message without a number (or with one that is not positive) pass.
The optional sources undo part of what the messages guarantee, so the properties say under which modes they hold.

A message changes up to `MaxChanges` levels. When it is numbered the check drops all its changes but the
first, because the first has stored the number; `Untold(n)` are the levels that this may leave wrong:
those that the messages up to the n-th changed last by a dropped change. The properties exempt these
levels and no others. Without numbers nothing is untold.

### UserOrderCache and FeedConnection

`clob_user_ws.py` in two modules: the rows, states, pending orders and waiters of orders that all have
`Size` shares, with one socket; and, for both feeds, the endpoints, the failure count and the server's
numbers. In the first a row is readable at age 0, at age 1 while reconnecting (the doubled limit), at
age 2 never; a call of `wait_for_fill_with_timeout()` may be made again after it returned (nothing in
the repository calls it yet, so its callers are any); `cut` remembers the waiting calls whose own order
was evicted, which the code forgets. In the second, `feed` and `hasBackup`, chosen at the start, say
whether it is the user or the market feed and whether a backup is configured, and `MaxExponent` stands
for 1024, the first power of two Python refuses to convert to a float.

### AllowanceCache

`allowed` is the exchange's allowance per token, lost by a new fill; `cached`, `expired`, `queue`
are the cache; `refresher` the calls the background task has out; `seller` the step and attempt of the
SELL. A cache entry is served expired or not, and stored whether or not the call succeeded, as the
code does; so an entry promises nothing about `allowed`, and no property says so. `wanted` is history:
the tokens scheduled since their last refresh began. A full queue evicts its oldest token, which leaves
`wanted`.

### TradeJournal and RowFates

Rows are numbers in the order of the trades. `writer` is the coroutine, `thread` its worker thread,
which runs beside the synchronous flush of `stop_async_writer()`. `RowFates` is the contract: a row
waits and then meets one fate for ever (written, failed, dropped). `Implements` is the refinement, with
`Fate(r)` computed from the queue, the thread and the file.

### EntryGates and StrategyEngine

`EntryGates` is `process_tick()` without memory: every entry gate, the two ways to an entry signal,
the size of an entry, every exit condition and the choice of a profile, as operators over whole
numbers (edges in points, quotes in cents, factors in percent). Its argument `c` is the record of the
engine's parameters, `t` the trend of the tick, `v` what else the tick sees; the indicators (RSI,
bands, reaction score, volatility, order book imbalance) are fields of `v`.

`StrategyEngine` is what lives from tick to tick, behind the phase router: `memory` is the trend
(`last_edge_sign`, `trend_dir`, `trend_since_ts`, `trend_depth`), `clock` is `entry_time`, `trail` the
two trailing marks, `context` the entry's signal and profile, `pending` is
`_live_entry_sync_pending`. In paper mode a decision changes the position in the same step. In live
mode `at` says which answer of the exchange is awaited, and `Bought`, `NotBought`, `OpenDropped`,
`Adopted` and `Sold` are the ways the main loop goes on, two of which (`OpenDropped`, `Sold`) tell the
engine nothing. `Pass` is a second; ages stop at the bound `AgeCap`. `held`, `sinceSwitch` and
`opener` are history.

### MarketSlots

Markets are numbered, one per slot; a token is a market and a side, and a quote is named by the market
it was taken from (`Synthetic` for the quotes `connect()` makes up around 0.5). `loop.at` is the await
the main loop stands at: the lookup of the tokens, the price to beat, each of the two subscriptions,
the end of a cancelled feed task, an order, a sale. Beside it run the feed task of each book (`feeds`)
and the background refresh (`fetch`), which writes its answer into whatever book there is by then.
Three settings are chosen at the start: `live`; `refreshing` (`CLOB_ORDERBOOK_REFRESH_SEC`, 1.5 by
default); and `ageLimit` (`LIVE_MAX_BOOK_AGE_SEC`, 5 in `config/runtime_live.env` and 0, no limit, in the
code). `crossed` is history: an answer of the refresh went into a book of another market, and nothing
has filled the book since. A market may be found without a condition id; the user channel, if there is
one, then follows nothing (`watched` is `None`).
`success` is `last_clob_book_success_time`: none, a fresh or an aged time of the loop, or a time of
the wall clock, which is what the refresh stores. `order` and `sale` remember what the last live order
and sale named. Shares found by reconciling are `TradingLoop`'s.

### Which module relies on which

`TradingLoop` relies on `OrderEngine` for what an engine call may return; `OrderEngine` takes the
user channel's messages from nowhere in particular (delayed, lost, never invented), which is what
`UserOrderCache!FilledIsReal` says of the rows, and the exchange answers a placement or not, which is
`CircuitBreaker`'s subject. `StrategyEngine` takes the answers of an order from what `TradingLoop`
does with them (filled, rolled back, dropped, adopted, sold in part, force-cleared), and its switch of
the market, only while flat, from `MarketSlots`, where `MaySwitch` is the test. They are not conjoined: their joint state space is out of reach, and the
interfaces named here are narrow.

## 3. Runs

Bounds are named in each module's CONSTANTS. Eleven of the twelve runs pass; between them they fire every action of the
next-state relations.

| run | instance | shows |
|---|---|---|
| `orders` | BUY or SELL of 3 shares, minimum 2, 1 reprice, 2 tries to place a SELL and 2 FAK tries, 5 exchange orders, 1 channel event queued, 1 request | reported fills were traded and fit the request; the FSM registry matches the waiting polls; every open row is watched; a BUY causes at most 2 + reprices orders, a SELL one per try, one more, and one per reprice |
| `order_sell_returns` | SELL, 2 orders, fair | `close_position()` returns, also when the channel is silent |
| `loop_ledgers` | 2 openings, prices 1 and 2, 4 shares, a stop or an exception at any await | the ledgers agree, closes sell the position, money is conserved |
| `breaker` | a gated caller and the worker, threshold 2, recovery 2, 7 failures, fair | late answers never leave the circuit wrong; placements keep quiet after a failure; the circuit is tested again while orders rest |
| `book` | 2 prices, 3 messages of one change or two, 2 under way, four modes (none, unnumbered, both optional sources, best_bid_ask unnumbered), fair | no invented level; without the optional sources a mirror that is exact but for untold levels, and catches up |
| `journal` | queue of 2, 6 rows, fair | one fate per row, order, exact count; every row settles |
| `user_orders` | 2 orders of 2 shares, a cache for 1, 2 calls, 2 shares matched in all (`MaxMatched`), 2 messages under way | rows are real, the maps agree under eviction, no waiter misses an update |
| `user_feed` | both feeds, with a backup and without, numbers 0 to 5, 9 errors, overflow at 4, fair | the backup after three errors in a row; gaps are the messages lost behind the first number above zero; it is enough that the endpoint the feed turns to stays up, unless the overflow has ended it |
| `allowances` | 3 tokens, queue of 2, cache of 1, 2 attempts, fair | no scheduled token is forgotten unless the full queue drops it; bought tokens become sellable all the same |
| `strategy` | the parameters of `config/runtime.env` under both profiles, 5 views of the market, 4 edges, slot of 5 seconds, 2 shares, fair | clock, marks, trend and attribution are those of the position and the market at hand, and a position is closed in the end |
| `slots` | 3 slots, paper and live, with and without the refresh and the age limit, missing condition ids, fair | a sale names the token held; an order with an age limit rests on its own market's quotes, but for an answer of the refresh that crossed the switch; everything of a market changes with it; the loop reaches the last market |

Why the bounds are enough: an order of three shares with minimum two has a partial fill above the
minimum, one below it (dust) and a remainder of either kind; one reprice gives an order whose id
changed; with two tries a SELL can lose the answer of one and go on with the other, or lose both; five orders are one more than it or a
BUY may cause; queue capacity one still has a timer and
a channel event in either order. Two constraints of `MCOrderEngine` cut behaviours that change nothing:
`SomebodyWaits` those after the last request has returned, when no FSM is registered, and
`MessagesFindTheirOrder` those where a message waits for the worker to drop it. Two callers overlap in a
breaker in every way two critical sections
can. A book of two levels can be crossed, empty on one side and have a level behind the best; a message of two
changes may set both levels, either one on both sides, or one level twice, and three messages are a change, a
loss and what follows it. A
cache of one row for two orders evicts on every second touch; two shares matched are one order with
two trades, or one trade of each order. A journal queue of two, with one row in the thread, overflows
with a row of each kind in front. An exponent that overflows at four is above the switch after three
errors, and nine errors let the user feed turn to the backup, connect, and then still reach the overflow. Three tokens are the market's two
and one of the market before, so that a queue of two evicts. The views of `strategy` are a rise, a fall with a loss, a profit, a bad
regime and a stale feed, and the edges -20, 0, 12 and 20 cross zero, stop at it and satisfy either
profile or one of them, so that a profile can change while a position is held; the slot's windows are
shortened in proportion to it, and `AgeCap` 1 tells no age, age zero and an age past every minimum so
shortened apart. Two shares can be sold in part. Three slots allow a position over two boundaries, and
a fetch, a feed and an aged time of one market in each of the two after it.

### Disagreements

The run with expectation *violation* checks a sentence of the repository that the code does not
keep; `PROJECT.json` quotes it.

* `buy_hangs`: `execute()` need not return. The emergency BUY is awaited inside the only worker that
  could end the wait.

The modules contain more behaviour of this kind, translated as the code has it; the passing properties
hold *beside* it. A reader of the models should know of:

* OrderEngine: a cancel called from the running loop raises and is taken for sent, so two orders of one
  request may rest at once; one trade message marks an order FILLED while its rest still rests (`Handle`); after a
  reprice the replacement's fill overwrites the fill before it (so what is reported is bounded from above only); a FAK sale that matched nothing may be reported as sold (`FakSell`); `emergency_exit()` ends
  orders without waking their polls; a repriced order's row stays in `_active_orders` under its old id; the
  answer of the recovery is not used (`ReplaceOrFinish`).
  A lost answer to a SELL's placement is followed by another placement, so several orders of one
  close may rest of which the engine knows one (`OrdersPerRequest` counts them all).
* TradingLoop: a force-clear keeps the cost of the position it drops (so `MoneyIsConserved` is about the
  sum); after a partial SELL the next CLOSE takes the rest for a phantom; reconcile adopts what only
  `_active_orders` remembers; an exception while an engine call is awaited leaves its fill unbooked, and
  the shutdown sells what the tracker holds (`Finally`).
* CircuitBreaker: without a resting order nothing calls an open breaker (`PassGate` refuses), so it stays
  open; `RecoversWhileOrdersRest` says what remains true.
* MarketBook: the second change of a numbered message has the number the first has just stored and is
  dropped (`FirstIsApplied`), so a level may stay wrong until a later first change or a whole book tells
  it; without numbers every change is applied (`AllAreApplied`); the properties exempt an untold level also after a whole
  book has told it; with best_bid_ask messages levels above the new best may stay; with HTTP a fetch empties the
  book, and a snapshot computed beside it is stored as clean.
* UserOrderCache: a trade message replaces the order's total by the size of one trade; any update wakes a
  waiting call, which may then read a zero fill; the eviction of an order drops its waiters (`cut`).
* FeedConnection: a backup that does not answer keeps the feed from its primary for ever, so
  `EndpointsSuffice` asks that the endpoint the feed *turns to* stays up; the market feed never resets its
  failure count, so it turns to the backup at its third disconnection and dies of an overflow at `MaxExponent`,
  as the user feed does after that many errors in a row (`DiedOfOverflow`); a loss right behind message
  number 0 is not counted, as 0 also stands for no message (`GapsAreTheLostMessages` says so).
* AllowanceCache: a SELL is placed on an old entry, or on the entry of a call that failed; the background
  task stores no entries; a full queue forgets its oldest token, which becomes sellable all the same:
  the background task also takes the market's tokens, and a SELL ensures its own.
* StrategyEngine: `reset_for_new_market()` leaves the router's cached trend state, so the first tick of
  a market chooses the profile by the old market's trend (`soft`); a bad regime returns before the
  trend is updated, so trend and profile stand still while it lasts (`TickSkipped`); after an edge of
  exactly zero the trend is FLAT until the next change of sign (`UpdateTrend`); adopted shares and what
  a partial sale leaves have no entry clock, so no exit with a minimum hold fires for them before the
  slot's end; the paths of `OpenDropped` leave `_live_entry_sync_pending` set; a live close clears the
  context before it is booked, so it is booked without a key; the switch of the market drops the guard
  against re-entry (`sinceClose`).
* MarketSlots: `_run_orderbook_refresh` stores a time of the wall clock where the loop compares with
  its own (bot_main_loop.py:537 and 1423), so after one refresh the test of the book's age always
  passes; its answer to a fetch of the old market's tokens, which is under way during the switch, goes into the new market's book
  (bot_main_loop.py:515), although the comment at 964 says that the reset there avoids the previous market's data;
  `OpensOnItsOwnQuotes` exempts what is ordered between that answer and the next quotes
  (`crossed`); without an age limit nothing compares the age of a book, and made-up quotes may be traded on;
  in a market without a condition id the user channel follows nothing, while decisions go on; paper orders
  take made-up quotes; the fallback for the price to beat is the oracle's price at the switch, which
  may be long after the slot began; the journal is stopped before the shutdown's sale.

Read but not stated in any module: the hub ranks ENTRY and EXIT, while the engine emits OPEN and CLOSE,
so with several strategies an entry ranks like HOLD; `MarketRegimeDetector` resets a candidate's count
at a bounce back, where its comment says that it does not; `apply_profile` puts the router's snapshot
over what `reload_profile_params` has read.

### Fairness

* OrderEngine: the event loop runs a coroutine that can go on (`WorkerNext`, `CallerContinues`,
  `PollNext`); the timer task ticks every `_stale_check` period; an order that rests gets stale by the
  clock. Nothing is assumed of the exchange or the channel.
* CircuitBreaker: time passes, the main loop asks again, a call that can be placed is placed, a
  placement that started answers (it has an HTTP timeout). It is not assumed that a refused
  replacement gives its order up.
* MarketBook: `run_forever` connects again, the socket delivers, the reader thread ends.
* FeedConnection: `run_forever` tries again after its delay.
* TradeJournal: the writer's polling loop and its thread go on.
* AllowanceCache: the background task goes on; and a refresh of the same token that is tried for ever
  succeeds some time (strong fairness of the answer: the exchange is not down for ever).
* StrategyEngine: seconds pass, an awaited order is answered or times out, and the loop ticks again and
  again in the last seconds of a slot while a position is open (strong fairness; a second has many
  ticks). Nothing is assumed of the market or of how much a sale fills.
* MarketSlots: the main loop goes on, since each of its awaits has a timeout or is of a task that ends;
  it looks the market up every `HFT_MIN_SLOT_POLL_SEC` and finds it again and again, while flat too;
  the oracle speaks; a position is closed in the end, which is `PositionCloses` of StrategyEngine.

## 4. Proofs

The theorems hold for all constants that satisfy the module's named assumption, and are proved by
TLAPS with Z3, Zenon and, for the temporal steps, LS4. Every safety invariant and every action property
that a passing run checks is proved, and so is the refinement of `RowFates` by `TradeJournal`.

* `OrderEngine_proofs`, three invariants.
  * `IInv`: `TypeCorrect`, `WaitingReachable`, `FsmsCleaned`, `WokenFinal`, `OpenRowsWatched`.
    `WaitingOrdersAreRegistered` is not inductive: a reprice writes a new id into `_fsms`, and that must
    not be one another order uses. `IInv` adds that an id in the answer of a placement not yet processed
    occurs in none of the maps (`PostedIsFresh`), that the worker and the caller never hold the same such
    id (`PostedIds`), that the order being repriced is polled and not woken (`WorkerIsPolled`), that the
    timer's batch is polled or done, and that an emergency exit has a final status. Each worker and
    caller step has its lemma.
  * `Backed`: `NothingPhantom`, `ReportsWithinRequest`. Whatever is reported of an order, by a row, an event in
    the queue or an answer under way, is at most what the exchange has traded of it, and a request's orders
    carry the request as their root. What a request has traded is a sum over its orders; the first section
    of the module proves what is needed of the sum of a function over a finite set.
  * `Budgets`: `RequestsPlaceFewOrders`. A request has at most one waiting order, and the orders it has
    placed stay within an allowance that grows with the reprices of that order, and that for a SELL starts at
    `PlaceAttempts` (`Budget`, with `SideBudget`: the orders of a request are on its side). Before there is a
    waiting order, the orders the caller has placed and the tries it has left together fit its limit
    (`CallerBudget`). Hence at most `MaxReprice + 2` orders for a BUY and `PlaceAttempts + 1 + MaxReprice`
    for a SELL.
* `TradingLoop_proofs`: `TypeCorrect`, `LedgersAlwaysAgree`, `ClosesSellThePosition`,
  `MoneyConserved`, `LossLimitHolds`. `IInv` adds `CallsFit`: no inventory if and only if no side, an
  `execute()` only from a flat tracker, a `close_position()` only with a position. Lemmas about
  `LiveOpen`, `LiveClose` and `ForceClear` carry the arithmetic; `FinallyKeeps` is what every way out of
  the loop shares.
* `Resilience_proofs`, about three small modules.
  * CircuitBreaker: `BreakerTypeCorrect`, `ClosedBelowThreshold`, `QuietAfterEveryTrip`, for any set of
    callers. `HalfOpenIsQuiet` (a half-open breaker has had no failure for the recovery time) makes it
    inductive.
  * AllowanceCache: `ScheduledIsKept`, for a queue of any length and any tokens. A token is scheduled in front
    of a queue that drops its oldest, and only that, when it is full; what is taken out of the queue is
    refreshed.
  * FeedConnection: `FeedTypeCorrect`; `BackupNeedsFailures`, which speaks of the user feed (the market
    feed does not keep it), by `attempt <= streak`; `GapsAreExact`, for any first number, by the set
    of lost numbers `Lost` growing by an interval that is disjoint from it, once a number above zero was
    handled.
* `MarketBook_proofs`.
  * `FirstIsApplied`: of the changes of one numbered message, however many, exactly the first is applied;
    `AllAreApplied`: of one without a number, all. A fold over the message is unfolded for any number of
    changes, which shows that neither is an accident of a bound.
  * `CleanIsCurrent`, for every number of changes, by `SInv`: a step that changes the levels marks the snapshot,
    and what is being computed is of the levels that are there.
  * `BookMirrors` and `BookInventsNothing`, for any number of changes in a message, numbered or not, but
    for the levels that are untold. `UntoldStays` and `UntoldLater` say how these change from a message to the
    next: a level ceases to be untold by a first change only. `BInv` adds how the exchange's messages follow each
    other (`Chain`), that what is under way goes on where the cache stopped or starts with a whole book
    (`NetIs`), and which levels a best_bid_ask message may bring before the change it belongs to is told
    (`Held`). One case needs care: a best_bid_ask message that tells no prices is ignored with its
    number, so the cache may be one message behind (`Caught`); two in a row never are
    (`BestFollowsChange`).
* `UserOrderCache_proofs`: `TypeCorrect`, `MapsAgree`, `FillsAreReal`, `WaitersAreWoken`, for any orders,
  waiting calls and limits. `SaidIsReal`: no message under way, and no trade that can still be confirmed, speaks
  of more shares than were matched. `WaitersAreListed`: a waiting call's event is in its order's list, unless that order
  was evicted. A touch takes a key out and appends it; lemmas about sequences without repetition say
  what is kept in order, and that one key at most is too many.
* `TradeJournal_proofs`: `TypeCorrect`, `FileAlwaysInOrder`, `StopAlwaysDrains`, `EveryDropIsCounted`,
  `JournalImplements`, for any queue length. The queue, the thread and the file are increasing and each
  below the next (`Ordered`), except for a row whose thread outlived its writer; `Control` ties the
  writer's phase to `stop_async_writer()`'s. For the count and the refinement each row is in one place, and a
  step leaves every row where it is, settles one, or queues one; `Implements` follows step by step.
* `StrategyEngine_proofs`, about both modules of the strategy. `TypeCorrect`, `ClockIsThePositions`,
  `TrailIsThePositions`, `TrendIsTheMarkets`, `ClosesAreTheOpeners`, `PendingMeansFlat`,
  `PositionIsTheMarkets`, and the action property `StopIsKept`, for all parameters, edges and views with
  integer profits and quotes, and trailing parameters that are natural numbers with one break-even for
  both profiles (`DataAssumption`; the phase router overrides entry parameters only). None of the
  invariants is inductive alone: the invariant `Memorized` adds `Phased`, what each phase of an order
  implies (an open order is pending and flat; a close under way has no clock and no marks; flat means
  none of either). One lemma per action; `UpdateTrendSound` and `UpdateTrailSound` carry the arithmetic.
  Of `EntryGates`: `SignalFollowsTheEdge`, `OneSideOnly`, `AmountIsAffordable`, `DiagnosisAgrees`:
  what a tick's decisions guarantee for all parameters, where the needed edge is shown positive from
  positive multipliers (`Scaled`) and the amounts are ordered (`Sized`).
* `MarketSlots_proofs`: `TypeCorrect`, `SalesNameTheToken`, `OrdersRestOnTheirQuotes`,
  `BeatIsTheMarkets`, `AllSwitched`, for any number of slots. The invariant `Switched` says for each
  await of a switch what has changed already (`Subscribed`, where the user channel follows the traded market or
  nothing, and `OneFeed`), that between the decision to
  switch and the switch nothing can be bought (`Positioned`), and that, unless an answer of the refresh has
  crossed the switch, a known time of success means quotes of the traded market (`Quoted`).

Induction: the library's induction theorems take an operator as a parameter, which no installed prover
can instantiate. Finite sums, orders of keys and folds over a message are reached another way: a
non-empty set of naturals has a least element (`LeastNat`, from `WFMin`), so a property that fails fails first
somewhere, or from the cardinality of finite sets.

Only model-checked: every liveness property (`SellReturnsEventually`, `RecoversWhileOrdersRest`, `CatchesUp`, `RowsSettle`,
`EndpointsSuffice`, `AllowanceReturns`, `PositionCloses`, `FollowsTheSlot`), as fairness and ENABLED are beyond the
prover's reach, and the disagreement `buy_hangs`. The other way round, some theorems are about
definitions no run checks: the type invariants, `WokenFinal`, `LossLimitHolds`, `PendingMeansFlat`,
`PositionIsTheMarkets` and `StopIsKept`, which the inductive invariants bring along, `FirstIsApplied` and
`AllAreApplied`, and those about `EntryGates`.

## 5. Not modelled

`PROJECT.json` gives the reason for each component. In short: price feeds, indicators, the market regime and the LSTM
(floating-point numerics, inputs of a tick), statistics, configuration and logging (one sequential pass, or nothing reads it
back), scripts. In modelled components: several tokens per engine, the probes that only refuse an OPEN,
sub-minimum closes, on-chain balance polling, paper fills' slippage, sizes of book levels, back-off delays,
journal columns and header migration (a crash in the middle of one is not covered), the values of
balances, the engine's diagnostics, `HFT_NO_ENTRY_GUARDS` and `HFT_PHASE_FORCE_PROFILE`,
`generate_live_signal()`, which only tests call. The hub is left out because with
`HFT_PARALLEL_STRATEGIES=0`, as configured, it returns the active strategy's decision; the task monitor
because nothing reads its counters to decide anything; the risk engine because its two comparisons only
refuse an OPEN (`OpenDropped`).

Two things are assumed because the repository does not say: the exchange numbers its market messages across
connections (if it starts again at one, `_check_sequence` drops everything after a reconnection), and it
sends nothing twice except after a reconnection.

## 6. Plan

Done: OrderEngine, TradingLoop, CircuitBreaker, MarketBook, TradeJournal/RowFates, UserOrderCache,
FeedConnection, AllowanceCache, EntryGates/StrategyEngine, MarketSlots; the proofs of section 4, which
cover every safety property of the runs.

The number of runs and of checked properties is kept small on purpose: a module that is added shares a
run's instance where it can, and a new property takes the place of a weaker one. What could come next:

1. The hub over two abstract strategies with timeouts, and MarketRegime's hysteresis, should several
   strategies ever run at once.
2. What OrderEngine leaves out: sub-minimum closes, chain balances; an
   abstract order ("asks for n, returns at most n, once") that OrderEngine refines and TradingLoop uses.
3. Proofs: that refinement, by `Backed`; further lemmas about the operators of `EntryGates` (the exits);
   what the liveness properties rest on and can be stated as an invariant or an action property.
